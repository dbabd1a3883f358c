------------------------------- MODULE Board -------------------------------
(***************************************************************************)
(* The dashboard: the Run and root Session rows of internal/db/sqlite, the *)
(* handlers of internal/server that write and list them, and the part of   *)
(* internal/runtime/manager.go that brings roots into being.               *)
(*                                                                         *)
(* Threads: request handlers (one partial update, one delete, any number   *)
(* of single-call ones), root goroutines, a client that pages through the  *)
(* list, notifiers, and the detached goroutines that restate a chatbot's   *)
(* answers.  An action is one store call, or one region under a lock.      *)
(*                                                                         *)
(* Time is what formatTime keeps of it: several calls may share one tick   *)
(* (a millisecond).  Search, wording and workspace display are left out.   *)
(***************************************************************************)
EXTENDS Integers, FiniteSets, Sequences

CONSTANTS
  Runs,          \* run ids, ordered as sqlite orders them: numbers
  Roots,         \* the root sessions a run may have
  Editable,      \* the fields the operator edits
  Queries,       \* what clients ask the list for
  defaultRunsPage, maxRunsPage,
  Notifiers,     \* background scripts that call `amplio notify`
  maxEnvNoticesPerStep,
  MaxTime,       \* bound: ticks of the clock
  MaxWrites      \* bound: launches, status changes and requests

BoardAssumption ==
  /\ Runs \subseteq Nat /\ IsFiniteSet(Runs) /\ Roots \subseteq {"main-agent", "chatbot"}
  /\ defaultRunsPage \in Nat \ {0} /\ maxRunsPage \in Nat \ {0}
  /\ \A q \in Queries : q.limit \in Int
  /\ IsFiniteSet(Notifiers) /\ maxEnvNoticesPerStep \in Nat \ {0}
  /\ MaxTime \in Nat

VARIABLES
  now, writes,
  run,        \* Run rows
  root,       \* root Session rows of every run
  slot,       \* roots with a live goroutine
  patch,      \* the PATCH under way: its run and the fields still to apply
  deleting,   \* the DELETE under way: its run and the roots still to cancel
  rewrites,   \* ResponseRewrite rows, by run
  rewriting,  \* runs with a rewrite under way
  walk,       \* the client's way through the pages
  steady,     \* history: the runs that matched the walk's query all along
  unread,     \* history: roots that stopped since the operator's last look
  notices, notifier, stepped

rows == <<run, root>>
handlers == <<patch, deleting>>
prose == <<rewrites, rewriting>>
notify == <<notices, notifier, stepped>>
vars == <<now, writes, rows, slot, handlers, prose, walk, steady, unread, notify>>

Chatbot == "chatbot"
Main == "main-agent"
Absent == [status |-> "absent"]
NoRun == [created |-> -1]
Deleted == [created |-> -2]  \* an id is never drawn again

Exists(r) == run[r] \notin {NoRun, Deleted}
HasRow(r, s) == s \in Roots /\ root[r][s] # Absent
RootsOf(r) == {s \in Roots : HasRow(r, s)}

Working == {"ongoing", "awaiting"}
relevantUpdateStatuses == {"idle", "concluded", "crashed", "cancelled"}

Grades == 0..5  \* 0 is ungraded
Fields == <<"starred", "grade", "archived", "seen">>

Init ==
  /\ now = 0 /\ writes = 0
  /\ run = [r \in Runs |-> NoRun]
  /\ root = [r \in Runs |-> [s \in Roots |-> Absent]]
  /\ slot = [r \in Runs |-> {}]
  /\ patch = <<>> /\ deleting = <<>>
  /\ rewrites = {} /\ rewriting = {}
  /\ walk = [at |-> "none"]
  /\ steady = {} /\ unread = {}
  /\ notices = 0 /\ notifier = [n \in Notifiers |-> "idle"] /\ stepped = 0

Tick ==
  /\ now < MaxTime /\ now' = now + 1
  /\ UNCHANGED <<writes, rows, slot, handlers, prose, walk, unread, notify>>

Write == writes < MaxWrites /\ writes' = writes + 1

-----------------------------------------------------------------------------
\* Bringing roots into being.

\* createRun: the row starts seen.  A colliding id is drawn again.
CreateRun(r) ==
  /\ Write /\ run[r] = NoRun
  /\ run' = [run EXCEPT ![r] = [created |-> now, seen |-> now, archived |-> FALSE,
                                starred |-> FALSE, grade |-> 0, report |-> 0]]

\* StartRun up to the launch: the row, then the root's slot.  An interactive
\* run's root is the chatbot.
StartRun(r) ==
  \E s \in Roots :
    /\ CreateRun(r)
    /\ slot' = [slot EXCEPT ![r] = @ \cup {s}]
    /\ UNCHANGED <<now, root, handlers, prose, walk, unread, notify>>

\* AddChatbot, all of it under chatbotMu: live or persisted is enough.
AddChatbot(r) ==
  /\ Exists(r) /\ Chatbot \in Roots \ slot[r] /\ ~HasRow(r, Chatbot)
  /\ Write
  /\ slot' = [slot EXCEPT ![r] = @ \cup {Chatbot}]
  /\ UNCHANGED <<now, rows, handlers, prose, walk, unread, notify>>

\* The goroutine's bootstrap inserts its Session row.  The foreign key refuses
\* it once the run is gone, and the goroutine ends.  The insert leaves the time of
\* the status to the column's default, which is now (schema.go).
CreateSession(r, s) ==
  /\ s \in slot[r] /\ ~HasRow(r, s)
  /\ IF Exists(r)
     THEN /\ root' = [root EXCEPT ![r][s] = [status |-> "ongoing", changed |-> now]]
          /\ UNCHANGED slot
     ELSE /\ slot' = [slot EXCEPT ![r] = @ \ {s}]
          /\ UNCHANGED root
  /\ UNCHANGED <<now, writes, run, handlers, prose, walk, unread, notify>>

\* Every writer of a root's status stamps the time.
SetStatus(r, s, st) ==
  /\ root' = [root EXCEPT ![r][s] = [status |-> st, changed |-> now]]
  /\ unread' = IF st \in relevantUpdateStatuses THEN unread \cup {<<r, s>>}
               ELSE unread \ {<<r, s>>}

\* Observe: a chatbot's answer is restated on the side, by a goroutine nobody waits
\* for.
Observe(r, s, st) ==
  rewriting' = IF s = Chatbot /\ st = "idle" THEN rewriting \cup {r} ELSE rewriting

\* A live root works, waits, parks, ends.
ChangeStatus(r, s) ==
  /\ s \in slot[r] /\ HasRow(r, s) /\ Write
  /\ root[r][s].status \in Working \cup {"idle"}
  /\ \E st \in {"ongoing", "awaiting", "idle", "concluded", "crashed"} :
       /\ st # root[r][s].status
       /\ SetStatus(r, s, st)
       /\ Observe(r, s, st)
  /\ UNCHANGED <<now, run, slot, handlers, rewrites, walk, notify>>

\* The goroutine returns, its work done or its context cancelled.
Leave(r, s) ==
  /\ s \in slot[r] /\ HasRow(r, s)
  /\ slot' = [slot EXCEPT ![r] = @ \ {s}]
  /\ UNCHANGED <<now, writes, rows, handlers, prose, walk, unread, notify>>

\* rewrite reads the rows first and inserts much later; ResponseRewrite has no
\* foreign key.
PutResponseRewrite(r) ==
  /\ r \in rewriting
  /\ rewriting' = rewriting \ {r}
  /\ rewrites' \in {rewrites, rewrites \cup {r}}
  /\ UNCHANGED <<now, writes, rows, slot, handlers, walk, unread, notify>>

\* A respawn or a restart takes the slot of a root with a row.
Respawn(r, s) ==
  /\ HasRow(r, s) /\ s \notin slot[r] /\ Write
  /\ slot' = [slot EXCEPT ![r] = @ \cup {s}]
  /\ SetStatus(r, s, "ongoing")
  /\ UNCHANGED <<now, run, handlers, prose, walk, notify>>

-----------------------------------------------------------------------------
\* The operator's edits.

\* handleUpdateRun is a request for some fields; each is a store call of its
\* own, in a fixed order, and the first that fails ends the request.
BeginPatch(r) ==
  /\ patch = <<>> /\ Exists(r) /\ Write
  /\ \E wanted \in (SUBSET Editable) \ {{}} :
       patch' = <<r, SelectSeq(Fields, LAMBDA f : f \in wanted)>>
  /\ UNCHANGED <<now, rows, slot, deleting, prose, walk, unread, notify>>

Stopped(r) == {s \in RootsOf(r) : root[r][s].status \in relevantUpdateStatuses}

MarkRunSeen(r) ==
  /\ run' = [run EXCEPT ![r].seen = now]
  /\ unread' = {u \in unread : u[1] # r}

\* Back to what a run nobody opened has.
MarkRunUnseen(r) ==
  /\ run' = [run EXCEPT ![r].seen = run[r].created]
  /\ unread' = unread \cup {<<r, s>> : s \in Stopped(r)}

\* The single-field updates.  A run that is gone updates no row, and no error.
SetField(r, f) ==
  \/ /\ f = "starred"
     /\ run' = [run EXCEPT ![r].starred = ~@] /\ UNCHANGED unread
  \/ /\ f = "grade"
     /\ \E g \in {0, 5} : run' = [run EXCEPT ![r].grade = g]
     /\ UNCHANGED unread
  \/ /\ f = "archived"
     /\ run' = [run EXCEPT ![r].archived = ~@] /\ UNCHANGED unread
  \/ /\ f = "seen"
     /\ MarkRunSeen(r) \/ MarkRunUnseen(r)

PatchField ==
  /\ patch # <<>>
  /\ LET r == patch[1]  f == Head(patch[2]) IN
       /\ IF Exists(r) THEN SetField(r, f) ELSE UNCHANGED <<run, unread>>
       /\ patch' = IF Tail(patch[2]) = <<>> THEN <<>> ELSE <<r, Tail(patch[2])>>
  /\ UNCHANGED <<now, writes, root, slot, deleting, prose, walk, notify>>

\* parseGradePatch refuses the value, or a store call fails: what came before
\* stays applied.
PatchFails ==
  /\ patch # <<>> /\ patch' = <<>>
  /\ UNCHANGED <<now, writes, rows, slot, deleting, prose, walk, unread, notify>>

\* The critic caches its grade on the row.
SetRunReportGrade(r) ==
  /\ Exists(r) /\ run[r].report = 0 /\ Write
  /\ run' = [run EXCEPT ![r].report = 3]
  /\ UNCHANGED <<now, root, slot, handlers, prose, walk, unread, notify>>

\* handleDeleteRun (and handleCancelRun, which stops before the last step): the
\* roots are listed once, cancelled one by one, then the rows go.
BeginDelete(r) ==
  /\ deleting = <<>> /\ Exists(r) /\ Write
  /\ deleting' = <<r, RootsOf(r)>>
  /\ UNCHANGED <<now, rows, slot, patch, prose, walk, unread, notify>>

\* CancelSession: the verdict unless the session is terminal, then the
\* interrupt.  A failure is logged and the next root follows.
CancelRoot ==
  /\ deleting # <<>> /\ deleting[2] # {}
  /\ \E s \in deleting[2] :
       LET r == deleting[1] IN
       /\ deleting' = <<r, deleting[2] \ {s}>>
       /\ IF HasRow(r, s) /\ root[r][s].status \in Working \cup {"idle"}
          THEN SetStatus(r, s, "cancelled") ELSE UNCHANGED <<root, unread>>
  /\ UNCHANGED <<now, writes, run, slot, patch, prose, walk, notify>>

\* DeleteRun's transaction: Observation, Event, Session and Run rows.
DeleteRun ==
  /\ deleting # <<>> /\ deleting[2] = {}
  /\ LET r == deleting[1] IN
       /\ run' = [run EXCEPT ![r] = Deleted]
       /\ root' = [root EXCEPT ![r] = [s \in Roots |-> Absent]]
       /\ unread' = {u \in unread : u[1] # r}
  /\ deleting' = <<>>
  /\ UNCHANGED <<now, writes, slot, patch, prose, walk, notify>>

\* handleCancelRun is done once the roots are cancelled.
CancelRunDone ==
  /\ deleting # <<>> /\ deleting[2] = {}
  /\ deleting' = <<>>
  /\ UNCHANGED <<now, writes, rows, slot, patch, prose, walk, unread, notify>>

-----------------------------------------------------------------------------
\* What SQL says of a run.

\* ORDER BY (agent_type = 'chatbot'), created_at LIMIT 1; no root is NULL.
primaryRootStatusExpr(r) ==
  IF HasRow(r, Main) THEN root[r][Main].status
  ELSE IF HasRow(r, Chatbot) THEN root[r][Chatbot].status ELSE "null"

runUpdatesPredicate(r) ==
  \E s \in RootsOf(r) : /\ root[r][s].status \in relevantUpdateStatuses
                        /\ root[r][s].changed > run[r].seen

statusFilterClause(r, filter) ==
  CASE filter = "" -> TRUE
    [] filter = "active" -> primaryRootStatusExpr(r) \in {"ongoing", "awaiting"}
    [] filter = "done" -> primaryRootStatusExpr(r) = "concluded"
    [] filter = "failed" -> primaryRootStatusExpr(r) \in {"crashed", "cancelled"}
    [] filter = "updates" -> runUpdatesPredicate(r)
    [] OTHER -> FALSE

effectiveGrade(r) == IF run[r].grade > 0 THEN run[r].grade ELSE run[r].report

\* GradeNone is 0, GradeUngraded is -1, an unknown rank matches nothing.
gradeFilterClause(r, g) ==
  \/ g = 0
  \/ g = -1 /\ effectiveGrade(r) = 0
  \/ g \in 1..5 /\ effectiveGrade(r) = g

Matches(r, q) ==
  /\ Exists(r)
  /\ q.archived \/ ~run[r].archived
  /\ statusFilterClause(r, q.filter)
  /\ q.starred => run[r].starred
  /\ gradeFilterClause(r, q.grade)

\* The total order of the list, newest first.
Before(a, b) == \/ a.created > b.created
                \/ a.created = b.created /\ a.id > b.id
Key(r) == [created |-> run[r].created, id |-> r]

\* Mutant of Older: no tie-break on equal timestamps.
OlderByTime(a, cursor) == a.created < cursor.created

\* The keyset predicate: strictly past the cursor.
Older(a, cursor) == \/ a.created < cursor.created
                    \/ a.created = cursor.created /\ a.id < cursor.id

\* handleListRuns clamps ?limit; ListRuns probes one row past the page.
Limit(q) == IF q.limit <= 0 THEN defaultRunsPage
            ELSE IF q.limit > maxRunsPage THEN maxRunsPage ELSE q.limit

\* The rows of a page are those with fewer than LIMIT rows before them.
ListRuns(q, cursor) ==
  LET found == {Key(r) : r \in {x \in Runs : Matches(x, q)}}
      past == {k \in found : cursor = <<>> \/ Older(k, cursor[1])}
  IN [rows |-> {k \in past : Cardinality({m \in past : Before(m, k)}) < Limit(q)},
      hasMore |-> Cardinality(past) > Limit(q)]

RunCounts ==
  LET shown == {r \in Runs : Exists(r) /\ ~run[r].archived} IN
  [active |-> Cardinality({r \in shown : statusFilterClause(r, "active")}),
   updates |-> Cardinality({r \in shown : runUpdatesPredicate(r)})]

-----------------------------------------------------------------------------
\* What the server makes of a row (toRunSummary).

primaryRoot(r) ==
  IF RootsOf(r) \ {Chatbot} # {} THEN CHOOSE s \in RootsOf(r) \ {Chatbot} : TRUE
  ELSE IF RootsOf(r) # {} THEN CHOOSE s \in RootsOf(r) : TRUE ELSE "none"

\* Mutant of runHasUpdates: the primary root's transitions only.
HasUpdatesOfPrimary(r) ==
  /\ primaryRoot(r) # "none"
  /\ root[r][primaryRoot(r)].status \in relevantUpdateStatuses
  /\ root[r][primaryRoot(r)].changed > run[r].seen

runHasUpdates(r) ==
  \E s \in RootsOf(r) : /\ root[r][s].status \in relevantUpdateStatuses
                        /\ root[r][s].changed > run[r].seen

toRunSummary(r) ==
  [status |-> IF primaryRoot(r) = "none" THEN "null" ELSE root[r][primaryRoot(r)].status,
   hasUpdates |-> runHasUpdates(r)]

-----------------------------------------------------------------------------
\* A client follows next_cursor from the first page to the last, once.  A page
\* is a set, which the query has sorted; its last row makes the cursor.
BeginWalk ==
  /\ walk.at = "none"
  /\ \E q \in Queries :
       walk' = [at |-> "paging", query |-> q, cursor |-> <<>>, got |-> <<>>]
  /\ UNCHANGED <<now, writes, rows, slot, handlers, prose, unread, notify>>

Oldest(keys) == CHOOSE k \in keys : \A m \in keys : m = k \/ Before(m, k)

NextPage ==
  /\ walk.at = "paging"
  /\ LET page == ListRuns(walk.query, walk.cursor) IN
       walk' = [walk EXCEPT
         !.got = Append(@, page.rows),
         !.cursor = IF page.rows = {} THEN @ ELSE <<Oldest(page.rows)>>,
         !.at = IF page.hasMore THEN "paging" ELSE "done"]
  /\ UNCHANGED <<now, writes, rows, slot, handlers, prose, unread, notify>>

-----------------------------------------------------------------------------
\* handleNotify on one session: the count, then the append.

\* Mutant of CountNotices: the cap itself still passes.
CountNoticesLate(n) ==
  /\ notifier[n] = "idle" /\ notices <= maxEnvNoticesPerStep
  /\ notifier' = [notifier EXCEPT ![n] = "counted"]
  /\ UNCHANGED <<now, writes, rows, slot, handlers, prose, walk, unread,
                 notices, stepped>>

\* CountEnvNotices looks at the current step; at the cap the answer is 429.
CountNotices(n) ==
  /\ notifier[n] = "idle" /\ notices < maxEnvNoticesPerStep
  /\ notifier' = [notifier EXCEPT ![n] = "counted"]
  /\ UNCHANGED <<now, writes, rows, slot, handlers, prose, walk, unread,
                 notices, stepped>>

AppendNotice(n) ==
  /\ notifier[n] = "counted"
  /\ notices' = notices + 1
  /\ notifier' = [notifier EXCEPT ![n] = "idle"]
  /\ UNCHANGED <<now, writes, rows, slot, handlers, prose, walk, unread, stepped>>

\* The session moves to its next step: the count starts again.
AdvanceStep ==
  /\ Notifiers # {} /\ stepped < 1 /\ stepped' = stepped + 1
  /\ notices' = 0
  /\ UNCHANGED <<now, writes, rows, slot, handlers, prose, walk, unread, notifier>>

-----------------------------------------------------------------------------
\* History: what matches when a walk begins, less what ever stops matching.
Remember ==
  steady' = IF walk.at = "paging" THEN {r \in steady : Matches(r, walk.query)'}
            ELSE IF walk'.at = "paging" THEN {r \in Runs : Matches(r, walk.query)'}
            ELSE steady

Step ==
  \/ Tick
  \/ \E r \in Runs :
       \/ StartRun(r) \/ AddChatbot(r) \/ BeginPatch(r) \/ BeginDelete(r)
       \/ SetRunReportGrade(r) \/ PutResponseRewrite(r)
       \/ \E s \in Roots : \/ CreateSession(r, s) \/ ChangeStatus(r, s)
                            \/ Leave(r, s) \/ Respawn(r, s)
  \/ PatchField \/ PatchFails
  \/ CancelRoot \/ DeleteRun \/ CancelRunDone
  \/ BeginWalk \/ NextPage
  \/ \E n \in Notifiers : CountNotices(n) \/ AppendNotice(n)
  \/ AdvanceStep

Next == Step /\ Remember

Spec == Init /\ [][Next]_vars

-----------------------------------------------------------------------------
\* Paging loses nothing and repeats nothing, whatever is created, edited or
\* deleted between two pages: a client that follows next_cursor to the end
\* (handleListRuns, ListRuns) has seen every run that matched its query all along,
\* newest first, each once, ties in the timestamp included.
PagesCover ==
  /\ walk.at # "none" => \A i, j \in DOMAIN walk.got :
       i < j => \A a \in walk.got[i], b \in walk.got[j] : Before(a, b)
  /\ walk.at = "done" => \A r \in steady :
       \E i \in DOMAIN walk.got : \E k \in walk.got[i] : k.id = r

\* The badge is what it is for: a root that stopped after the operator's last
\* look at the run raises it, unless both fell into one millisecond, and nothing
\* else does; the row's badge and status (runHasUpdates, primaryRoot) are those
\* the filters and the banner count by (runUpdatesPredicate,
\* primaryRootStatusExpr).
BadgeUntilSeen ==
  /\ RunCounts.updates = Cardinality(
       {r \in Runs : Exists(r) /\ ~run[r].archived /\ toRunSummary(r).hasUpdates})
  /\ \A r \in Runs : Exists(r) =>
    /\ \A s \in Roots : <<r, s>> \in unread =>
         toRunSummary(r).hasUpdates \/ root[r][s].changed = run[r].seen
    /\ toRunSummary(r).hasUpdates => \E s \in Roots : <<r, s>> \in unread
    /\ toRunSummary(r).hasUpdates = statusFilterClause(r, "updates")
    /\ (toRunSummary(r).status \in Working) = statusFilterClause(r, "active")
    /\ (toRunSummary(r).status \in {"crashed", "cancelled"})
         = statusFilterClause(r, "failed")

\* The flood guard bounds a step's notices by its cap and the notifiers that
\* had counted before the others appended (handleNotify is two store calls).
NoticesBounded ==
  notices <= maxEnvNoticesPerStep + Cardinality(Notifiers) - 1

\* Deleting a run removes all its rows (the comments of handleDeleteRun and
\* DeleteRun); the ResponseRewrite rows are not among those it deletes, and one
\* may even be inserted later.
DeleteRemovesAll == \A r \in rewrites : run[r] # Deleted
=============================================================================

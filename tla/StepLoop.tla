------------------------------ MODULE StepLoop ------------------------------
(***************************************************************************)
(* internal/agent/eventloop: the step model of one session, over the event *)
(* log of internal/db/sqlite.  The log and the Session row are durable;    *)
(* everything the goroutine knows is lost whenever it stops, which it may  *)
(* do between any two writes (a process crash, a store error, a panic).    *)
(* What a resumed life does is derived from the log alone.                 *)
(*                                                                         *)
(* One action per committed write, or per read a decision is taken on.     *)
(* The conversation is abstracted: an event is its kind, its generation    *)
(* and a number (how many calls a tool turn declares, which call a result  *)
(* answers; calls are numbered within their step).  Between the write of a *)
(* cancel and the interrupt that ends it the goroutine goes on; after the  *)
(* interrupt it is gone: every later write of it carries the cancelled     *)
(* context and fails, or is refused because the status is terminal.        *)
(***************************************************************************)
EXTENDS Integers, Sequences, FiniteSets, FiniteSetsExt

CONSTANTS
  Profiles,      \* of "task" (autonomous), "chat" and "chatFirst" (interactive)
  Replies,       \* the no-tool turns the model may produce
  MaxCalls,      \* most tool calls in one turn
  MaxStep,       \* bound on current_step
  MaxGen,        \* bound on current_generation, i.e. on compactions
  MaxArrivals,   \* bound on the events other parties append
  MaxStops       \* bound on how often the goroutine dies

NoToolKinds == {"text", "empty", "limit", "refusal"}
AsstKinds == NoToolKinds \cup {"tools"}
UserKinds == {"task", "input", "recover", "nudgeEmpty", "nudgeLimit"}
Kinds == AsstKinds \cup UserKinds \cup
           {"system", "notice", "result", "marker", "compaction"}

ASSUME ProfilesAssumption == Profiles \subseteq {"task", "chat", "chatFirst"}
ASSUME RepliesAssumption == Replies \subseteq NoToolKinds
ASSUME BoundsAssumption ==
  /\ MaxCalls \in Nat /\ MaxStep \in Nat \ {0} /\ MaxGen \in Nat
  /\ MaxArrivals \in Nat /\ MaxStops \in Nat

maxConcludeNudges == 2
maxOutputLimitNudges == 2
maxConsecutiveCompactions == 3

VARIABLES
  profile,      \* the agent type and what it was started with
  status,       \* Session.status, "none" before the row exists
  curStep,      \* Session.current_step
  gen,          \* Session.current_generation
  lastFin,      \* Session.last_finalized_step
  log,          \* per step, the events stamped with it in the order written
  pc,           \* where the goroutine is, "down" when there is none
  callStep,     \* a.callStep, -1 outside a turn
  needsAdvance, \* whether the next iteration bumps the step
  reply,        \* the no-tool turn being judged, or "none"
  orphans,      \* resume: calls found without a result
  nudges,       \* a.concludeNudges and a.outputLimitNudges
  compactions,  \* consecutiveCompactions
  cancelling,   \* a canceller has written its verdict and not interrupted yet
  arrivals, stops   \* what the bounds count

durable == <<status, curStep, gen, lastFin, log>>
local == <<callStep, needsAdvance, reply, orphans, nudges, compactions>>
others == <<profile, cancelling, arrivals, stops>>
vars == <<durable, pc, local, others>>

Steps == 0..MaxStep
Events == [k : Kinds, n : 0..MaxCalls, g : 0..MaxGen]
Terminal == {"concluded", "crashed", "cancelled"}
Interactive == profile # "task"

TypeOK ==
  /\ profile \in Profiles
  /\ status \in {"none", "ongoing", "idle"} \cup Terminal
  /\ curStep \in Steps /\ gen \in 0..MaxGen /\ lastFin \in Steps
  /\ log \in [Steps -> Seq(Events)]
  /\ pc \in {"down", "create", "frame", "seed", "recall", "advance", "first",
             "noTask", "resume", "repair", "tail", "wake", "top", "llm",
             "tools", "count", "verdict"}
  /\ callStep \in -1..MaxStep
  /\ needsAdvance \in BOOLEAN
  /\ reply \in NoToolKinds \cup {"none"}
  /\ orphans \subseteq Steps \X (1..MaxCalls)
  /\ nudges \in [empty : 0..maxConcludeNudges, limit : 0..maxOutputLimitNudges]
  /\ cancelling \in BOOLEAN
  /\ compactions \in 0..maxConsecutiveCompactions

\* What a goroutine starts with (New, and the first lines of loop).
FreshLocal ==
  /\ callStep' = -1
  /\ needsAdvance' = TRUE
  /\ reply' = "none"
  /\ orphans' = {}
  /\ nudges' = [empty |-> 0, limit |-> 0]
  /\ compactions' = 0

Init ==
  /\ profile \in Profiles
  /\ status = "none" /\ curStep = 0 /\ gen = 0 /\ lastFin = 0
  /\ log = [s \in Steps |-> <<>>]
  /\ pc = "create"
  /\ callStep = -1 /\ needsAdvance = TRUE /\ reply = "none" /\ orphans = {}
  /\ nudges = [empty |-> 0, limit |-> 0] /\ compactions = 0
  /\ cancelling = FALSE /\ arrivals = 0 /\ stops = 0

-----------------------------------------------------------------------------
\* The log.

IsAsst(e) == e.k \in AsstKinds
IsInput(e) == e.k \in UserKinds

\* The log after an insert with an explicit step (AppendEventAtStep).
LogWith(step, kind, number) ==
  [log EXCEPT ![step] = Append(@, [k |-> kind, n |-> number, g |-> gen])]

\* AppendEvent: the step is read in the transaction of the insert.
AppendEvent(kind) == log' = LogWith(curStep, kind, 0)

\* A row is the step of an event and its place in it; rows are read in order.
Rows == UNION {{s} \X (DOMAIN log[s]) : s \in DOMAIN log}
Event(r) == log[r[1]][r[2]]
Earlier(r, q) == r[1] < q[1] \/ (r[1] = q[1] /\ r[2] < q[2])

\* The rows that GetEvents returns with CurrentContextOnly.
InContext(r) == r[1] = 0 \/ Event(r).g = gen
Context == {r \in Rows : InContext(r)}

Holding(s, P(_)) == \E i \in DOMAIN log[s] : InContext(<<s, i>>) /\ P(log[s][i])
HasAssistant(s) == Holding(s, IsAsst)

\* The last of some rows is of one of the kinds.
EndsIn(rows, kinds) ==
  \E r \in rows : Event(r).k \in kinds /\ \A q \in rows : ~Earlier(r, q)

StreamAtRest == EndsIn(Context, NoToolKinds)

Answered(s, i) == Holding(s, LAMBDA e : e.k = "result" /\ e.n = i)
Declared(s, i) == Holding(s, LAMBDA e : e.k = "tools" /\ i <= e.n)

HasPendingInput == \E s \in curStep..MaxStep :
                     \E i \in DOMAIN log[s] : IsInput(log[s][i])

\* tailAssistantAtRest: the turn a dead life finished but did not act upon.
RestingReply ==
  IF StreamAtRest THEN CHOOSE kind \in NoToolKinds : EndsIn(Context, {kind})
                  ELSE "none"

\* repairOrphanToolCalls: the calls of the context that have no result.
Orphans == {o \in (DOMAIN log) \X (1..MaxCalls) :
              Declared(o[1], o[2]) /\ ~Answered(o[1], o[2])}

\* Mutant of MustAdvance: an interrupted turn is not called again.
AlwaysAdvance == TRUE

\* A step that was bumped and has no assistant turn is called again.
MustAdvance == curStep <= 1 \/ HasAssistant(curStep - 1)

\* Mutant of NudgesFromHistory: the budget starts afresh with every life.
NoNudges == 0

\* outputLimitNudgesFromHistory: limit nudges since the last tool turn.
LimitNudges(rows) ==
  {r \in rows : /\ Event(r).k = "nudgeLimit"
                /\ \A q \in rows : Event(q).k = "tools" => Earlier(q, r)}
NudgesFromHistory == Cardinality(LimitNudges(Context))

-----------------------------------------------------------------------------
\* Bootstrap.  Every write is a place to die at.

CreateSession ==
  /\ pc = "create"
  /\ status' = "ongoing"
  /\ pc' = "frame"
  /\ UNCHANGED <<curStep, gen, lastFin, log, local, others>>

\* The system events that frame the work: session marker, system prompt, CLI
\* tools, workspace, AGENTS.md.  One stands for all of them.
SeedFrame ==
  /\ pc = "frame"
  /\ AppendEvent("system")
  /\ pc' = "seed"
  /\ UNCHANGED <<status, curStep, gen, lastFin, local, others>>

SeedTask ==
  /\ pc = "seed"
  /\ IF profile = "task" THEN AppendEvent("task") ELSE UNCHANGED log
  /\ pc' = "recall"
  /\ UNCHANGED <<status, curStep, gen, lastFin, local, others>>

\* seedInitialRecall: nothing when no seeder is configured or it finds nothing.
SeedRecall ==
  /\ pc = "recall"
  /\ AppendEvent("system") \/ UNCHANGED log
  /\ pc' = "advance"
  /\ UNCHANGED <<status, curStep, gen, lastFin, local, others>>

AdvancePastBootstrap ==
  /\ pc = "advance"
  /\ curStep' = curStep + 1
  /\ pc' = "first"
  /\ UNCHANGED <<status, gen, lastFin, log, local, others>>

SeedFirstMessage ==
  /\ pc = "first"
  /\ IF profile = "chatFirst" THEN AppendEvent("input") ELSE UNCHANGED log
  /\ pc' = "noTask"
  /\ UNCHANGED <<status, curStep, gen, lastFin, local, others>>

ParkWithoutTask ==
  /\ pc = "noTask"
  /\ status' = IF profile = "chat" THEN "idle" ELSE status
  /\ pc' = "wake"
  /\ UNCHANGED <<curStep, gen, lastFin, log, local, others>>

-----------------------------------------------------------------------------
\* The life and death of the goroutine.

Stop ==
  /\ pc' = "down"
  /\ FreshLocal

\* A process crash, a panic, a store error or a shutdown, between two writes.
Die ==
  /\ pc # "down"
  /\ stops < MaxStops
  /\ stops' = stops + 1
  /\ Stop
  /\ UNCHANGED <<durable, profile, cancelling, arrivals>>

\* RespawnSession; it may bail out (workspace, model, rival goroutine).
MayRespawn ==
  /\ pc' \in IF pc = "down" THEN {"down", "resume"} ELSE {pc}
  /\ UNCHANGED local

\* A message, a child result or a notice from another party.  An Input
\* respawns a cold session through the commit notifier.
Arrive(kind) ==
  /\ status # "none"
  /\ arrivals < MaxArrivals
  /\ arrivals' = arrivals + 1
  /\ AppendEvent(kind)
  /\ IF kind = "input" THEN MayRespawn ELSE UNCHANGED <<pc, local>>
  /\ UNCHANGED <<status, curStep, gen, lastFin, profile, cancelling,
                 stops>>

\* RecoverRun on a session of the active spine: a stream at rest is respawned
\* as it is, any other gets a RecoverEvent, whose commit respawns it.
Recover ==
  /\ pc = "down"
  /\ status \in {"ongoing", "crashed"}
  /\ IF StreamAtRest THEN UNCHANGED log ELSE AppendEvent("recover")
  /\ IF StreamAtRest THEN UNCHANGED arrivals
     ELSE arrivals < MaxArrivals /\ arrivals' = arrivals + 1
  /\ MayRespawn
  /\ UNCHANGED <<status, curStep, gen, lastFin, profile, cancelling,
                 stops>>

\* CancelSession, its transaction: status and marker.
Cancel ==
  /\ status \notin Terminal \cup {"none"}
  /\ ~cancelling
  /\ stops < MaxStops
  /\ stops' = stops + 1
  /\ status' = "cancelled"
  /\ AppendEvent("marker")
  /\ cancelling' = TRUE
  /\ UNCHANGED <<curStep, gen, lastFin, pc, local, profile, arrivals>>

\* CancelSession, after its cascade: the interrupt of the goroutine, if any.
Interrupt ==
  /\ cancelling
  /\ cancelling' = FALSE
  /\ Stop
  /\ UNCHANGED <<durable, profile, arrivals, stops>>

-----------------------------------------------------------------------------
\* reconcileResume.

\* One read of the current context decides everything that follows; what
\* arrives later does not change the decision.
LoadHistory ==
  /\ pc = "resume"
  /\ orphans' = Orphans
  /\ reply' = RestingReply
  /\ nudges' = [nudges EXCEPT !.limit = NudgesFromHistory]
  /\ needsAdvance' = MustAdvance
  /\ pc' = "repair"
  /\ UNCHANGED <<durable, callStep, compactions, others>>

\* repairOrphanToolCalls, one placeholder at a time, in the order of the ids.
RepairOrphan(o) ==
  /\ pc = "repair"
  /\ o \in orphans
  /\ log' = LogWith(o[1], "result", o[2])
  /\ orphans' = orphans \ {o}
  /\ UNCHANGED <<status, curStep, gen, lastFin, pc, callStep, needsAdvance,
                 reply, nudges, compactions, others>>

\* MarkStepFinalized on the latest step that bears an assistant turn.
FinalizeRecovered ==
  /\ pc = "repair"
  /\ orphans = {}
  /\ lastFin' = Max({lastFin} \cup {s \in Steps : HasAssistant(s)})
  /\ pc' = IF reply = "none" THEN "wake" ELSE "tail"
  /\ UNCHANGED <<status, curStep, gen, log, local, others>>

\* Run: a session that is not ongoing needs a pending Input to be resumed.
StartLoop ==
  /\ pc = "wake"
  /\ status = "ongoing" \/ HasPendingInput
  /\ status' = "ongoing"
  /\ pc' = "top"
  /\ UNCHANGED <<curStep, gen, lastFin, log, local, others>>

\* waitForFollowUp gives up; an Input that has just arrived waits for the next.
IdleTimeout ==
  /\ pc = "wake"
  /\ status # "ongoing"
  /\ Stop
  /\ UNCHANGED <<durable, others>>

-----------------------------------------------------------------------------
\* The loop.

AdvanceStep ==
  /\ pc = "top"
  /\ needsAdvance
  /\ curStep < MaxStep
  /\ curStep' = curStep + 1
  /\ callStep' = curStep
  /\ pc' = "llm"
  /\ UNCHANGED <<status, gen, lastFin, log, needsAdvance, reply, orphans,
                 nudges, compactions, others>>

\* A resumed or compacted turn is called again at the step it already has.
ReuseStep ==
  /\ pc = "top"
  /\ ~needsAdvance
  /\ callStep' = curStep - 1
  /\ needsAdvance' = TRUE
  /\ pc' = "llm"
  /\ UNCHANGED <<durable, reply, orphans, nudges, compactions, others>>

\* The model asks for tools: the turn is written before any of them runs.
AnswerWithTools(n) ==
  /\ pc = "llm"
  /\ log' = LogWith(callStep, "tools", n)
  /\ nudges' = [empty |-> 0, limit |-> 0]
  /\ compactions' = 0
  /\ pc' = "tools"
  /\ UNCHANGED <<status, curStep, gen, lastFin, callStep, needsAdvance, reply,
                 orphans, others>>

\* Tools run in parallel; each result is written when its tool finishes.
AppendResult(i) ==
  /\ pc = "tools"
  /\ Declared(callStep, i) /\ ~Answered(callStep, i)
  /\ log' = LogWith(callStep, "result", i)
  /\ UNCHANGED <<status, curStep, gen, lastFin, pc, local, others>>

\* Mutant of FinishTools: the step is finalized while a tool still runs.
FinishToolsEarly ==
  /\ pc = "tools"
  /\ lastFin' = Max({lastFin, callStep})
  /\ callStep' = -1
  /\ pc' = "top"
  /\ UNCHANGED <<status, curStep, gen, log, needsAdvance, reply, orphans,
                 nudges, compactions, others>>

FinishTools ==
  /\ pc = "tools"
  /\ \A i \in 1..MaxCalls : Declared(callStep, i) => Answered(callStep, i)
  /\ lastFin' = Max({lastFin, callStep})
  /\ callStep' = -1
  /\ pc' = "top"
  /\ UNCHANGED <<status, curStep, gen, log, needsAdvance, reply, orphans,
                 nudges, compactions, others>>

\* FinalizeStep: a turn without tools and its cursor in one transaction.
AnswerWithoutTools(kind) ==
  /\ pc = "llm"
  /\ log' = LogWith(callStep, kind, 0)
  /\ lastFin' = Max({lastFin, callStep})
  /\ reply' = kind
  /\ compactions' = 0
  /\ pc' = "count"
  /\ UNCHANGED <<status, curStep, gen, callStep, needsAdvance, orphans, nudges,
                 others>>

\* Anything that arrived during generation calls for another turn.
CountArrivals ==
  /\ pc = "count"
  /\ IF \E s \in curStep..MaxStep : log[s] # <<>>
       THEN pc' = "top" /\ reply' = "none" /\ callStep' = -1
       ELSE pc' = "verdict" /\ UNCHANGED <<reply, callStep>>
  /\ UNCHANGED <<durable, needsAdvance, orphans, nudges, compactions, others>>

\* recordFailure: crashed, with a marker at the turn's step or, between
\* turns, at the current one; nothing at all if the status is terminal.
Fail ==
  /\ IF status \in Terminal
       THEN UNCHANGED <<status, log>>
       ELSE /\ status' = "crashed"
            /\ log' = LogWith(IF callStep >= 0 THEN callStep ELSE curStep,
                              "marker", 0)
  /\ Stop
  /\ UNCHANGED <<curStep, gen, lastFin, others>>

\* The provider fails, for a reason compaction cannot or may not cure.
ProviderFails == pc = "llm" /\ Fail

\* Mutant of Boundary: the step that is about to be called is summarized too.
BoundaryAtCall == callStep

\* tryCompact: the summary stands for everything before the call step.
Boundary == callStep - 1

\* CompactContext: later events move to the new generation, the summary goes
\* to the boundary; the same turn is then tried again.
CompactContext ==
  /\ pc = "llm"
  /\ Boundary >= 1
  /\ compactions < maxConsecutiveCompactions
  /\ gen < MaxGen
  /\ gen' = gen + 1
  /\ LET carried == [s \in Steps |-> [i \in DOMAIN log[s] |->
           IF log[s][i].g = gen /\ s > Boundary
             THEN [log[s][i] EXCEPT !.g = gen + 1] ELSE log[s][i]]]
     IN  log' = [carried EXCEPT ![Boundary] =
                   Append(@, [k |-> "compaction", n |-> 0, g |-> gen + 1])]
  /\ compactions' = compactions + 1
  /\ needsAdvance' = FALSE
  /\ callStep' = -1
  /\ pc' = "top"
  /\ UNCHANGED <<status, curStep, lastFin, reply, orphans, nudges, others>>

-----------------------------------------------------------------------------
\* A turn without tools is judged: in the loop when nothing had arrived, in a
\* new life when it is the tail of the stream.

Judging(kind) == pc \in {"verdict", "tail"} /\ reply = kind

\* An interactive agent parks whatever it said and waits for the next Input.
ParkIdle ==
  /\ pc \in {"verdict", "tail"}
  /\ Interactive
  /\ status' = "idle"
  /\ reply' = "none"
  /\ callStep' = -1
  /\ needsAdvance' = TRUE
  /\ pc' = "wake"
  /\ UNCHANGED <<curStep, gen, lastFin, log, orphans, nudges, compactions,
                 others>>

\* The verdicts on an autonomous agent, in the order the code tries them.
Refused == Judging("refusal") /\ ~Interactive /\ Fail

\* A nudge is a user event: the loop goes on, or a new life enters it.
Nudge(event, counter) ==
  /\ AppendEvent(event)
  /\ nudges' = [nudges EXCEPT ![counter] = @ + 1]
  /\ reply' = "none"
  /\ callStep' = -1
  /\ needsAdvance' = TRUE
  /\ pc' = IF pc = "tail" THEN "wake" ELSE "top"
  /\ UNCHANGED <<status, curStep, gen, lastFin, orphans, compactions, others>>

OutputLimit ==
  /\ Judging("limit") /\ ~Interactive
  /\ IF nudges.limit >= maxOutputLimitNudges
       THEN Fail ELSE Nudge("nudgeLimit", "limit")

EmptyTurn ==
  /\ Judging("empty") /\ ~Interactive
  /\ IF nudges.empty >= maxConcludeNudges
       THEN Fail ELSE Nudge("nudgeEmpty", "empty")

\* Mutant of Conclude: partial and empty results are accepted.
ConcludeAnyway ==
  /\ pc \in {"verdict", "tail"} /\ reply # "refusal" /\ ~Interactive
  /\ status' = "concluded"
  /\ Stop
  /\ UNCHANGED <<curStep, gen, lastFin, log, others>>

Conclude ==
  /\ Judging("text") /\ ~Interactive
  /\ status' = IF status \in Terminal THEN status ELSE "concluded"
  /\ Stop
  /\ UNCHANGED <<curStep, gen, lastFin, log, others>>

Bootstrap ==
  \/ CreateSession \/ SeedFrame \/ SeedTask \/ SeedRecall
  \/ AdvancePastBootstrap \/ SeedFirstMessage \/ ParkWithoutTask

Reconcile ==
  \/ LoadHistory \/ FinalizeRecovered
  \/ \E o \in orphans : RepairOrphan(o)

Turn ==
  \/ StartLoop \/ IdleTimeout \/ AdvanceStep \/ ReuseStep
  \/ \E n \in 1..MaxCalls : AnswerWithTools(n) \/ AppendResult(n)
  \/ FinishTools
  \/ \E kind \in Replies : AnswerWithoutTools(kind)
  \/ CountArrivals \/ ProviderFails \/ CompactContext

Verdict == ParkIdle \/ Refused \/ OutputLimit \/ EmptyTurn \/ Conclude

Outside ==
  \/ Die \/ Recover \/ Cancel \/ Interrupt
  \/ \E kind \in {"input", "notice"} : Arrive(kind)

Next == Bootstrap \/ Reconcile \/ Turn \/ Verdict \/ Outside

Spec == Init /\ [][Next]_vars

-----------------------------------------------------------------------------
\* Properties.

CountIn(s, P(_)) == Cardinality({i \in DOMAIN log[s] : P(log[s][i])})

\* "AssistantEvent (exactly 1)": every completed step has one assistant turn,
\* the step being called has at most one, and the open one has none, over any
\* number of crashes, cancels, revivals and compactions.
OneAssistantPerStep ==
  \A s \in DOMAIN log \ {0} :
    /\ CountIn(s, IsAsst) <= IF s < curStep THEN 1 ELSE 0
    /\ s < curStep - 1 => CountIn(s, IsAsst) = 1

\* Every call is answered once, at the step that declared it, by its tool or
\* by the placeholder of a later life, before the step counts as finalized.
CallsAnsweredOnce ==
  \A s \in DOMAIN log \ {0}, i \in 1..MaxCalls :
    LET calls == CountIn(s, LAMBDA e : e.k = "tools" /\ i <= e.n)
        results == CountIn(s, LAMBDA e : e.k = "result" /\ e.n = i)
    IN  /\ results <= calls
        /\ s <= lastFin => results = calls /\ CountIn(s, IsAsst) = 1

\* What the log is read for, whatever happened to the lives that wrote it.
AnsweredOnce == OneAssistantPerStep /\ CallsAnsweredOnce

\* What the provider accepts: when it is called every tool call of the context
\* has its result, and the context ends in neither an assistant turn nor
\* nothing but the system prompt.
ProviderSafeContext ==
  pc = "llm" =>
    LET sent == {r \in Context : r[1] <= callStep}
    IN  /\ Orphans = {}
        /\ ~EndsIn(sent, AsstKinds)
        /\ \E r \in sent : Event(r).k \notin {"system", "marker"}

\* What has no answer yet is never summarized away: every event of a step
\* without an assistant turn is in the current generation.
UnansweredStaysInContext ==
  \A s \in DOMAIN log \ {0} :
    CountIn(s, IsAsst) = 0 => \A i \in DOMAIN log[s] : log[s][i].g = gen

\* What the context is for: the provider accepts it and nobody is left unheard.
ContextServes == ProviderSafeContext /\ UnansweredStaysInContext

\* What the observer summarizes at the cursor stays as it was: a finalized
\* step only ever gains failure markers and summaries, and keeps the rest.
FinalizedStepsFrozen ==
  [][/\ lastFin <= lastFin'
     /\ \A s \in DOMAIN log \ {0} : s <= lastFin =>
          /\ \A i \in DOMAIN log[s] :
               /\ i \in DOMAIN log'[s]
               /\ log'[s][i].k = log[s][i].k /\ log'[s][i].n = log[s][i].n
          /\ \A i \in DOMAIN log'[s] \ DOMAIN log[s] :
               log'[s][i].k \in {"marker", "compaction"}]_vars

\* An autonomous session concludes only on a turn with a text of its own: no
\* crash window turns a cut-off, empty or refused turn into a result.
LastTurnIsText == EndsIn({r \in Rows : IsAsst(Event(r))}, {"text"})
ConclusionIsAnswer ==
  [][status' = "concluded" /\ status # "concluded" => LastTurnIsText']_vars

\* The conversation in the log: the kind of the turn of each step that has one,
\* in whatever generation, and the calls of these turns without a result.
TurnSteps == {s \in DOMAIN log \ {0} : \E i \in DOMAIN log[s] : IsAsst(log[s][i])}
TurnOf(s) == CHOOSE i \in DOMAIN log[s] : IsAsst(log[s][i])
Said == [s \in TurnSteps |-> log[s][TurnOf(s)].k]

OpenCalls ==
  {c \in (DOMAIN log \ {0}) \X (1..MaxCalls) :
     /\ \E i \in DOMAIN log[c[1]] :
          log[c[1]][i].k = "tools" /\ c[2] <= log[c[1]][i].n
     /\ ~ \E i \in DOMAIN log[c[1]] :
          log[c[1]][i].k = "result" /\ log[c[1]][i].n = c[2]}

Conversation == INSTANCE Transcript WITH
  TurnKinds <- AsstKinds, said <- Said, open <- OpenCalls

\* Seen from the conversation nothing ever stopped: over deaths, cancels,
\* revivals and compactions the log implements a plain transcript
\* (AppendEventAtStep, FinalizeStep, repairOrphanToolCalls). Turns follow one
\* another step by step, each after all calls of the one before were answered.
LogIsTranscript == Conversation!Spec

\* "a cold restart cannot reset the output-limit retry budget": between two
\* tool turns at most maxOutputLimitNudges nudges are ever written.
OutputLimitBudget == Cardinality(LimitNudges(Rows)) <= maxOutputLimitNudges

\* What is left of it: as long as nothing was compacted, no number of deaths,
\* cancels and revivals stretches the budget (outputLimitNudgesFromHistory).
BudgetSurvivesRestarts == gen = 0 => OutputLimitBudget

\* "Step 0 ... never has an AssistantEvent".  It can: a life that died inside
\* bootstrap leaves current_step 0, and the next one calls the model there.
NoAssistantAtStep0 == CountIn(0, IsAsst) = 0
=============================================================================

-------------------------- MODULE SessionLifecycle --------------------------
(***************************************************************************)
(* The life of the sessions of a run: the Session status of               *)
(* internal/db/sqlite, the goroutine of internal/agent/eventloop that      *)
(* moves it, await_event and spawn_agent (internal/tool), CancelSession    *)
(* (internal/session) and the commit notifier (internal/runtime), which    *)
(* wakes or respawns a session when an event is committed for it.          *)
(*                                                                         *)
(* Every goroutine is a thread, and so are the operator, who sends         *)
(* messages and recovers the run, and the canceller.  A thread that        *)
(* commits an event runs the notifier itself, as a step of its own: fire   *)
(* holds the call it still owes.  A canceller's recursion is its stack.    *)
(*                                                                         *)
(* The step model is StepLoop's: here a stream is what has arrived since   *)
(* the last advance, whether a call is in flight and whether the last turn *)
(* was a final one.  The waiter is Waiter's: woken says the counter has    *)
(* moved since the snapshot.  A registered session is one whose goroutine  *)
(* has not returned (RunRegistry has the registries).  Nothing is counted, *)
(* so there is no bound on turns, messages, cancels or crashes.            *)
(***************************************************************************)
EXTENDS Naturals, Sequences, FiniteSets

CONSTANTS
  Root, Kids,    \* the root session and the sub-agents it may spawn
  Interactive,   \* sessions that may be of a type that parks idle, not concludes
  Awaiters,      \* sessions whose model calls await_event
  Cancellable,   \* sessions the canceller may be asked to cancel
  Messaged,      \* sessions the operator and the agents send messages to
  Failing        \* sessions whose provider may fail a call for good

Tree == {Root} \cup Kids
User == "user"
Canceller == "canceller"
Actors == Tree \cup {User, Canceller}
None == "none"

ASSUME SessionsAssumption ==
  /\ Root \notin Kids
  /\ User \notin Tree /\ Canceller \notin Tree /\ None \notin Tree
ASSUME RolesAssumption ==
  /\ Interactive \subseteq {Root}
  /\ Awaiters \subseteq Tree /\ Cancellable \subseteq Tree
  /\ Messaged \subseteq Tree /\ Failing \subseteq Tree

Parent(s) == IF s = Root THEN None ELSE Root
ChildrenOf(s) == {c \in Tree : Parent(c) = s}

\* Whom a cancel may reach: those it is asked for and, from the conclusion of
\* their parent, the sub-agents.
Reached == Cancellable \cup Kids

VARIABLES
  status,   \* Session.status, None before the row exists
  fresh,    \* classes of the events at or past the current step
  midCall,  \* the step was advanced and its turn is not written
  resting,  \* the last turn written has no tool calls
  interactive,  \* the sessions of such a type (Session.type, which is kept)
  pc,       \* where each goroutine is; "down" is not registered
  ctxDone,  \* the goroutine's context is cancelled
  woken,    \* the waiter's counter has moved since the last snapshot
  fire,     \* the notifier call each thread owes, if any
  stack,    \* each thread's CancelSession frames, innermost last
  told,       \* history: how often this life's end was reported, counted to 2
  clobbered,  \* history: sessions whose verdict was written over in this life
  crossed     \* history: sessions at work when an earlier cancel caught up

history == <<told, clobbered, crossed>>
row == <<status, fresh, midCall, resting, interactive, history>>
vars == <<row, pc, ctxDone, woken, fire, stack>>

Terminal == {"concluded", "crashed", "cancelled"}
Statuses == {"ongoing", "awaiting", "idle"} \cup Terminal

Exists(s) == status[s] # None
AtRest(s) == resting[s] /\ ~midCall[s] /\ fresh[s] = {}

PCs == {"down", "enter", "rest", "wake", "revive", "park", "parkCheck",
        "parkSleep", "top", "llm", "spawn", "send", "fast", "mark", "snap",
        "check", "sleep", "read", "restore", "results", "count", "idle",
        "cascade", "terminate", "exit"}

Calls == [to : Tree, class : {"input", "env", "notice"}]
Frames == [of : Tree, at : {"read", "term", "list", "kids", "interrupt"},
           left : SUBSET Tree, quiet : BOOLEAN,
           ended : BOOLEAN]   \* history: found or left a verdict

TypeOK ==
  /\ status \in [Tree -> Statuses \cup {None}]
  /\ fresh \in [Tree -> SUBSET {"input", "notice"}]
  /\ midCall \in [Tree -> BOOLEAN]
  /\ resting \in [Tree -> BOOLEAN]
  /\ interactive \subseteq Interactive
  /\ pc \in [Tree -> PCs]
  /\ ctxDone \in [Tree -> BOOLEAN]
  /\ woken \in [Tree -> BOOLEAN]
  /\ fire \in [Actors -> SUBSET Calls]
  /\ stack \in [Actors -> Seq(Frames)]
  /\ told \in [Tree -> 0..2]
  /\ clobbered \subseteq Tree /\ crossed \subseteq Tree

Init ==
  /\ status = [s \in Tree |-> None]
  /\ fresh = [s \in Tree |-> {}]
  /\ midCall = [s \in Tree |-> FALSE]
  /\ resting = [s \in Tree |-> FALSE]
  /\ interactive \in SUBSET Interactive
  /\ pc = [s \in Tree |-> IF s = Root THEN "enter" ELSE "down"]
  /\ ctxDone = [s \in Tree |-> FALSE]
  /\ woken = [s \in Tree |-> FALSE]
  /\ fire = [t \in Actors |-> {}]
  /\ stack = [t \in Actors |-> <<>>]
  /\ told = [s \in Tree |-> 0]
  /\ clobbered = {} /\ crossed = {}

-----------------------------------------------------------------------------
\* The store.

\* A thread executes its own code when it owes no notifier call and is not
\* inside CancelSession.
Free(t) == fire[t] = {} /\ stack[t] = <<>>

At(s, where) == pc[s] = where /\ Free(s)
Goto(s, where) == pc' = [pc EXCEPT ![s] = where]

\* Classify: an environment notification is an Input like any message.
ClassOf(class) == IF class = "env" THEN "input" ELSE class

\* AppendEvent by thread t; the notifier call follows once it is committed.
AppendEvent(t, to, class) ==
  /\ fresh' = [fresh EXCEPT ![to] = @ \cup {ClassOf(class)}]
  /\ fire' = [fire EXCEPT ![t] = {[to |-> to, class |-> class]}]

\* UpdateSessionStatus: no condition on the status it overwrites.
UpdateSessionStatus(s, to) == status' = [status EXCEPT ![s] = to]

\* The same by a caller that goes on with the life: what it may write over is the
\* verdict of a cancel.
WriteBlindly(s, to) ==
  LET lost == IF status[s] \in Terminal THEN {s} ELSE {}
  IN  /\ UpdateSessionStatus(s, to)
      /\ clobbered' = clobbered \cup lost /\ crossed' = crossed \cup lost
      /\ UNCHANGED told

\* The writes of a terminal transition, in one transaction: the status, the
\* marker on the session's own stream (at the current step for a cancel, at the
\* failed turn's step for a crash) and the child_result on the parent's.
WriteVerdict(t, s, verdict) ==
  LET class == IF verdict = "concluded" THEN "input" ELSE "notice"
      AddedTo(x) == (IF x = Parent(s) THEN {class} ELSE {})
                      \cup (IF x = s /\ verdict = "cancelled" THEN {"notice"} ELSE {})
  IN  /\ status' = [status EXCEPT ![s] = verdict]
      /\ told' = [told EXCEPT ![s] = IF @ = 2 THEN 2 ELSE @ + 1]
      /\ fresh' = [x \in Tree |-> fresh[x] \cup AddedTo(x)]
      /\ resting' = [resting EXCEPT ![s] = @ /\ verdict = "concluded"]
      /\ fire' = IF Parent(s) = None THEN fire
                 ELSE [fire EXCEPT ![t] = {[to |-> Parent(s), class |-> class]}]
      /\ UNCHANGED <<midCall, interactive, clobbered, crossed>>

\* Mutant of TerminateAndNotifyParent: the status is not the dedupe token.
TerminateUnconditionally(t, s, verdict) == WriteVerdict(t, s, verdict)

\* The first terminator wins: a terminal status turns the call into nothing.
TerminateAndNotifyParent(t, s, verdict) ==
  \/ /\ status[s] \notin Terminal
     /\ WriteVerdict(t, s, verdict)
  \/ /\ status[s] \in Terminal
     /\ UNCHANGED <<row, fire>>

\* Mutant of Notify: a live session hears of Inputs only.
NotifyInputsOnly(t) ==
  \E call \in fire[t] :
    /\ \/ /\ pc[call.to] # "down" /\ call.class # "notice"
          /\ woken' = [woken EXCEPT ![call.to] = TRUE]
          /\ UNCHANGED pc
       \/ /\ pc[call.to] = "down" /\ call.class # "notice"
          /\ pc' = [pc EXCEPT ![call.to] = "enter"]
          /\ UNCHANGED woken
       \/ /\ call.class = "notice"
          /\ UNCHANGED <<pc, woken>>
    /\ fire' = [fire EXCEPT ![t] = {}]
    /\ UNCHANGED <<row, ctxDone, stack>>

\* IsInput, and the gate for environment notifications.
Revives(call) ==
  \/ call.class = "input"
  \/ (call.class = "env" /\ status[call.to] \notin Terminal)

\* NewCommitNotifier: wake a live session whatever the event; respawn a cold
\* one for what revives it.  RespawnSession is taken to launch: the workspace
\* is valid, the agent type and the model are known.
Notify(t) ==
  \E call \in fire[t] :
    /\ \/ /\ pc[call.to] # "down"
          /\ woken' = [woken EXCEPT ![call.to] = TRUE]
          /\ UNCHANGED pc
       \/ /\ pc[call.to] = "down"
          /\ pc' = IF Revives(call) THEN [pc EXCEPT ![call.to] = "enter"] ELSE pc
          /\ UNCHANGED woken
    /\ fire' = [fire EXCEPT ![t] = {}]
    /\ UNCHANGED <<row, ctxDone, stack>>

-----------------------------------------------------------------------------
\* The goroutine: Run and reconcileResume.

\* A fresh session is created and seeded: work to do, or nothing yet.
Bootstrap(s) ==
  /\ At(s, "enter") /\ ~Exists(s) /\ ~ctxDone[s]
  /\ UpdateSessionStatus(s, IF s \in interactive THEN "idle" ELSE "ongoing")
  /\ Goto(s, "wake")
  /\ UNCHANGED <<fresh, midCall, resting, interactive, history, ctxDone, woken, fire, stack>>

\* An existing session: finish a turn a dead life left at rest, or go on.
Resume(s) ==
  /\ At(s, "enter") /\ Exists(s) /\ ~ctxDone[s]
  /\ Goto(s, IF AtRest(s) THEN "rest" ELSE "wake")
  /\ UNCHANGED <<row, ctxDone, woken, fire, stack>>

ResumeAtRest(s) ==
  /\ At(s, "rest") /\ ~ctxDone[s]
  /\ IF s \in interactive
       THEN WriteBlindly(s, "idle") /\ Goto(s, "wake")
       ELSE Goto(s, "cascade") /\ UNCHANGED <<status, history>>
  /\ UNCHANGED <<fresh, midCall, resting, interactive, ctxDone, woken, fire, stack>>

\* Mutant of CheckStatus: a session that is not ongoing restarts by itself.
ReviveAnyway(s) ==
  /\ At(s, "wake") /\ ~ctxDone[s]
  /\ Goto(s, IF status[s] = "ongoing" THEN "top" ELSE "revive")
  /\ crossed' = IF status[s] = "ongoing" THEN crossed \ {s} ELSE crossed
  /\ UNCHANGED <<status, fresh, midCall, resting, interactive, told, clobbered,
                 ctxDone, woken, fire, stack>>

\* Run: a session that is not ongoing needs a pending Input.
CheckStatus(s) ==
  /\ At(s, "wake") /\ ~ctxDone[s]
  /\ Goto(s, CASE status[s] = "ongoing" -> "top"
               [] status[s] # "ongoing" /\ "input" \in fresh[s] -> "revive"
               [] OTHER -> "park")
  /\ crossed' = IF status[s] = "ongoing" THEN crossed \ {s} ELSE crossed
  /\ UNCHANGED <<status, fresh, midCall, resting, interactive, told, clobbered,
                 ctxDone, woken, fire, stack>>

\* The restart: a new life, whose end is owed to the parent again.
Revive(s) ==
  /\ At(s, "revive") /\ ~ctxDone[s]
  /\ UpdateSessionStatus(s, "ongoing")
  /\ told' = [told EXCEPT ![s] = 0]
  /\ clobbered' = clobbered \ {s} /\ crossed' = crossed \ {s}
  /\ Goto(s, "top")
  /\ UNCHANGED <<fresh, midCall, resting, interactive, ctxDone, woken, fire, stack>>

\* waitForFollowUp: snapshot, look, sleep.
ParkSnapshot(s) ==
  /\ At(s, "park")
  /\ woken' = [woken EXCEPT ![s] = FALSE]
  /\ Goto(s, "parkCheck")
  /\ UNCHANGED <<row, ctxDone, fire, stack>>

ParkCheck(s) ==
  /\ At(s, "parkCheck") /\ ~ctxDone[s]
  /\ Goto(s, IF "input" \in fresh[s] THEN "revive" ELSE "parkSleep")
  /\ UNCHANGED <<row, ctxDone, woken, fire, stack>>

ParkWoken(s) ==
  /\ At(s, "parkSleep") /\ woken[s]
  /\ Goto(s, "park")
  /\ UNCHANGED <<row, ctxDone, woken, fire, stack>>

ParkTimeout(s) ==
  /\ At(s, "parkSleep") /\ ~woken[s]
  /\ Goto(s, "exit")
  /\ UNCHANGED <<row, ctxDone, woken, fire, stack>>

-----------------------------------------------------------------------------
\* The goroutine: the loop.

\* Between turns: advance, which leaves behind whatever has arrived, or call
\* again for a turn a dead life never wrote.
Top(s) ==
  /\ At(s, "top") /\ ~ctxDone[s]
  /\ fresh' = [fresh EXCEPT ![s] = IF midCall[s] THEN @ ELSE {}]
  /\ midCall' = [midCall EXCEPT ![s] = TRUE]
  /\ Goto(s, "llm")
  /\ UNCHANGED <<status, resting, interactive, history, ctxDone, woken, fire, stack>>

\* The assistant turn is written, with tool calls or without.
Answer(s, isFinal, next) ==
  /\ At(s, "llm") /\ ~ctxDone[s]
  /\ midCall' = [midCall EXCEPT ![s] = FALSE]
  /\ resting' = [resting EXCEPT ![s] = isFinal]
  /\ Goto(s, next)
  /\ UNCHANGED <<status, fresh, interactive, history, ctxDone, woken, fire, stack>>

AnswerWithTools(s) ==
  \E next \in {"results", "spawn", "send"} \cup (IF s \in Awaiters THEN {"fast"} ELSE {}) :
    Answer(s, FALSE, next)

AnswerWithText(s) == Answer(s, TRUE, "count")

\* Mutant of ProviderFails: the failure is logged and nothing is recorded.
FailSilently(s) ==
  /\ At(s, "llm") /\ ~ctxDone[s] /\ s \in Failing
  /\ Goto(s, "exit")
  /\ UNCHANGED <<row, fire, ctxDone, woken, stack>>

\* The call fails: recordFailure.
ProviderFails(s) ==
  /\ At(s, "llm") /\ ~ctxDone[s] /\ s \in Failing
  /\ TerminateAndNotifyParent(s, s, "crashed")
  /\ Goto(s, "exit")
  /\ UNCHANGED <<ctxDone, woken, stack>>

\* spawn_agent: the slot is claimed and the goroutine started here, whatever
\* became of the parent's context; the row is the child's own first write.
\* await_event may share the turn.
SpawnAgent(s) ==
  /\ At(s, "spawn")
  /\ \E k \in ChildrenOf(s) :
       /\ pc[k] = "down" /\ ~Exists(k)
       /\ \E next \in {"results"} \cup (IF s \in Awaiters THEN {"fast"} ELSE {}) :
            pc' = [pc EXCEPT ![k] = "enter", ![s] = next]
  /\ UNCHANGED <<row, ctxDone, woken, fire, stack>>

SpawnNothing(s) ==
  /\ At(s, "spawn")
  /\ \A k \in ChildrenOf(s) : pc[k] # "down" \/ Exists(k)
  /\ Goto(s, "results")
  /\ UNCHANGED <<row, ctxDone, woken, fire, stack>>

\* send_message, to a session that exists or to nobody.
SendMessage(s) ==
  /\ At(s, "send") /\ ~ctxDone[s]
  /\ \/ \E to \in Messaged \ {s} : Exists(to) /\ AppendEvent(s, to, "input")
     \/ UNCHANGED <<fresh, fire>>
  /\ Goto(s, "results")
  /\ UNCHANGED <<status, midCall, resting, interactive, history, ctxDone, woken, stack>>

\* The last result is appended and the step finalized.
FinishTools(s) ==
  /\ At(s, "results") /\ ~ctxDone[s]
  /\ Goto(s, "top")
  /\ UNCHANGED <<row, ctxDone, woken, fire, stack>>

\* A final turn, unless something arrived while it was generated.
CountArrivals(s) ==
  /\ At(s, "count") /\ ~ctxDone[s]
  /\ Goto(s, CASE fresh[s] # {} -> "top"
               [] fresh[s] = {} /\ s \in interactive -> "idle"
               [] OTHER -> "cascade")
  /\ UNCHANGED <<row, ctxDone, woken, fire, stack>>

ParkIdle(s) ==
  /\ At(s, "idle") /\ ~ctxDone[s]
  /\ WriteBlindly(s, "idle")
  /\ Goto(s, "park")
  /\ UNCHANGED <<fresh, midCall, resting, interactive, ctxDone, woken, fire, stack>>

\* conclude: cancel the children, then the terminal write, both with a context
\* that no cancel reaches.
Cascade(s) ==
  /\ At(s, "cascade")
  /\ stack' = [stack EXCEPT ![s] =
       <<[of |-> s, at |-> "list", left |-> {}, quiet |-> TRUE, ended |-> FALSE]>>]
  /\ Goto(s, "terminate")
  /\ UNCHANGED <<row, ctxDone, woken, fire>>

Conclude(s) ==
  /\ At(s, "terminate")
  /\ TerminateAndNotifyParent(s, s, "concluded")
  /\ Goto(s, "exit")
  /\ UNCHANGED <<ctxDone, woken, stack>>

-----------------------------------------------------------------------------
\* The goroutine: await_event.

AwaitFast(s) ==
  /\ At(s, "fast") /\ ~ctxDone[s]
  /\ Goto(s, IF fresh[s] # {} THEN "results" ELSE "mark")
  /\ UNCHANGED <<row, ctxDone, woken, fire, stack>>

AwaitMark(s) ==
  /\ At(s, "mark") /\ ~ctxDone[s]
  /\ WriteBlindly(s, "awaiting")
  /\ Goto(s, "snap")
  /\ UNCHANGED <<fresh, midCall, resting, interactive, ctxDone, woken, fire, stack>>

AwaitSnapshot(s) ==
  /\ At(s, "snap")
  /\ woken' = [woken EXCEPT ![s] = FALSE]
  /\ Goto(s, "check")
  /\ UNCHANGED <<row, ctxDone, fire, stack>>

AwaitCheck(s) ==
  /\ At(s, "check") /\ ~ctxDone[s]
  /\ Goto(s, IF fresh[s] # {} THEN "read" ELSE "sleep")
  /\ UNCHANGED <<row, ctxDone, woken, fire, stack>>

AwaitWoken(s) ==
  /\ At(s, "sleep") /\ woken[s]
  /\ Goto(s, "snap")
  /\ UNCHANGED <<row, ctxDone, woken, fire, stack>>

AwaitTimeout(s) ==
  /\ At(s, "sleep") /\ ~woken[s]
  /\ Goto(s, "read")
  /\ UNCHANGED <<row, ctxDone, woken, fire, stack>>

\* The status is read and then written, each with a background context.
AwaitReadStatus(s) ==
  /\ At(s, "read")
  /\ Goto(s, IF status[s] \in Terminal THEN "results" ELSE "restore")
  /\ UNCHANGED <<row, ctxDone, woken, fire, stack>>

AwaitRestore(s) ==
  /\ At(s, "restore")
  /\ WriteBlindly(s, "ongoing")
  /\ Goto(s, "results")
  /\ UNCHANGED <<fresh, midCall, resting, interactive, ctxDone, woken, fire, stack>>

-----------------------------------------------------------------------------
\* The goroutine's end.

\* Where the goroutine looks at its context, or uses it in a call that fails.
ContextPlaces == PCs \ {"down", "cascade", "terminate", "read", "restore", "exit"}

\* Stop now, status already handled, return.
ContextDone(s) ==
  /\ pc[s] \in ContextPlaces /\ Free(s) /\ ctxDone[s]
  /\ Goto(s, "exit")
  /\ UNCHANGED <<row, ctxDone, woken, fire, stack>>

\* release: Unregister, and nothing looks at the stream again.
Exit(s) ==
  /\ At(s, "exit")
  /\ Goto(s, "down")
  /\ ctxDone' = [ctxDone EXCEPT ![s] = FALSE]
  /\ woken' = [woken EXCEPT ![s] = FALSE]
  /\ UNCHANGED <<row, fire, stack>>

-----------------------------------------------------------------------------
\* CancelSession, run by thread t on its innermost frame.

Frame(t) == stack[t][Len(stack[t])]
InCall(t, where) == stack[t] # <<>> /\ fire[t] = {} /\ Frame(t).at = where
Calling(s) == [of |-> s, at |-> "read", left |-> {}, quiet |-> FALSE, ended |-> FALSE]

\* The innermost frame becomes these frames.
Replace(t, frames) ==
  stack' = [stack EXCEPT ![t] = SubSeq(@, 1, Len(@) - 1) \o frames]
NextInCall(t, where) == Replace(t, <<[Frame(t) EXCEPT !.at = where]>>)
Return(t) == Replace(t, <<>>)

\* No row, or already terminal: nothing to do.
CancelRead(t) ==
  /\ InCall(t, "read")
  /\ IF Exists(Frame(t).of) /\ status[Frame(t).of] \notin Terminal
       THEN NextInCall(t, "term") ELSE Return(t)
  /\ UNCHANGED <<row, pc, ctxDone, woken, fire>>

CancelTerminate(t) ==
  /\ InCall(t, "term")
  /\ TerminateAndNotifyParent(t, Frame(t).of, "cancelled")
  /\ Replace(t, <<[Frame(t) EXCEPT !.at = "list",
                                   !.ended = status'[Frame(t).of] \in Terminal]>>)
  /\ UNCHANGED <<pc, ctxDone, woken>>

\* GetChildSessions: those whose row exists.
CancelList(t) ==
  /\ InCall(t, "list")
  /\ Replace(t, <<[Frame(t) EXCEPT !.at = "kids",
                   !.left = {c \in ChildrenOf(Frame(t).of) : Exists(c)}]>>)
  /\ UNCHANGED <<row, pc, ctxDone, woken, fire>>

CancelChild(t) ==
  /\ InCall(t, "kids")
  /\ \E c \in Frame(t).left :
       Replace(t, <<[Frame(t) EXCEPT !.left = @ \ {c}], Calling(c)>>)
  /\ UNCHANGED <<row, pc, ctxDone, woken, fire>>

\* The children are done.  cascadeCancelChildren interrupts nobody itself.
CancelledChildren(t) ==
  /\ InCall(t, "kids") /\ Frame(t).left = {}
  /\ IF Frame(t).quiet THEN Return(t) ELSE NextInCall(t, "interrupt")
  /\ UNCHANGED <<row, pc, ctxDone, woken, fire>>

\* Mutant of CancelInterrupt: the verdict is written and nobody is stopped.
InterruptNobody(t) ==
  /\ InCall(t, "interrupt")
  /\ Return(t)
  /\ UNCHANGED <<row, pc, ctxDone, woken, fire>>

\* Registry.Interrupt: whichever goroutine holds the slot by now, at work again
\* (an Input, or a status written over) or not.
CancelInterrupt(t) ==
  /\ InCall(t, "interrupt")
  /\ LET s == Frame(t).of
     IN  /\ ctxDone' = [ctxDone EXCEPT ![s] = pc[s] # "down"]
         /\ crossed' = IF pc[s] # "down" /\ status[s] \notin Terminal /\ Frame(t).ended
                        THEN crossed \cup {s} ELSE crossed
  /\ Return(t)
  /\ UNCHANGED <<status, fresh, midCall, resting, interactive, told, clobbered,
                 pc, woken, fire>>

-----------------------------------------------------------------------------
\* The operator, the environment, and the process.

StartCancel(s) ==
  /\ Free(Canceller) /\ s \in Cancellable /\ Exists(s)
  /\ stack' = [stack EXCEPT ![Canceller] = <<Calling(s)>>]
  /\ UNCHANGED <<row, pc, ctxDone, woken, fire>>

\* An operator's message or an $AMPLIO_NOTIFY notification.
Post(s, class) ==
  /\ Free(User) /\ s \in Messaged /\ Exists(s)
  /\ AppendEvent(User, s, class)
  /\ UNCHANGED <<status, midCall, resting, interactive, history, pc, ctxDone, woken, stack>>

IsSpine(s) ==
  \/ status[s] \in {"ongoing", "awaiting"}
  \/ (status[s] = "crashed" /\ Parent(s) = None)

\* RecoverRun, for one session.  (A launch between its look at the registry
\* and its append makes the RecoverEvent one more Input to a live session.)
Recover(s) ==
  /\ Free(User) /\ pc[s] = "down" /\ Exists(s) /\ IsSpine(s)
  /\ IF AtRest(s)
       THEN Goto(s, "enter") /\ UNCHANGED <<fresh, fire>>
       ELSE AppendEvent(User, s, "input") /\ UNCHANGED pc
  /\ UNCHANGED <<status, midCall, resting, interactive, history, ctxDone, woken, stack>>

\* The process dies.  The rows and the events are what is left.
Crash ==
  /\ pc' = [s \in Tree |-> "down"]
  /\ ctxDone' = [s \in Tree |-> FALSE]
  /\ woken' = [s \in Tree |-> FALSE]
  /\ fire' = [t \in Actors |-> {}]
  /\ stack' = [t \in Actors |-> <<>>]
  /\ UNCHANGED row

-----------------------------------------------------------------------------
CancelStep(t) ==
  \/ CancelRead(t) \/ CancelTerminate(t) \/ CancelList(t)
  \/ CancelChild(t) \/ CancelledChildren(t) \/ CancelInterrupt(t)

Enter(s) ==
  \/ Bootstrap(s) \/ Resume(s) \/ ResumeAtRest(s) \/ CheckStatus(s) \/ Revive(s)
Park(s) == ParkSnapshot(s) \/ ParkCheck(s) \/ ParkWoken(s)
Loop(s) ==
  \/ Top(s) \/ AnswerWithTools(s) \/ AnswerWithText(s)
  \/ SpawnAgent(s) \/ SpawnNothing(s) \/ SendMessage(s) \/ FinishTools(s)
  \/ CountArrivals(s) \/ ParkIdle(s) \/ Cascade(s) \/ Conclude(s)
Await(s) ==
  \/ AwaitFast(s) \/ AwaitMark(s) \/ AwaitSnapshot(s) \/ AwaitCheck(s)
  \/ AwaitWoken(s) \/ AwaitReadStatus(s) \/ AwaitRestore(s)

Goroutine(s) ==
  Enter(s) \/ Park(s) \/ Loop(s) \/ Await(s) \/ ContextDone(s) \/ Exit(s)

Next ==
  \/ \E s \in Tree :
       \/ Goroutine(s)
       \/ ParkTimeout(s) \/ AwaitTimeout(s) \/ ProviderFails(s)
       \/ StartCancel(s) \/ Recover(s) \/ Post(s, "input") \/ Post(s, "env")
  \/ \E t \in Actors : Notify(t) \/ CancelStep(t)

\* The same where the process may crash and come back.
NextOrCrash == Next \/ Crash

\* A runnable goroutine runs, an LLM call returns, a notifier call and a
\* CancelSession under way go on.  Nobody is obliged to write, to cancel, to
\* recover or to fail, and no timer has to fire.
Fairness ==
  /\ \A s \in Tree : WF_vars(Goroutine(s))
  /\ \A t \in Actors : WF_vars(Notify(t)) /\ WF_vars(CancelStep(t))

Spec == Init /\ [][Next]_vars /\ Fairness

-----------------------------------------------------------------------------
\* Properties.

Live(s) == pc[s] # "down"

\* An ongoing session is alive and working, and so is an awaiting one: without
\* a process crash no order of turns, waits and failures leaves the status of one
\* whose goroutine has gone, and no order of cancels but one: a cancel that was
\* overtaken, by an Input or by a write over its verdict, stops the life
\* that goes on (Run's exits, recordFailure and CancelSession's interrupt).
NoStranding ==
  \A s \in Tree :
    status[s] \in {"ongoing", "awaiting"} /\ ~Live(s) => s \in crossed \cap Reached

\* Child results: no life that has ended goes unreported, and it is reported once
\* whoever raced whom to end it and whenever the process crashed; a second report
\* takes a session that writes its status blindly and a cancel whose verdict it
\* wrote over (TerminateAndNotifyParent is atomic and its status condition the
\* dedupe token; UpdateSessionStatus has none).
ToldOnce ==
  \A s \in Tree :
    /\ s \notin clobbered => told[s] = IF status[s] \in Terminal THEN 1 ELSE 0
    /\ s \in clobbered =>
         told[s] \in 1..2 /\ s \in Reached \cap (interactive \cup Awaiters)

\* Where the status is written without a look at what it is.
BlindPlaces == {"rest", "idle", "mark", "restore"}

\* The restart matrix: only an Input that has not been read takes a session out
\* of idle or of a terminal status, and that for ongoing only.  Nothing else may
\* write over the status of a session that concluded or crashed; over that of a
\* cancelled one may those that look at nothing, at their four places
\* (UpdateSessionStatus checks nothing, so every caller must).
StatusMatrix ==
  [][\A s \in Tree :
       status[s] \in Terminal \cup {"idle"} /\ status'[s] # status[s]
         => \/ (status'[s] = "ongoing" /\ "input" \in fresh[s])
            \/ (status[s] = "idle" /\ status'[s] \in Terminal)
            \/ (status[s] = "cancelled" /\ pc[s] \in BlindPlaces
                  /\ s \in Reached \cap (interactive \cup Awaiters))]_vars

\* await_event never overwrites a terminal status with ongoing: the status it
\* re-reads before it restores ongoing is the one it overwrites.
NeverClobber ==
  [][\A s \in Tree :
       At(s, "restore") /\ status'[s] # status[s] /\ pc'[s] = "results"
         => status[s] \notin Terminal]_vars

\* await_event wakes on any event: a session asleep in it with an event at its
\* current step does not stay asleep, timer or no timer (Notify against the
\* snapshot, the look at the store and WaitAfter).
AwaitWakes ==
  \A s \in Awaiters :
    (pc[s] = "sleep" /\ fresh[s] # {}) ~> (pc[s] # "sleep")

\* A cancelled session stops, unless an Input restarts it first (CancelSession
\* interrupts the goroutine after its verdict, and every place the goroutine may
\* be at gives way); a write over the verdict does not save it.  A message that
\* the cancelled life has read may launch a goroutine after it, which parks.  A
\* cancel reaches the sessions it is asked for and, from its parent's conclusion,
\* a child.
CancelStops ==
  \A s \in Reached :
    (status[s] = "cancelled") ~>
      \/ ~Live(s)
      \/ status[s] = "ongoing" /\ s \notin clobbered
      \/ s \in Messaged /\ pc[s] = "parkSleep"

\* Hot or cold, an Input restarts a session or is read by its loop: it does not
\* stay unread (NewCommitNotifier against the goroutine's exit).
InputRestarts ==
  \A s \in Tree : ("input" \in fresh[s]) ~> ("input" \notin fresh[s])
=============================================================================

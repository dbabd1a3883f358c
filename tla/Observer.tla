------------------------------ MODULE Observer ------------------------------
(***************************************************************************)
(* The process-global summarizer (internal/observer) over the Session      *)
(* cursors and the Observation rows of internal/db/sqlite, with its start  *)
(* and stop in cmd/amplio, and the views the server derives from its rows  *)
(* (internal/server/trajectory.go, chat.go).                               *)
(*                                                                         *)
(* Threads: the session goroutines, which only finalize steps and change   *)
(* statuses here and then owe the observer's listener a call; the workers; *)
(* main, the goroutine of serve that starts and stops the observer; and    *)
(* the one that broadcasts when the context is cancelled.  A worker action *)
(* is one store call, or one region under o.mu.  A crash loses everything  *)
(* but the rows and the cursors.                                           *)
(*                                                                         *)
(* What the model answers is a choice: any boundary of the chunk.  A       *)
(* failed call is the last one (phaseFailurePayload covers the chunk), and *)
(* a step's summary never fails, it degrades (stepFailurePayload).         *)
(***************************************************************************)
EXTENDS Naturals, FiniteSets

CONSTANTS
  Main, Others,   \* the main-agent session; sub-agents of its run
  Workers,        \* the worker pool
  MaxStep,        \* bound: steps a session ever finalizes
  Threshold,      \* steps of text that make a phase due (phaseCharThreshold)
  HardCap,        \* steps of text one phase prompt may hold (phaseCharHardCap)
  MaxEnds,        \* bound: how often a process ends or is told to
  StoreMayFail,   \* whether a store call may fail while the context is live
  Interactive     \* sessions that park idle instead of concluding

Sessions == {Main} \cup Others
None == "none"

ASSUME ObserverAssumption ==
  /\ Main \notin Others /\ None \notin Sessions
  /\ Interactive \subseteq Sessions
  /\ MaxStep \in Nat /\ MaxEnds \in Nat /\ StoreMayFail \in BOOLEAN
  /\ Threshold \in Nat \ {0} /\ HardCap \in Nat \ {0}

VARIABLES
  \* Durable: the Session row and the Observation rows.
  status, finalized, summarized, phased,
  stepRows,   \* steps that have a step_summary row
  phaseRows,  \* phase_summary rows, keyed by their last step
  \* The process.
  main,       \* where serve's main goroutine is; "down" is no process
  ends, ctx, sweeping,
  owed,       \* sessions with a committed write whose listener call is due
  \* The observer's memory.
  pending, active, closed, worker,
  \* History.
  atStop,     \* the finalized cursors when Stop swept
  reported,   \* the finalizer ran since the main agent concluded
  dropped,    \* sessions whose last pass, or signal, a store error cut short
  torn        \* sessions of which a phase was written and its cursor was not

store == <<status, finalized, summarized, phased, stepRows, phaseRows>>
process == <<main, ends, ctx, sweeping>>
memory == <<pending, active, closed>>
history == <<atStop, reported, dropped, torn>>
vars == <<store, process, owed, memory, worker, history>>

Statuses == {"ongoing", "idle", "concluded", "crashed"}
StatusesOf(s) == Statuses \ {IF s \in Interactive THEN "concluded" ELSE "idle"}
Terminal == {"concluded", "crashed"}

\* The sessions crash recovery restarts.
IsSpine(s) == status[s] = "ongoing" \/ (status[s] = "crashed" /\ s = Main)

\* The trailing phase of such a session is closed whatever its length.
Settled(s) == ~IsSpine(s) /\ status[s] # "idle"

Phases == [from : 1..MaxStep, to : 1..MaxStep]

Larger(a, b) == IF a > b THEN a ELSE b
Smaller(a, b) == IF a < b THEN a ELSE b

\* Where a worker is, the session it works on, and the locals of the two loops:
\* done and upto are the cursor and the watermark, end the phase being written.
Idle(at) == [at |-> at, key |-> None, done |-> 0, upto |-> 0,
             force |-> FALSE, end |-> 0]
InProcess == {"read", "steps", "bump", "phases", "close", "cursor", "finalize"}
WorkerStates ==
  [at : {"off", "take", "asleep", "release", "quit"} \cup InProcess,
   key : Sessions \cup {None}, done : 0..MaxStep, upto : 0..MaxStep,
   force : BOOLEAN, end : 0..MaxStep]

StopStates == {"stopSweep", "stopEnqueue", "drain", "drainAsleep", "join"}
Up == main # "down"
Serving == main \in {"serve"} \cup StopStates  \* sessions run only now

TypeOK ==
  /\ status \in [Sessions -> Statuses]
  /\ finalized \in [Sessions -> 0..MaxStep]
  /\ summarized \in [Sessions -> 0..MaxStep]
  /\ phased \in [Sessions -> 0..MaxStep]
  /\ stepRows \in [Sessions -> SUBSET (1..MaxStep)]
  /\ phaseRows \in [Sessions -> SUBSET Phases]
  /\ main \in {"down", "sweep", "enqueue", "serve"} \cup StopStates
  /\ ends \in 0..MaxEnds
  /\ ctx \in {"live", "cancelled", "broadcast"}
  /\ sweeping \subseteq Sessions
  /\ owed \subseteq Sessions
  /\ pending \subseteq Sessions /\ active \subseteq Sessions
  /\ closed \in BOOLEAN
  /\ worker \in [Workers -> WorkerStates]
  /\ atStop \in [Sessions -> 0..MaxStep]
  /\ reported \in BOOLEAN
  /\ dropped \subseteq Sessions /\ torn \subseteq Sessions

Init ==
  /\ status = [s \in Sessions |-> "ongoing"]
  /\ finalized = [s \in Sessions |-> 0]
  /\ summarized = [s \in Sessions |-> 0]
  /\ phased = [s \in Sessions |-> 0]
  /\ stepRows = [s \in Sessions |-> {}]
  /\ phaseRows = [s \in Sessions |-> {}]
  /\ main = "down" /\ ends = 0 /\ ctx = "live"
  /\ sweeping = {}
  /\ owed = {}
  /\ pending = {} /\ active = {} /\ closed = FALSE
  /\ worker = [w \in Workers |-> Idle("off")]
  /\ atStop = [s \in Sessions |-> 0]
  /\ reported = FALSE /\ dropped = {} /\ torn = {}

-----------------------------------------------------------------------------
\* Session goroutines.  The listener runs in the writing goroutine, after the
\* commit and outside the store's lock.  A second write before the call of the
\* first shares it, as enqueueing a key twice is enqueueing it once.

\* FinalizeStep and MarkStepFinalized: the cursor never goes back; it may pass
\* a step that a crash left unfinalized.
FinalizeStep(s) ==
  /\ Serving /\ status[s] = "ongoing"
  /\ \E n \in 1..MaxStep :
       /\ n > finalized[s]
       /\ finalized' = [finalized EXCEPT ![s] = n]
  /\ owed' = owed \cup {s}
  /\ UNCHANGED <<status, summarized, phased, stepRows, phaseRows, process,
                 memory, worker, history>>

\* Every writer of Session.status: the observer hears of terminal ones only.
ChangeStatus(s) ==
  /\ Serving
  /\ \E st \in StatusesOf(s) \ {status[s]} :
       /\ status' = [status EXCEPT ![s] = st]
       /\ owed' = IF st \in Terminal THEN owed \cup {s} ELSE owed
       /\ reported' = (reported /\ s # Main)
  /\ UNCHANGED <<finalized, summarized, phased, stepRows, phaseRows, process,
                 memory, worker, atStop, dropped, torn>>

\* sync.Cond.Broadcast: every sleeper looks again.
WokenWorkers == [w \in Workers |->
  IF worker[w].at = "asleep" THEN Idle("take") ELSE worker[w]]
WokenMain == IF main = "drainAsleep" THEN "drain" ELSE main

\* Mutant of enqueue: a key under way is not queued again.
EnqueueUnlessActive(s) ==
  IF closed \/ s \in active THEN UNCHANGED <<pending, worker, main>>
  ELSE /\ pending' = pending \cup {s}
       /\ worker' = WokenWorkers
       /\ main' = WokenMain

\* enqueue drops the key once Stop has closed the observer.
enqueue(s) ==
  IF closed THEN UNCHANGED <<pending, worker, main>>
  ELSE /\ pending' = pending \cup {s}
       /\ worker' = WokenWorkers
       /\ main' = WokenMain

Listen(s) ==
  /\ s \in owed
  /\ owed' = owed \ {s}
  /\ enqueue(s)
  /\ UNCHANGED <<store, ends, ctx, sweeping, active, closed, history>>

-----------------------------------------------------------------------------
\* Workers.

\* Mutant of Takeable: the busy check is gone.
TakeableBusy == pending

Takeable == pending \ active

Goto(w, at) == worker' = [worker EXCEPT ![w].at = at]

\* A part of process returns; its locals are gone.
Return(w, at) ==
  worker' = [worker EXCEPT ![w] = [Idle(at) EXCEPT !.key = worker[w].key]]

\* One critical section of worker: take a key nobody works on, or sleep, or
\* leave when there is nothing to take and never will be.
TakePending(w) ==
  /\ worker[w].at = "take"
  /\ \E s \in Takeable :
       /\ pending' = pending \ {s}
       /\ active' = active \cup {s}
       /\ worker' = [worker EXCEPT ![w] = [Idle("read") EXCEPT !.key = s]]
       /\ dropped' = dropped \ {s}
  /\ UNCHANGED <<store, process, owed, closed, atStop, reported, torn>>

WaitForWork(w) ==
  /\ worker[w].at = "take" /\ Takeable = {}
  /\ Goto(w, IF closed \/ ctx # "live" THEN "quit" ELSE "asleep")
  /\ UNCHANGED <<store, process, owed, memory, history>>

Working(w, at) == worker[w].at = at /\ ctx = "live"

\* catchUpSteps reads the row once.
ReadSession(w) ==
  /\ Working(w, "read")
  /\ LET s == worker[w].key IN
     worker' = [worker EXCEPT ![w].at = "steps", ![w].done = summarized[s],
                              ![w].upto = finalized[s]]
  /\ UNCHANGED <<store, process, owed, memory, history>>

\* summarizeOneStep: the row is keyed by its step, so writing it again is safe.
SummarizeStep(w) ==
  /\ Working(w, "steps") /\ worker[w].done < worker[w].upto
  /\ stepRows' = [stepRows EXCEPT ![worker[w].key] = @ \cup {worker[w].done + 1}]
  /\ Goto(w, "bump")
  /\ UNCHANGED <<status, finalized, summarized, phased, phaseRows, process,
                 owed, memory, history>>

SetLastSummarizedStep(w) ==
  /\ Working(w, "bump")
  /\ LET step == worker[w].done + 1 IN
     /\ summarized' = [summarized EXCEPT ![worker[w].key] = Larger(@, step)]
     /\ worker' = [worker EXCEPT ![w].at = "steps", ![w].done = step]
  /\ UNCHANGED <<status, finalized, phased, stepRows, phaseRows, process,
                 owed, memory, history>>

\* catchUpSteps has no step left, or gave up; closePhases runs either way.
StepsOver(w) ==
  \/ Working(w, "steps") /\ worker[w].done >= worker[w].upto
  \/ Working(w, "phases")

\* closePhases reads the row once; a later change of status does not change
\* whether it forces the trailing phase.
ReadCursors(w) ==
  /\ StepsOver(w)
  /\ LET s == worker[w].key IN
     worker' = [worker EXCEPT ![w].at = "close", ![w].done = phased[s],
                              ![w].upto = summarized[s], ![w].force = Settled(s)]
  /\ UNCHANGED <<store, process, owed, memory, history>>

\* SumStepSummaryChars, with every step of length one.
CharSum(s, lo, hi) == Cardinality({n \in stepRows[s] : lo < n /\ n <= hi})

\* truncateChunkToCap: whole steps, at least the first.
ChunkEnd(lo, hi) == Smaller(hi, lo + HardCap)

\* summarizePhase's resolved end_step.
EndSteps(lo, maxStep, force) == IF force THEN {maxStep} ELSE (lo + 1)..maxStep

PhaseDue(w) ==
  /\ worker[w].done < worker[w].upto
  /\ \/ CharSum(worker[w].key, worker[w].done, worker[w].upto) >= Threshold
     \/ worker[w].force

\* AppendObservation of the phase: INSERT OR REPLACE, keyed by its end.
WritePhase(w) ==
  /\ Working(w, "close") /\ PhaseDue(w)
  /\ LET s == worker[w].key
         lo == worker[w].done
     IN \E e \in EndSteps(lo, ChunkEnd(lo, worker[w].upto), worker[w].force) :
          /\ phaseRows' = [phaseRows EXCEPT ![s] =
               {p \in @ : p.to # e} \cup {[from |-> lo + 1, to |-> e]}]
          /\ worker' = [worker EXCEPT ![w].at = "cursor", ![w].end = e]
  /\ UNCHANGED <<status, finalized, summarized, phased, stepRows, process,
                 owed, memory, history>>

SetLastPhasedStep(w) ==
  /\ Working(w, "cursor")
  /\ LET e == worker[w].end IN
     /\ phased' = [phased EXCEPT ![worker[w].key] = Larger(@, e)]
     /\ worker' = [worker EXCEPT ![w].at = "close", ![w].done = e, ![w].end = 0]
  /\ UNCHANGED <<status, finalized, summarized, stepRows, phaseRows, process,
                 owed, memory, history>>

\* No phase is due, or closePhases gave up; the finalizer's hook runs for the
\* main agent, by the status it has now.
maybeFinalize(w) ==
  /\ \/ Working(w, "close") /\ ~PhaseDue(w)
     \/ Working(w, "finalize")
  /\ reported' = (reported \/ (worker[w].key = Main /\ status[Main] = "concluded"))
  /\ Return(w, "release")
  /\ UNCHANGED <<store, process, owed, memory, atStop, dropped, torn>>

\* Mutant of GiveUpSteps: the step that failed is passed over.
SkipStep(w) ==
  /\ Working(w, "steps") /\ worker[w].done < worker[w].upto
  /\ Goto(w, "bump") /\ UNCHANGED torn

\* A store call fails while the context is live, in catchUpSteps, in closePhases
\* or in maybeFinalize: that part returns and the next one runs.  The session is
\* dirty until the next signal or sweep.
GiveUpSteps(w) ==
  /\ \/ Working(w, "read") \/ Working(w, "bump")
     \/ Working(w, "steps") /\ worker[w].done < worker[w].upto
  /\ Return(w, "phases") /\ UNCHANGED torn

GiveUpPhases(w) ==
  /\ \/ StepsOver(w)
     \/ Working(w, "close") /\ worker[w].done < worker[w].upto
     \/ Working(w, "cursor")
  /\ Return(w, "finalize")
  /\ torn' = IF worker[w].at = "cursor" THEN torn \cup {worker[w].key} ELSE torn

GiveUpReport(w) ==
  /\ Working(w, "finalize") /\ worker[w].key = Main
  /\ Return(w, "release") /\ UNCHANGED torn

StoreFails(w) ==
  /\ StoreMayFail
  /\ GiveUpSteps(w) \/ GiveUpPhases(w) \/ GiveUpReport(w)
  /\ dropped' = dropped \cup {worker[w].key}
  /\ UNCHANGED <<store, process, owed, memory, atStop, reported>>

\* Under a cancelled context every store call fails and process returns.
Abandon(w) ==
  /\ worker[w].at \in InProcess /\ ctx # "live"
  /\ Return(w, "release")
  /\ UNCHANGED <<store, process, owed, memory, history>>

\* Mutant of Release: nobody is woken.
ReleaseQuietly(w) ==
  /\ worker[w].at = "release"
  /\ active' = active \ {worker[w].key}
  /\ worker' = [worker EXCEPT ![w] = Idle("take")]
  /\ UNCHANGED <<store, process, owed, pending, closed, history>>

Release(w) ==
  /\ worker[w].at = "release"
  /\ active' = active \ {worker[w].key}
  /\ worker' = [WokenWorkers EXCEPT ![w] = Idle("take")]
  /\ main' = WokenMain
  /\ UNCHANGED <<store, ends, ctx, sweeping, owed, pending, closed,
                 history>>

Work(w) ==
  \/ TakePending(w) \/ WaitForWork(w)
  \/ ReadSession(w) \/ SummarizeStep(w) \/ SetLastSummarizedStep(w)
  \/ ReadCursors(w) \/ WritePhase(w) \/ SetLastPhasedStep(w)
  \/ maybeFinalize(w) \/ Abandon(w) \/ Release(w)

-----------------------------------------------------------------------------
\* The main goroutine.

\* New, Start: listeners, workers, then the sweep; serve starts the backfill.
Start ==
  /\ main = "down"
  /\ main' = "sweep"
  /\ ctx' = "live" /\ closed' = FALSE /\ pending' = {} /\ active' = {}
  /\ worker' = [w \in Workers |-> Idle("take")]
  /\ UNCHANGED <<store, ends, sweeping, owed, history>>

\* ListPendingSessions: a session is dirty for its steps or for its phases.
Dirty == {s \in Sessions :
  finalized[s] > summarized[s] \/ summarized[s] > phased[s]}

\* The query fails when the context is cancelled, and may fail before.
Sweep(at, enqueueing) ==
  /\ main = at
  /\ main' = enqueueing
  /\ \/ ctx = "live" /\ sweeping' = Dirty /\ UNCHANGED dropped
     \/ ctx # "live" /\ sweeping' = {} /\ UNCHANGED dropped
     \/ StoreMayFail /\ sweeping' = {} /\ dropped' = dropped \cup Dirty
  /\ UNCHANGED <<store, ends, ctx, owed, memory, worker, reported, torn>>

SweepAtStart == Sweep("sweep", "enqueue") /\ UNCHANGED atStop

SweepAtStop ==
  /\ Sweep("stopSweep", "stopEnqueue")
  /\ atStop' = finalized

EnqueueSwept ==
  /\ main \in {"enqueue", "stopEnqueue"}
  /\ \E s \in sweeping :
       /\ sweeping' = sweeping \ {s}
       /\ enqueue(s)
  /\ UNCHANGED <<store, ends, ctx, owed, active, closed, history>>

\* Once started, serve backfills the reports of the runs it finds concluded
\* (backfillReports, a goroutine of its own: here when it starts), unless it
\* cannot read them.
SweepDone ==
  /\ main \in {"enqueue", "stopEnqueue"} /\ sweeping = {}
  /\ \/ main = "stopEnqueue" /\ main' = "drain" /\ UNCHANGED <<reported, dropped>>
     \/ /\ main = "enqueue" /\ main' = "serve" /\ UNCHANGED dropped
        /\ reported' = (ctx = "live" /\ status[Main] = "concluded")
     \/ /\ StoreMayFail /\ main = "enqueue" /\ main' = "serve" /\ UNCHANGED reported
        /\ dropped' = dropped \cup {Main}
  /\ UNCHANGED <<store, ends, ctx, sweeping, owed, memory, worker, atStop, torn>>

\* A signal cancels the context; a goroutine then wakes all who wait.
CancelContext ==
  /\ Up /\ ctx = "live" /\ ends < MaxEnds
  /\ ctx' = "cancelled"
  /\ UNCHANGED <<store, main, ends, sweeping, owed, memory, worker,
                 history>>

BroadcastCancel ==
  /\ Up /\ ctx = "cancelled"
  /\ ctx' = "broadcast"
  /\ worker' = WokenWorkers
  /\ main' = WokenMain
  /\ UNCHANGED <<store, ends, sweeping, owed, memory, history>>

\* Stop: sweep, drain, close, join.  A headless run stops with a live context.
BeginStop ==
  /\ main = "serve" /\ ends < MaxEnds
  /\ main' = "stopSweep"
  /\ UNCHANGED <<store, ends, ctx, sweeping, owed, memory, worker,
                 history>>

Drain ==
  /\ main = "drain"
  /\ IF (pending \cup active) # {} /\ ctx = "live"
     THEN main' = "drainAsleep" /\ UNCHANGED <<closed, worker>>
     ELSE main' = "join" /\ closed' = TRUE /\ worker' = WokenWorkers
  /\ UNCHANGED <<store, ends, ctx, sweeping, owed, pending, active,
                 history>>

\* What a process takes with it, whether it exits or dies.
ProcessEnds ==
  /\ main' = "down" /\ ctx' = "live" /\ sweeping' = {}
  /\ pending' = {} /\ active' = {} /\ closed' = FALSE /\ owed' = {}
  /\ worker' = [w \in Workers |-> Idle("off")]
  /\ reported' = FALSE /\ dropped' = {} /\ torn' = {} /\ atStop' = [s \in Sessions |-> 0]
  /\ ends' = ends + 1
  /\ UNCHANGED store

Join ==
  /\ main = "join"
  /\ \A w \in Workers : worker[w].at = "quit"
  /\ ProcessEnds

Crash == Up /\ ends < MaxEnds /\ ProcessEnds

MainSteps ==
  \/ SweepAtStart \/ SweepAtStop \/ EnqueueSwept \/ SweepDone \/ Drain \/ Join

Next ==
  \/ \E s \in Sessions : FinalizeStep(s) \/ ChangeStatus(s) \/ Listen(s)
  \/ \E w \in Workers : Work(w) \/ StoreFails(w)
  \/ MainSteps \/ Start \/ BeginStop
  \/ CancelContext \/ BroadcastCancel \/ Crash

\* A runnable goroutine runs and a summarizer call returns.  Nobody has to
\* finalize, settle, cancel, stop, crash or boot.
Fairness ==
  /\ \A w \in Workers : WF_vars(Work(w))
  /\ \A s \in Sessions : WF_vars(Listen(s))
  /\ WF_vars(MainSteps) /\ WF_vars(BroadcastCancel)

Spec == Init /\ [][Next]_vars /\ Fairness
-----------------------------------------------------------------------------
\* What the server shows of the rows.

LastEnd(rows) ==
  IF rows = {} THEN 0 ELSE CHOOSE e \in {p.to : p \in rows} :
    \A p \in rows : p.to <= e
StepsOf(rows) == UNION {p.from..p.to : p \in rows}

\* handleTrajectory: the phases' steps, then the loose steps after the last end,
\* up to the tail event's step, which is never below the finalized cursor.
Trajectory(s) ==
  StepsOf(phaseRows[s]) \cup (LastEnd(phaseRows[s]) + 1)..finalized[s]

\* phaseState: all but the newest phase become cards, and the chat leaves out
\* every event up to the last card's end.
Cards(s) == {p \in phaseRows[s] : p.to # LastEnd(phaseRows[s])}
RolledUp(s) == 1..LastEnd(Cards(s))

-----------------------------------------------------------------------------
\* Properties.

CursorOrder == \A s \in Sessions :
  phased[s] <= summarized[s] /\ summarized[s] <= finalized[s]

\* A cursor stands for rows that exist.
RowsBehindCursors == \A s \in Sessions :
  /\ 1..summarized[s] \subseteq stepRows[s]
  /\ \A n \in 1..phased[s] : \E p \in phaseRows[s] :
       p.from <= n /\ n <= p.to /\ p.to <= phased[s]

\* No step is lost from a view.
ViewsComplete == \A s \in Sessions :
  /\ 1..finalized[s] \subseteq Trajectory(s)
  /\ RolledUp(s) \subseteq StepsOf(Cards(s))

\* The cursors never overtake each other, each stands for rows that exist, and
\* the views the server builds from the rows miss no finalized step, through
\* crashes between a row and its cursor, overlapping rows and replaced ones
\* (types.go states the order; the views take it for granted that phases leave
\* no gap).
CursorsMatchRows == CursorOrder /\ RowsBehindCursors /\ ViewsComplete

\* As long as the first process lives and is not told to stop, the phases of a
\* session tile its steps.  A process that ends between the phase's row and its
\* cursor, or a cursor that cannot be written, leaves a row that a later
\* boundary may overlap.
PhasesTile ==
  ends = 0 /\ ctx = "live" =>
    \A s \in Sessions \ torn : \A n \in 1..MaxStep :
      Cardinality({p \in phaseRows[s] : p.from <= n /\ n <= p.to}) <= 1

\* A Stop that was not aborted returns only when every step finalized before
\* its sweep is summarized, or a store error left the session to the next
\* process (the drain of a headless run).
StopDrains ==
  main = "join" /\ ctx = "live" =>
    \A s \in Sessions \ dropped : summarized[s] >= atStop[s]

Undisturbed == main = "serve" /\ ctx = "live"

\* While the process serves, the finalized steps are eventually summarized, a
\* settled session's steps all end up in phases, and a concluded main agent's
\* run reaches the finalizer: no signal is lost between a worker that reads a
\* row and a session that changes it, nor by a crash before the next sweep.
\* What a store error cuts short waits for the next signal, which takes the
\* session up from its cursors.
CaughtUp ==
  /\ \A s \in Sessions :
       Undisturbed ~> ~Undisturbed \/ s \in dropped \/ summarized[s] = finalized[s]
  /\ \A s \in Sessions :
       Undisturbed /\ Settled(s)
         ~> ~Undisturbed \/ s \in dropped \/ ~Settled(s) \/ phased[s] = finalized[s]
  /\ Undisturbed /\ status[Main] = "concluded"
       ~> ~Undisturbed \/ Main \in dropped \/ status[Main] # "concluded" \/ reported

\* Stop returns, with or without a context that is cancelled under it, once the
\* sessions stop producing signals: the drain still accepts their keys.
StopReturns == <>[](owed = {}) => (main \in StopStates ~> main = "down")

\* Stop is both: it drains what it must and it returns.
StopIsOrderly == []StopDrains /\ StopReturns
=============================================================================

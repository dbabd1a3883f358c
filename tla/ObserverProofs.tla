--------------------------- MODULE ObserverProofs ---------------------------
(***************************************************************************)
(* Proofs about the observer, for any sessions, workers, thresholds and    *)
(* numbers of steps, through any number of stops and crashes.  The         *)
(* invariant rests on per-session serialization: what a worker has read of *)
(* a session's row is still what the row says, so the rows it writes start *)
(* where the cursor is.                                                    *)
(***************************************************************************)
EXTENDS Observer, FiniteSetTheorems, WellFoundedInduction, TLAPS

Busy(w) == worker[w].at \in InProcess \cup {"release"}

\* A worker between the parts of process has a session and no other locals.
Handed == {"read", "phases", "finalize", "release"}

\* No two workers are on one session.
Exclusive ==
  /\ \A w \in Workers : Busy(w) => worker[w].key \in active
  /\ \A v, w \in Workers : Busy(v) /\ Busy(w) /\ worker[v].key = worker[w].key => v = w

\* What the phases tell reaches back to the first step from each of their ends.
PrefixTold(rows) ==
  \A q \in rows : \A n \in 1..q.to : \E p \in rows : p.from <= n /\ n <= p.to /\ p.to <= q.to

RowsTell(s) ==
  /\ phased[s] <= summarized[s] /\ summarized[s] <= finalized[s]
  /\ 1..summarized[s] \subseteq stepRows[s]
  /\ \A n \in 1..phased[s] : \E p \in phaseRows[s] :
       p.from <= n /\ n <= p.to /\ p.to <= phased[s]
  /\ PrefixTold(phaseRows[s])

\* A worker's locals agree with the row of the session it works on.
LocalsAgree(w) ==
  LET me == worker[w]
      s == worker[w].key
  IN /\ me.at \in InProcess \cup {"release"} => s \in Sessions
     /\ me.at = "steps" => me.done = summarized[s] /\ me.upto <= finalized[s]
     /\ me.at = "bump" => /\ me.done = summarized[s] /\ me.done < me.upto
                          /\ me.upto <= finalized[s] /\ me.done + 1 \in stepRows[s]
     /\ me.at = "close" => me.done = phased[s] /\ me.upto <= summarized[s]
     /\ me.at = "cursor" =>
          /\ me.done = phased[s] /\ me.done < me.end /\ me.end <= summarized[s]
          /\ me.upto <= summarized[s]
          /\ [from |-> me.done + 1, to |-> me.end] \in phaseRows[s]

IInv ==
  /\ TypeOK
  /\ Exclusive
  /\ \A s \in Sessions : RowsTell(s)
  /\ \A w \in Workers : LocalsAgree(w)

-----------------------------------------------------------------------------
\* Lemmas about sets of rows.

\* A set of phases that is not empty has a last end.
LEMMA LastEndIsTheLast ==
  ASSUME NEW rows \in SUBSET Phases, rows # {}
  PROVE  /\ LastEnd(rows) \in {p.to : p \in rows}
         /\ \A p \in rows : p.to <= LastEnd(rows)
<1> DEFINE back == {MaxStep - p.to : p \in rows}
           E == {p.to : p \in rows}
<1>1. MaxStep \in Nat
  BY ObserverAssumption
<1>2. \A p \in rows : p.to \in 1..MaxStep
  BY DEF Phases
<1>3. back \subseteq Nat /\ back # {}
  BY <1>1, <1>2
<1>4. PICK x \in back : \A y \in back : ~(<<y, x>> \in OpToRel(<, Nat))
  <2> HIDE DEF back
  <2> QED
    BY <1>3, NatLessThanWellFounded, WFMin
<1>5. \A y \in back : ~(y < x)
  BY <1>3, <1>4 DEF OpToRel
<1>6. PICK p \in rows : x = MaxStep - p.to
  BY <1>4
<1>7. ASSUME NEW q \in rows PROVE q.to <= p.to
  <2>1. ~(MaxStep - q.to < x)
    BY <1>5
  <2>2. QED
    BY <1>1, <1>2, <1>6, <2>1
<1>8. \E e \in E : \A q \in rows : q.to <= e
  BY <1>6, <1>7
<1>9. LastEnd(rows) = CHOOSE e \in E : \A q \in rows : q.to <= e
  BY DEF LastEnd
<1>10. QED
  BY <1>8, <1>9

\* No step is missing from the views when the phases reach back from each end.
LEMMA ViewsFollow ==
  ASSUME TypeOK, NEW s \in Sessions, PrefixTold(phaseRows[s])
  PROVE  1..finalized[s] \subseteq Trajectory(s) /\ RolledUp(s) \subseteq StepsOf(Cards(s))
<1> DEFINE rows == phaseRows[s]
<1>1. MaxStep \in Nat /\ finalized[s] \in Nat /\ rows \in SUBSET Phases
  BY ObserverAssumption DEF TypeOK
<1>2. \A p \in rows : p.from \in 1..MaxStep /\ p.to \in 1..MaxStep
  BY <1>1 DEF Phases
<1>3. ASSUME NEW n \in 1..finalized[s] PROVE n \in Trajectory(s)
  <2>1. CASE rows = {}
    <3>1. LastEnd(rows) = 0
      BY <2>1 DEF LastEnd
    <3>2. QED
      BY <1>1, <3>1 DEF Trajectory
  <2>2. CASE rows # {}
    <3>1. PICK q \in rows : LastEnd(rows) = q.to
      BY <1>1, <2>2, LastEndIsTheLast
    <3>2. CASE n <= q.to
      <4>1. n \in 1..q.to
        BY <1>1, <1>2, <3>2
      <4>2. PICK p \in rows : p.from <= n /\ n <= p.to
        BY <3>1, <4>1 DEF PrefixTold
      <4>3. n \in p.from..p.to
        BY <1>1, <1>2, <4>2
      <4>4. QED
        BY <4>2, <4>3 DEF Trajectory, StepsOf
    <3>3. CASE ~(n <= q.to)
      <4>1. n \in (LastEnd(rows) + 1)..finalized[s]
        BY <1>1, <1>2, <3>1, <3>3
      <4>2. QED
        BY <4>1 DEF Trajectory
    <3>4. QED
      BY <3>2, <3>3
  <2>3. QED
    BY <2>1, <2>2
<1>4. ASSUME NEW n \in RolledUp(s) PROVE n \in StepsOf(Cards(s))
  <2>1. Cards(s) \in SUBSET Phases /\ Cards(s) \subseteq rows
    BY <1>1 DEF Cards
  <2>2. Cards(s) # {}
    <3>1. SUFFICES ASSUME Cards(s) = {} PROVE FALSE
      OBVIOUS
    <3>2. n \in 1..0
      BY <3>1 DEF RolledUp, LastEnd
    <3>3. QED
      BY <3>2
  <2>3. PICK q \in Cards(s) : LastEnd(Cards(s)) = q.to
    BY <2>1, <2>2, LastEndIsTheLast
  <2>4. rows # {} /\ q \in rows /\ q.to # LastEnd(rows)
    BY <2>1, <2>3 DEF Cards
  <2>5. q.to < LastEnd(rows) /\ LastEnd(rows) \in Nat
    <3>1. LastEnd(rows) \in {p.to : p \in rows} /\ q.to <= LastEnd(rows)
      BY <1>1, <2>4, LastEndIsTheLast
    <3>2. QED
      BY <1>1, <1>2, <2>4, <3>1
  <2>6. n \in 1..q.to
    BY <2>3 DEF RolledUp
  <2>7. PICK p \in rows : p.from <= n /\ n <= p.to /\ p.to <= q.to
    BY <2>4, <2>6 DEF PrefixTold
  <2>8. p \in Cards(s)
    BY <1>1, <1>2, <2>4, <2>5, <2>7 DEF Cards
  <2>9. n \in p.from..p.to
    BY <1>1, <1>2, <2>6, <2>7
  <2>10. QED
    BY <2>8, <2>9 DEF StepsOf
<1>5. QED
  BY <1>3, <1>4

\* A new phase that starts behind the cursor keeps the prefixes told, whichever
\* row it replaces.
LEMMA PhaseExtends ==
  ASSUME NEW rows \in SUBSET Phases, NEW c \in 0..MaxStep, NEW e \in 1..MaxStep, c < e,
         PrefixTold(rows),
         \A n \in 1..c : \E p \in rows : p.from <= n /\ n <= p.to /\ p.to <= c
  PROVE  LET new == {p \in rows : p.to # e} \cup {[from |-> c + 1, to |-> e]} IN
         /\ new \in SUBSET Phases
         /\ PrefixTold(new)
         /\ \A n \in 1..c : \E p \in new : p.from <= n /\ n <= p.to /\ p.to <= c
<1> DEFINE row == [from |-> c + 1, to |-> e]
           new == {p \in rows : p.to # e} \cup {row}
<1>1. MaxStep \in Nat /\ \A p \in rows : p.from \in 1..MaxStep /\ p.to \in 1..MaxStep
  BY ObserverAssumption DEF Phases
<1>2. row \in Phases /\ row.from = c + 1 /\ row.to = e
  BY <1>1 DEF Phases
<1>3. new \in SUBSET Phases
  BY <1>2
<1>4. ASSUME NEW n \in 1..c PROVE \E p \in new : p.from <= n /\ n <= p.to /\ p.to <= c
  <2>1. PICK p \in rows : p.from <= n /\ n <= p.to /\ p.to <= c
    BY <1>4
  <2>2. p \in new
    BY <1>1, <2>1
  <2>3. QED
    BY <2>1, <2>2
<1>5. ASSUME NEW q \in new, NEW n \in 1..q.to
      PROVE  \E p \in new : p.from <= n /\ n <= p.to /\ p.to <= q.to
  <2>1. q.to \in 1..MaxStep /\ n \in Nat
    BY <1>1, <1>2
  <2>2. CASE n <= c /\ e <= q.to
    <3>1. n \in 1..c
      BY <2>2
    <3>2. PICK p \in new : p.from <= n /\ n <= p.to /\ p.to <= c
      BY <1>4, <3>1
    <3>3. p.to \in Nat
      BY <1>1, <1>2
    <3>4. QED
      BY <1>1, <2>1, <2>2, <3>2, <3>3
  <2>3. CASE c < n /\ n <= e /\ e <= q.to
    BY <1>1, <1>2, <2>3
  <2>4. CASE q \in rows
    <3>1. PICK p \in rows : p.from <= n /\ n <= p.to /\ p.to <= q.to
      BY <2>4, <1>5 DEF PrefixTold
    <3>2. CASE p.to # e
      BY <3>1, <3>2
    <3>3. CASE p.to = e
      BY <1>1, <2>1, <2>2, <2>3, <3>1, <3>3
    <3>4. QED
      BY <3>2, <3>3
  <2>5. CASE q = row
    BY <1>1, <1>2, <2>1, <2>2, <2>3, <2>5
  <2>6. QED
    BY <2>4, <2>5
<1>6. PrefixTold(new)
  BY <1>5 DEF PrefixTold
<1>7. QED
  BY <1>3, <1>4, <1>6

-----------------------------------------------------------------------------
\* Lemmas about steps.

\* A fresh store, with no process started, satisfies the invariant: serve.go
\* starts the observer before any session runs.
LEMMA InitInv == Init => IInv
<1> SUFFICES ASSUME Init PROVE IInv
  OBVIOUS
<1>1. MaxStep \in Nat /\ MaxEnds \in Nat
  BY ObserverAssumption
<1>2. \A w \in Workers : worker[w].at = "off" /\ worker[w] \in WorkerStates
  BY <1>1 DEF Init, Idle, WorkerStates
<1>3. TypeOK
  <2>1. worker \in [Workers -> WorkerStates]
    BY <1>2 DEF Init
  <2>2. /\ stepRows \in [Sessions -> SUBSET (1..MaxStep)]
        /\ phaseRows \in [Sessions -> SUBSET Phases]
    BY DEF Init
  <2>3. closed \in BOOLEAN /\ reported \in BOOLEAN /\ dropped = {} /\ torn = {}
    BY DEF Init
  <2>4. /\ finalized \in [Sessions -> 0..MaxStep] /\ summarized \in [Sessions -> 0..MaxStep]
        /\ phased \in [Sessions -> 0..MaxStep] /\ atStop \in [Sessions -> 0..MaxStep]
    BY <1>1 DEF Init
  <2>5. QED
    BY <1>1, <2>1, <2>2, <2>3, <2>4 DEF Init, TypeOK, Statuses
<1>4. Exclusive
  BY <1>2 DEF Exclusive, Busy, InProcess
<1>5. \A s \in Sessions : RowsTell(s)
  BY DEF Init, RowsTell, PrefixTold
<1>6. \A w \in Workers : LocalsAgree(w)
  BY <1>2 DEF LocalsAgree, InProcess
<1>7. QED
  BY <1>3, <1>4, <1>5, <1>6 DEF IInv

\* Nobody who was not at work is at work, and whoever still is holds his key.
LEMMA KeysStand ==
  ASSUME Exclusive, active \subseteq active',
         \A w \in Workers : Busy(w)' => Busy(w) /\ worker'[w].key = worker[w].key
  PROVE  Exclusive'
BY DEF Exclusive

\* A step that writes no row of the observer, and no worker goes on by itself.
LEMMA RowsStand ==
  ASSUME IInv, TypeOK',
         UNCHANGED <<summarized, phased, stepRows, phaseRows>>,
         \A s \in Sessions : finalized[s] <= finalized'[s],
         \A w \in Workers :
           \/ worker'[w] = worker[w]
           \/ worker'[w].at \notin InProcess \cup {"release"}
           \/ worker'[w].at \in Handed /\ worker'[w].key \in Sessions
  PROVE  (\A s \in Sessions : RowsTell(s))' /\ (\A w \in Workers : LocalsAgree(w))'
<1>1. MaxStep \in Nat
  BY ObserverAssumption
<1>2. ASSUME NEW s \in Sessions PROVE RowsTell(s)'
  <2>1. RowsTell(s)
    BY DEF IInv
  <2>2. {summarized[s], finalized[s], finalized'[s]} \subseteq Nat
    BY <1>1 DEF IInv, TypeOK
  <2>3. QED
    BY <2>1, <2>2 DEF RowsTell
<1>3. ASSUME NEW w \in Workers PROVE LocalsAgree(w)'
  <2>1. LocalsAgree(w)
    BY DEF IInv
  <2>2. CASE worker'[w] = worker[w]
    <3>1. worker[w].upto \in Nat
      BY <1>1 DEF IInv, TypeOK, WorkerStates
    <3>2. worker[w].key \in Sessions =>
            finalized[worker[w].key] \in Nat /\ finalized'[worker[w].key] \in Nat
      BY <1>1 DEF IInv, TypeOK
    <3>3. QED
      BY <2>1, <2>2, <3>1, <3>2 DEF LocalsAgree, InProcess
  <2>3. CASE worker'[w].at \notin InProcess \cup {"release"}
    BY <2>3 DEF LocalsAgree, InProcess
  <2>4. CASE worker'[w].at \in Handed /\ worker'[w].key \in Sessions
    BY <2>4 DEF LocalsAgree, InProcess, Handed
  <2>5. QED
    BY <2>2, <2>3, <2>4
<1>4. QED
  BY <1>2, <1>3

\* A worker goes on with its session; nobody else is on it.
LEMMA OthersStand ==
  ASSUME IInv, TypeOK', NEW w \in Workers, Busy(w), Busy(w)',
         NEW k \in Sessions, worker[w].key = k, worker'[w].key = k,
         UNCHANGED <<active, finalized>>,
         \A v \in Workers \ {w} : worker'[v] = worker[v],
         \A s \in Sessions \ {k} :
           /\ summarized'[s] = summarized[s] /\ phased'[s] = phased[s]
           /\ stepRows'[s] = stepRows[s] /\ phaseRows'[s] = phaseRows[s],
         RowsTell(k)', LocalsAgree(w)'
  PROVE  IInv'
<1>1. Exclusive'
  <2>1. \A v \in Workers : Busy(v)' => Busy(v) /\ worker'[v].key = worker[v].key
    BY DEF Busy
  <2>2. QED
    BY <2>1, KeysStand DEF IInv
<1>2. ASSUME NEW s \in Sessions PROVE RowsTell(s)'
  <2>1. CASE s = k
    BY <2>1
  <2>2. CASE s # k
    <3>1. RowsTell(s)
      BY DEF IInv
    <3>2. QED
      BY <2>2, <3>1 DEF RowsTell
  <2>3. QED
    BY <2>1, <2>2
<1>3. ASSUME NEW v \in Workers PROVE LocalsAgree(v)'
  <2>1. CASE v = w
    BY <2>1
  <2>2. CASE v # w /\ ~Busy(v)
    BY <2>2 DEF LocalsAgree, Busy, InProcess
  <2>3. CASE v # w /\ Busy(v)
    <3>1. worker'[v] = worker[v] /\ LocalsAgree(v)
      BY <2>3 DEF IInv
    <3>2. worker[v].key \in Sessions \ {k}
      BY <2>3, <3>1 DEF IInv, Exclusive, Busy, LocalsAgree
    <3>3. QED
      BY <3>1, <3>2 DEF LocalsAgree
  <2>4. QED
    BY <2>1, <2>2, <2>3
<1>4. QED
  BY <1>1, <1>2, <1>3 DEF IInv

\* Where a wake-up leaves workers and main.
LEMMA WakingIsQuiet ==
  ASSUME TypeOK
  PROVE  /\ WokenWorkers \in [Workers -> WorkerStates]
         /\ \A w \in Workers :
              \/ WokenWorkers[w] = worker[w]
              \/ WokenWorkers[w].at \notin InProcess \cup {"release"}
         /\ WokenMain \in {"down", "sweep", "enqueue", "serve"} \cup StopStates
<1>1. MaxStep \in Nat
  BY ObserverAssumption
<1>2. Idle("take") \in WorkerStates /\ Idle("take").at = "take"
  BY <1>1 DEF Idle, WorkerStates
<1>3. \A w \in Workers : worker[w] \in WorkerStates
  BY DEF TypeOK
<1>4. WokenWorkers \in [Workers -> WorkerStates]
  BY <1>2, <1>3 DEF WokenWorkers
<1>5. \A w \in Workers : WokenWorkers[w] \in {worker[w], Idle("take")}
  BY DEF WokenWorkers
<1>6. WokenMain \in {"down", "sweep", "enqueue", "serve"} \cup StopStates
  BY DEF WokenMain, TypeOK, StopStates
<1>7. QED
  BY <1>2, <1>4, <1>5, <1>6 DEF InProcess

\* A step that writes no row of the observer, takes no session and lets nobody
\* go on but out of process.
LEMMA QuietStep ==
  ASSUME IInv, TypeOK',
         UNCHANGED <<summarized, phased, stepRows, phaseRows, active>>,
         \A s \in Sessions : finalized[s] <= finalized'[s],
         \A w \in Workers :
           \/ worker'[w] = worker[w]
           \/ worker'[w].at \notin InProcess \cup {"release"}
           \/ worker'[w].at \in Handed /\ Busy(w) /\ worker'[w].key = worker[w].key
  PROVE  IInv'
<1>1. \A w \in Workers : Busy(w)' => Busy(w) /\ worker'[w].key = worker[w].key
  BY DEF Busy
<1>2. Exclusive'
  BY <1>1, KeysStand DEF IInv
<1>3. \A w \in Workers : Busy(w) => worker[w].key \in Sessions
  BY DEF IInv, Busy, LocalsAgree
<1>4. \A w \in Workers :
        \/ worker'[w] = worker[w]
        \/ worker'[w].at \notin InProcess \cup {"release"}
        \/ worker'[w].at \in Handed /\ worker'[w].key \in Sessions
  BY <1>3
<1>5. (\A s \in Sessions : RowsTell(s))' /\ (\A w \in Workers : LocalsAgree(w))'
  BY <1>4, RowsStand
<1>6. QED
  BY <1>2, <1>5 DEF IInv

\* A process that starts or ends leaves nobody at work.
LEMMA ResetStep ==
  ASSUME IInv, TypeOK', UNCHANGED store,
         \A w \in Workers : worker'[w].at \in {"off", "take"}
  PROVE  IInv'
<1>1. Exclusive'
  BY DEF Exclusive, Busy, InProcess
<1>2. \A s \in Sessions : finalized[s] <= finalized'[s]
  BY ObserverAssumption DEF IInv, TypeOK, store
<1>3. \A w \in Workers : worker'[w].at \notin InProcess \cup {"release"}
  BY DEF InProcess
<1>4. (\A s \in Sessions : RowsTell(s))' /\ (\A w \in Workers : LocalsAgree(w))'
  BY <1>2, <1>3, RowsStand DEF store
<1>5. QED
  BY <1>1, <1>4 DEF IInv

\* What a worker holds, from the invariant.
LEMMA AtWork ==
  ASSUME IInv, NEW w \in Workers, worker[w].at \in InProcess \cup {"release"}
  PROVE  /\ Busy(w) /\ worker[w].key \in Sessions /\ worker[w] \in WorkerStates
         /\ LocalsAgree(w) /\ RowsTell(worker[w].key)
BY DEF IInv, Busy, LocalsAgree, TypeOK

\* The actions of the session goroutines.
LEMMA SessionsInv ==
  ASSUME IInv, NEW s \in Sessions, FinalizeStep(s) \/ ChangeStatus(s) \/ Listen(s)
  PROVE  IInv'
<1>1. MaxStep \in Nat /\ TypeOK
  BY ObserverAssumption DEF IInv
<1>2. CASE FinalizeStep(s)
  <2>1. TypeOK'
    BY <1>1, <1>2 DEF FinalizeStep, TypeOK, process, memory, history
  <2>2. \A t \in Sessions : finalized[t] <= finalized'[t]
    BY <1>1, <1>2 DEF FinalizeStep, TypeOK
  <2>3. QED
    BY <1>2, <2>1, <2>2, QuietStep DEF FinalizeStep, memory
<1>3. CASE ChangeStatus(s)
  <2>1. TypeOK'
    BY <1>1, <1>3 DEF ChangeStatus, TypeOK, StatusesOf, process, memory
  <2>2. \A t \in Sessions : finalized[t] <= finalized'[t]
    BY <1>1, <1>3 DEF ChangeStatus, TypeOK
  <2>3. QED
    BY <1>3, <2>1, <2>2, QuietStep DEF ChangeStatus, memory
<1>4. CASE Listen(s)
  <2>1. /\ worker' \in [Workers -> WorkerStates] /\ pending' \subseteq Sessions
        /\ main' \in {"down", "sweep", "enqueue", "serve"} \cup StopStates
        /\ \A w \in Workers :
             worker'[w] = worker[w] \/ worker'[w].at \notin InProcess \cup {"release"}
    BY <1>1, <1>4, WakingIsQuiet DEF Listen, enqueue, TypeOK
  <2>2. TypeOK'
    BY <1>1, <1>4, <2>1 DEF Listen, TypeOK, store, history
  <2>3. \A t \in Sessions : finalized[t] <= finalized'[t]
    BY <1>1, <1>4 DEF Listen, TypeOK, store
  <2>4. QED
    BY <1>4, <2>1, <2>2, <2>3, QuietStep DEF Listen, store
<1>5. QED
  BY <1>2, <1>3, <1>4

\* A process that was told to stop has the bound's ends left.
EndsLeft == main \in StopStates => ends < MaxEnds

\* Only BeginStop enters the stop's states, and only the end of a process counts.
LEMMA EndsLeftInv == EndsLeft /\ [Next]_vars => EndsLeft'
<1> SUFFICES ASSUME EndsLeft, [Next]_vars PROVE EndsLeft'
  OBVIOUS
<1> USE DEF EndsLeft, StopStates
<1>1. CASE UNCHANGED vars
  BY <1>1 DEF vars, process
<1>2. ASSUME NEW s \in Sessions, FinalizeStep(s) \/ ChangeStatus(s) \/ Listen(s)
      PROVE  EndsLeft'
  BY <1>2 DEF FinalizeStep, ChangeStatus, Listen, enqueue, WokenMain, process
<1>3. ASSUME NEW w \in Workers, Work(w) \/ StoreFails(w) PROVE EndsLeft'
  BY <1>3 DEF StoreFails, Work, TakePending, WaitForWork, ReadSession, SummarizeStep,
              SetLastSummarizedStep, ReadCursors, WritePhase, SetLastPhasedStep,
              maybeFinalize, Abandon, Release, WokenMain, process
<1>4. CASE MainSteps
  BY <1>4 DEF MainSteps, SweepAtStart, SweepAtStop, Sweep, EnqueueSwept, enqueue,
              SweepDone, Drain, Join, ProcessEnds, WokenMain
<1>5. CASE Start \/ BeginStop \/ CancelContext \/ BroadcastCancel \/ Crash
  BY <1>5 DEF Start, BeginStop, CancelContext, BroadcastCancel, Crash, ProcessEnds,
              WokenMain
<1>6. QED
  BY <1>1, <1>2, <1>3, <1>4, <1>5 DEF Next

\* The actions of main and of the one that broadcasts.
LEMMA MainInv ==
  ASSUME IInv, EndsLeft,
         MainSteps \/ Start \/ BeginStop \/ CancelContext \/ BroadcastCancel \/ Crash
  PROVE  IInv'
<1>1. MaxStep \in Nat /\ MaxEnds \in Nat /\ TypeOK
  BY ObserverAssumption DEF IInv
<1>2. Idle("take") \in WorkerStates /\ Idle("off") \in WorkerStates
      /\ Idle("take").at = "take" /\ Idle("off").at = "off"
  BY <1>1 DEF Idle, WorkerStates
<1>3. ASSUME UNCHANGED store PROVE \A t \in Sessions : finalized[t] <= finalized'[t]
  BY <1>1, <1>3 DEF TypeOK, store
<1>4. CASE SweepAtStart \/ SweepAtStop
  <2>1. TypeOK'
    BY <1>1, <1>4 DEF SweepAtStart, SweepAtStop, Sweep, Dirty, TypeOK, StopStates,
                      store, memory
  <2>2. QED
    BY <1>3, <1>4, <2>1, QuietStep DEF SweepAtStart, SweepAtStop, Sweep, store, memory
<1>5. CASE EnqueueSwept
  <2>1. /\ worker' \in [Workers -> WorkerStates] /\ pending' \subseteq Sessions
        /\ main' \in {"down", "sweep", "enqueue", "serve"} \cup StopStates
        /\ \A w \in Workers :
             worker'[w] = worker[w] \/ worker'[w].at \notin InProcess \cup {"release"}
    BY <1>1, <1>5, WakingIsQuiet DEF EnqueueSwept, enqueue, TypeOK
  <2>2. TypeOK'
    BY <1>1, <1>5, <2>1 DEF EnqueueSwept, TypeOK, store, history
  <2>3. QED
    BY <1>3, <1>5, <2>1, <2>2, QuietStep DEF EnqueueSwept, store
<1>6. CASE SweepDone
  <2>1. reported' \in BOOLEAN /\ dropped' \subseteq Sessions
    BY <1>1, <1>6 DEF SweepDone, TypeOK, Sessions
  <2>2. TypeOK'
    BY <1>1, <1>6, <2>1 DEF SweepDone, TypeOK, StopStates, store, memory
  <2>3. QED
    BY <1>3, <1>6, <2>2, QuietStep DEF SweepDone, store, memory
<1>7. CASE Drain
  <2>1. /\ worker' \in [Workers -> WorkerStates]
        /\ \A w \in Workers :
             worker'[w] = worker[w] \/ worker'[w].at \notin InProcess \cup {"release"}
    BY <1>1, <1>7, WakingIsQuiet DEF Drain, TypeOK
  <2>2. closed' \in BOOLEAN /\ main' \in StopStates
    BY <1>1, <1>7 DEF Drain, TypeOK, StopStates
  <2>3. TypeOK'
    BY <1>1, <1>7, <2>1, <2>2 DEF Drain, TypeOK, store, history
  <2>4. QED
    BY <1>3, <1>7, <2>1, <2>3, QuietStep DEF Drain, store
<1>8. CASE Start
  <2>1. TypeOK'
    BY <1>1, <1>2, <1>8 DEF Start, TypeOK, store, history
  <2>2. \A w \in Workers : worker'[w].at \in {"off", "take"}
    BY <1>2, <1>8 DEF Start
  <2>3. QED
    BY <1>8, <2>1, <2>2, ResetStep DEF Start
<1>9. CASE Join \/ Crash
  <2>1. ProcessEnds /\ ends < MaxEnds
    BY <1>9 DEF Join, Crash, EndsLeft, StopStates
  <2>2. TypeOK'
    <3>1. worker' \in [Workers -> WorkerStates] /\ atStop' \in [Sessions -> 0..MaxStep]
      BY <1>1, <1>2, <2>1 DEF ProcessEnds
    <3>2. ends' \in 0..MaxEnds
      BY <1>1, <2>1 DEF ProcessEnds, TypeOK
    <3>3. closed' \in BOOLEAN /\ reported' \in BOOLEAN /\ dropped' = {} /\ torn' = {}
      BY <2>1 DEF ProcessEnds
    <3>4. QED
      BY <1>1, <2>1, <3>1, <3>2, <3>3 DEF ProcessEnds, TypeOK, store
  <2>3. \A w \in Workers : worker'[w].at \in {"off", "take"}
    BY <1>2, <2>1 DEF ProcessEnds
  <2>4. QED
    BY <2>1, <2>2, <2>3, ResetStep DEF ProcessEnds
<1>10. CASE BeginStop \/ CancelContext
  <2>1. TypeOK'
    BY <1>1, <1>10 DEF BeginStop, CancelContext, TypeOK, StopStates, store, memory, history
  <2>2. QED
    BY <1>3, <1>10, <2>1, QuietStep DEF BeginStop, CancelContext, store, memory
<1>11. CASE BroadcastCancel
  <2>1. TypeOK'
    BY <1>1, <1>11, WakingIsQuiet DEF BroadcastCancel, TypeOK, store, memory, history
  <2>2. QED
    BY <1>1, <1>3, <1>11, <2>1, WakingIsQuiet, QuietStep DEF BroadcastCancel, store, memory
<1>12. QED
  BY <1>4, <1>5, <1>6, <1>7, <1>8, <1>9, <1>10, <1>11 DEF MainSteps

\* A worker's locals when it takes or leaves a session.
LEMMA KeyedWorker ==
  ASSUME NEW a \in InProcess \cup {"release"}, NEW s \in Sessions
  PROVE  LET x == [Idle(a) EXCEPT !.key = s]
         IN  x \in WorkerStates /\ x.at = a /\ x.key = s
<1>1. 0 \in 0..MaxStep
  BY ObserverAssumption
<1>2. PICK r : r = Idle(a)
  OBVIOUS
<1>3. r \in WorkerStates /\ r.at = a
  BY <1>1, <1>2 DEF Idle, WorkerStates
<1>4. [r EXCEPT !.key = s] \in WorkerStates
  BY <1>3 DEF WorkerStates
<1>5. [r EXCEPT !.key = s].at = a /\ [r EXCEPT !.key = s].key = s
  BY <1>3 DEF WorkerStates
<1>6. QED
  BY <1>2, <1>4, <1>5

\* The actions of the workers.
LEMMA WorkInv ==
  ASSUME IInv, NEW w \in Workers, Work(w) \/ StoreFails(w)
  PROVE  IInv'
<1>0. PICK s, me : s = worker[w].key /\ me = worker[w]
  OBVIOUS
<1> USE <1>0
<1>1. MaxStep \in Nat /\ HardCap \in Nat \ {0} /\ TypeOK /\ Exclusive
  BY ObserverAssumption DEF IInv
<1>2. /\ me \in WorkerStates /\ me.done \in 0..MaxStep /\ me.upto \in 0..MaxStep
      /\ me.end \in 0..MaxStep
  BY <1>1 DEF TypeOK, WorkerStates
<1>3. ASSUME UNCHANGED store PROVE \A t \in Sessions : finalized[t] <= finalized'[t]
  BY <1>1, <1>3 DEF TypeOK, store
<1>4. CASE TakePending(w)
  <2>1. PICK t \in Takeable : /\ pending' = pending \ {t} /\ active' = active \cup {t}
                              /\ dropped' = dropped \ {t}
                              /\ worker' = [worker EXCEPT ![w] = [Idle("read") EXCEPT !.key = t]]
    BY <1>4 DEF TakePending
  <2>2. t \in Sessions /\ t \notin active
    BY <1>1, <2>1 DEF Takeable, TypeOK
  <2>3. /\ [Idle("read") EXCEPT !.key = t] \in WorkerStates
        /\ [Idle("read") EXCEPT !.key = t].at = "read"
        /\ [Idle("read") EXCEPT !.key = t].key = t
    BY <1>1, <2>2, KeyedWorker DEF InProcess
  <2>4. /\ worker' \in [Workers -> WorkerStates] /\ worker'[w].at = "read"
        /\ worker'[w].key = t /\ \A v \in Workers \ {w} : worker'[v] = worker[v]
    BY <1>1, <2>1, <2>3 DEF TypeOK
  <2>5. TypeOK'
    BY <1>1, <1>4, <2>1, <2>2, <2>4 DEF TakePending, TypeOK, store, process
  <2>6. Exclusive'
    BY <1>1, <2>1, <2>2, <2>4 DEF Exclusive, Busy
  <2>7. \A v \in Workers :
          \/ worker'[v] = worker[v]
          \/ worker'[v].at \in Handed /\ worker'[v].key \in Sessions
    BY <2>2, <2>4 DEF Handed
  <2>8. (\A x \in Sessions : RowsTell(x))' /\ (\A v \in Workers : LocalsAgree(v))'
    BY <1>3, <1>4, <2>5, <2>7, RowsStand DEF TakePending, store
  <2>9. QED
    BY <2>5, <2>6, <2>8 DEF IInv
<1>5. CASE WaitForWork(w)
  <2>1. /\ worker' \in [Workers -> WorkerStates] /\ worker'[w].at \in {"quit", "asleep"}
        /\ \A v \in Workers \ {w} : worker'[v] = worker[v]
    BY <1>1, <1>2, <1>5 DEF WaitForWork, Goto, TypeOK, WorkerStates
  <2>2. TypeOK'
    BY <1>1, <1>5, <2>1 DEF WaitForWork, TypeOK, store, process, memory, history
  <2>3. \A v \in Workers :
          worker'[v] = worker[v] \/ worker'[v].at \notin InProcess \cup {"release"}
    BY <2>1 DEF InProcess
  <2>4. QED
    BY <1>3, <1>5, <2>2, <2>3, QuietStep DEF WaitForWork, store, memory
<1>6. CASE maybeFinalize(w) \/ Abandon(w) \/ StoreFails(w)
  <2>1. PICK a \in Handed : me.at \in InProcess /\ Return(w, a)
    BY <1>6 DEF maybeFinalize, Working, Abandon, InProcess, Handed, StoreFails,
                GiveUpSteps, GiveUpPhases, GiveUpReport, StepsOver
  <2>2. Busy(w) /\ s \in Sessions
    BY <2>1, AtWork DEF Busy
  <2>3. /\ [Idle(a) EXCEPT !.key = s] \in WorkerStates
        /\ [Idle(a) EXCEPT !.key = s].at = a
        /\ [Idle(a) EXCEPT !.key = s].key = s
    BY <1>1, <2>2, KeyedWorker DEF Handed, InProcess
  <2>4. /\ worker' \in [Workers -> WorkerStates] /\ worker'[w].at \in Handed
        /\ worker'[w].key = s /\ \A v \in Workers \ {w} : worker'[v] = worker[v]
    BY <1>1, <2>1, <2>3 DEF Return, TypeOK
  <2>5. /\ reported' \in BOOLEAN /\ dropped' \subseteq Sessions /\ torn' \subseteq Sessions
        /\ UNCHANGED <<store, process, owed, memory, atStop>>
    BY <1>1, <1>6, <2>2 DEF maybeFinalize, Abandon, StoreFails, GiveUpSteps, GiveUpPhases,
                            GiveUpReport, history, TypeOK
  <2>6. TypeOK'
    BY <1>1, <2>4, <2>5 DEF TypeOK, store, process, memory
  <2>7. QED
    BY <1>3, <2>2, <2>4, <2>5, <2>6, QuietStep DEF store, memory
<1>7. CASE Release(w)
  <2>1. me.at = "release" /\ Busy(w) /\ s \in Sessions
    BY <1>7, AtWork DEF Release, Busy
  <2>2. Idle("take") \in WorkerStates /\ Idle("take").at = "take"
    BY <1>1 DEF Idle, WorkerStates
  <2>3. /\ worker' \in [Workers -> WorkerStates] /\ worker'[w].at = "take"
        /\ \A v \in Workers \ {w} : worker'[v] = WokenWorkers[v]
    BY <1>1, <1>7, <2>2, WakingIsQuiet DEF Release
  <2>4. TypeOK'
    BY <1>1, <1>7, <2>3, WakingIsQuiet DEF Release, TypeOK, store, history
  <2>5. \A v \in Workers :
          worker'[v] = worker[v] \/ worker'[v].at \notin InProcess \cup {"release"}
    BY <1>1, <2>3, WakingIsQuiet DEF InProcess
  <2>6. Exclusive'
    <3>1. ~Busy(w)' /\ \A v \in Workers : Busy(v)' => Busy(v) /\ worker'[v] = worker[v]
      BY <2>3, <2>5 DEF Busy, InProcess
    <3>2. ASSUME NEW v \in Workers, Busy(v)' PROVE worker'[v].key \in active'
      BY <1>1, <1>7, <2>1, <3>1, <3>2 DEF Exclusive, Release
    <3>3. QED
      BY <1>1, <3>1, <3>2 DEF Exclusive
  <2>7. (\A x \in Sessions : RowsTell(x))' /\ (\A v \in Workers : LocalsAgree(v))'
    BY <1>3, <1>7, <2>4, <2>5, RowsStand DEF Release, store
  <2>8. QED
    BY <2>4, <2>6, <2>7 DEF IInv
<1>8. CASE /\ me.at \in InProcess
           /\ \/ ReadSession(w) \/ SummarizeStep(w) \/ SetLastSummarizedStep(w)
              \/ ReadCursors(w) \/ WritePhase(w) \/ SetLastPhasedStep(w)
  <2>1. /\ Busy(w) /\ s \in Sessions /\ LocalsAgree(w) /\ RowsTell(s)
    BY <1>8, AtWork
  <2>2. /\ finalized[s] \in 0..MaxStep /\ summarized[s] \in 0..MaxStep
        /\ phased[s] \in 0..MaxStep /\ stepRows[s] \in SUBSET (1..MaxStep)
        /\ phaseRows[s] \in SUBSET Phases
    BY <1>1, <2>1 DEF TypeOK
  <2> DEFINE Onward == /\ TypeOK' /\ Busy(w)'
                       /\ worker'[w].key = s /\ UNCHANGED <<active, finalized>>
                       /\ \A v \in Workers \ {w} : worker'[v] = worker[v]
                       /\ \A x \in Sessions \ {s} :
                            /\ summarized'[x] = summarized[x] /\ phased'[x] = phased[x]
                            /\ stepRows'[x] = stepRows[x] /\ phaseRows'[x] = phaseRows[x]
                       /\ RowsTell(s)' /\ LocalsAgree(w)'
  <2>3. CASE ReadSession(w)
    <3>1. worker' = [worker EXCEPT ![w] =
            [me EXCEPT !.at = "steps", !.done = summarized[s], !.upto = finalized[s]]]
      BY <1>1, <2>3 DEF ReadSession, TypeOK
    <3>2. worker' \in [Workers -> WorkerStates] /\ worker'[w].at = "steps"
          /\ worker'[w].key = s /\ worker'[w].done = summarized[s]
          /\ worker'[w].upto = finalized[s] /\ \A v \in Workers \ {w} : worker'[v] = worker[v]
      BY <1>1, <1>2, <2>2, <3>1 DEF TypeOK, WorkerStates, InProcess
    <3>3. TypeOK'
      BY <1>1, <2>3, <3>2 DEF ReadSession, TypeOK, store, process, memory, history
    <3>4. RowsTell(s)'
      BY <2>1, <2>3 DEF ReadSession, RowsTell, store
    <3>5. LocalsAgree(w)'
      BY <2>1, <2>2, <2>3, <3>2 DEF LocalsAgree, ReadSession, store, InProcess
    <3>6. Onward
      BY <2>3, <3>2, <3>3, <3>4, <3>5 DEF ReadSession, store, memory, Busy, InProcess
    <3>7. QED
      BY <2>1, <3>6, OthersStand
  <2>4. CASE SummarizeStep(w)
    <3>1. me.at = "steps" /\ me.done < me.upto /\ me.done + 1 \in 1..MaxStep
      BY <1>1, <1>2, <2>4 DEF SummarizeStep, Working
    <3>2. worker' \in [Workers -> WorkerStates] /\ worker'[w].at = "bump"
          /\ worker'[w].key = s /\ worker'[w].done = me.done
          /\ worker'[w].upto = me.upto /\ \A v \in Workers \ {w} : worker'[v] = worker[v]
      BY <1>1, <1>2, <2>4 DEF SummarizeStep, Goto, TypeOK, WorkerStates, InProcess
    <3>3. stepRows' \in [Sessions -> SUBSET (1..MaxStep)]
          /\ stepRows'[s] = stepRows[s] \cup {me.done + 1}
          /\ \A x \in Sessions \ {s} : stepRows'[x] = stepRows[x]
      BY <1>1, <2>1, <2>4, <3>1 DEF SummarizeStep, TypeOK
    <3>4. TypeOK'
      BY <1>1, <2>4, <3>2, <3>3 DEF SummarizeStep, TypeOK, process, memory, history
    <3>5. RowsTell(s)'
      BY <2>1, <2>4, <3>3 DEF SummarizeStep, RowsTell
    <3>6. LocalsAgree(w)'
      BY <2>1, <2>2, <2>4, <3>1, <3>2, <3>3 DEF LocalsAgree, SummarizeStep, InProcess
    <3>7. Onward
      BY <2>4, <3>2, <3>3, <3>4, <3>5, <3>6 DEF SummarizeStep, memory, Busy, InProcess
    <3>8. QED
      BY <2>1, <3>7, OthersStand
  <2>5. CASE SetLastSummarizedStep(w)
    <3>1. /\ me.at = "bump" /\ me.done = summarized[s] /\ me.done < me.upto
          /\ me.upto <= finalized[s] /\ me.done + 1 \in stepRows[s]
      BY <2>1, <2>5 DEF SetLastSummarizedStep, Working, LocalsAgree
    <3>2. worker' = [worker EXCEPT ![w] = [me EXCEPT !.at = "steps", !.done = me.done + 1]]
      BY <1>1, <2>5 DEF SetLastSummarizedStep, TypeOK
    <3>3. worker' \in [Workers -> WorkerStates] /\ worker'[w].at = "steps"
          /\ worker'[w].key = s /\ worker'[w].done = me.done + 1
          /\ worker'[w].upto = me.upto /\ \A v \in Workers \ {w} : worker'[v] = worker[v]
      <4>1. me.done + 1 \in 0..MaxStep
        BY <1>1, <1>2, <3>1
      <4>2. QED
        BY <1>1, <1>2, <3>2, <4>1 DEF TypeOK, WorkerStates, InProcess
    <3>4. summarized' = [summarized EXCEPT ![s] = me.done + 1]
      <4>1. Larger(summarized[s], me.done + 1) = me.done + 1
        BY <2>2, <3>1 DEF Larger
      <4>2. QED
        BY <2>5, <4>1 DEF SetLastSummarizedStep
    <3>5. summarized' \in [Sessions -> 0..MaxStep] /\ summarized'[s] = me.done + 1
          /\ \A x \in Sessions \ {s} : summarized'[x] = summarized[x]
      BY <1>1, <1>2, <2>1, <3>1, <3>4 DEF TypeOK
    <3>6. TypeOK'
      BY <1>1, <2>5, <3>3, <3>5 DEF SetLastSummarizedStep, TypeOK, process, memory, history
    <3>7. RowsTell(s)'
      BY <1>2, <2>1, <2>2, <2>5, <3>1, <3>5 DEF SetLastSummarizedStep, RowsTell
    <3>8. LocalsAgree(w)'
      BY <1>2, <2>1, <2>2, <2>5, <3>1, <3>3, <3>5
      DEF LocalsAgree, SetLastSummarizedStep, InProcess
    <3>9. Onward
      BY <2>5, <3>3, <3>5, <3>6, <3>7, <3>8
      DEF SetLastSummarizedStep, memory, Busy, InProcess
    <3>10. QED
      BY <2>1, <3>9, OthersStand
  <2>6. CASE ReadCursors(w)
    <3>1. Settled(s) \in BOOLEAN
      BY DEF Settled, IsSpine
    <3>2. worker' = [worker EXCEPT ![w] =
            [me EXCEPT !.at = "close", !.done = phased[s], !.upto = summarized[s],
                       !.force = Settled(s)]]
      BY <1>1, <2>6 DEF ReadCursors, TypeOK
    <3>3. worker' \in [Workers -> WorkerStates] /\ worker'[w].at = "close"
          /\ worker'[w].key = s /\ worker'[w].done = phased[s]
          /\ worker'[w].upto = summarized[s] /\ \A v \in Workers \ {w} : worker'[v] = worker[v]
      BY <1>1, <1>2, <2>2, <3>1, <3>2 DEF TypeOK, WorkerStates, InProcess
    <3>4. TypeOK'
      BY <1>1, <2>6, <3>3 DEF ReadCursors, TypeOK, store, process, memory, history
    <3>5. RowsTell(s)'
      BY <2>1, <2>6 DEF ReadCursors, RowsTell, store
    <3>6. LocalsAgree(w)'
      BY <2>1, <2>2, <2>6, <3>3 DEF LocalsAgree, ReadCursors, store, InProcess
    <3>7. Onward
      BY <2>6, <3>3, <3>4, <3>5, <3>6 DEF ReadCursors, store, memory, Busy, InProcess
    <3>8. QED
      BY <2>1, <3>7, OthersStand
  <2>7. CASE WritePhase(w)
    <3>1. me.at = "close" /\ me.done < me.upto /\ me.done = phased[s] /\ me.upto <= summarized[s]
      BY <2>1, <2>7 DEF WritePhase, Working, PhaseDue, LocalsAgree
    <3>2. PICK e \in EndSteps(me.done, ChunkEnd(me.done, me.upto), me.force) :
            /\ phaseRows' = [phaseRows EXCEPT ![s] =
                 {p \in @ : p.to # e} \cup {[from |-> me.done + 1, to |-> e]}]
            /\ worker' = [worker EXCEPT ![w].at = "cursor", ![w].end = e]
      BY <2>7 DEF WritePhase
    <3>3. ChunkEnd(me.done, me.upto) \in (me.done + 1)..me.upto
      BY <1>1, <1>2, <3>1 DEF ChunkEnd, Smaller
    <3>4. e \in (me.done + 1)..me.upto
      BY <1>1, <1>2, <3>1, <3>2, <3>3 DEF EndSteps
    <3>5. e \in 1..MaxStep /\ me.done < e /\ e <= summarized[s]
      BY <1>1, <1>2, <2>2, <3>1, <3>4
    <3>6. worker' = [worker EXCEPT ![w] = [me EXCEPT !.at = "cursor", !.end = e]]
      BY <1>1, <3>2 DEF TypeOK
    <3>7. worker' \in [Workers -> WorkerStates] /\ worker'[w].at = "cursor"
          /\ worker'[w].key = s /\ worker'[w].done = me.done
          /\ worker'[w].end = e /\ worker'[w].upto = me.upto
          /\ \A v \in Workers \ {w} : worker'[v] = worker[v]
      <4>1. e \in 0..MaxStep
        BY <1>1, <3>5
      <4>2. QED
        BY <1>1, <1>2, <3>6, <4>1 DEF TypeOK, WorkerStates, InProcess
    <3> DEFINE new == {p \in phaseRows[s] : p.to # e} \cup {[from |-> me.done + 1, to |-> e]}
    <3>8. /\ new \in SUBSET Phases /\ PrefixTold(new)
          /\ \A n \in 1..phased[s] : \E p \in new :
               p.from <= n /\ n <= p.to /\ p.to <= phased[s]
      <4>1. /\ PrefixTold(phaseRows[s])
            /\ \A n \in 1..phased[s] : \E p \in phaseRows[s] :
                 p.from <= n /\ n <= p.to /\ p.to <= phased[s]
        BY <2>1 DEF RowsTell
      <4>2. me.done \in 0..MaxStep /\ e \in 1..MaxStep /\ me.done < e
            /\ phaseRows[s] \in SUBSET Phases
        BY <2>2, <3>1, <3>5
      <4>3. \A n \in 1..me.done : \E p \in phaseRows[s] :
              p.from <= n /\ n <= p.to /\ p.to <= me.done
        BY <3>1, <4>1
      <4>4. /\ new \in SUBSET Phases /\ PrefixTold(new)
            /\ \A n \in 1..me.done : \E p \in new :
                 p.from <= n /\ n <= p.to /\ p.to <= me.done
        BY <4>1, <4>2, <4>3, PhaseExtends
      <4>5. QED
        BY <3>1, <4>4
    <3>9. phaseRows' \in [Sessions -> SUBSET Phases] /\ phaseRows'[s] = new
          /\ \A x \in Sessions \ {s} : phaseRows'[x] = phaseRows[x]
      BY <1>1, <2>1, <3>2, <3>8 DEF TypeOK
    <3>10. TypeOK'
      BY <1>1, <2>7, <3>7, <3>9 DEF WritePhase, TypeOK, process, memory, history
    <3>11. RowsTell(s)'
      BY <2>1, <2>7, <3>8, <3>9 DEF WritePhase, RowsTell
    <3>12. LocalsAgree(w)'
      BY <2>1, <2>7, <3>1, <3>5, <3>7, <3>9 DEF LocalsAgree, WritePhase, InProcess
    <3>13. Onward
      BY <2>7, <3>7, <3>9, <3>10, <3>11, <3>12 DEF WritePhase, memory, Busy, InProcess
    <3>14. QED
      BY <2>1, <3>13, OthersStand
  <2>8. CASE SetLastPhasedStep(w)
    <3>1. /\ me.at = "cursor" /\ me.done = phased[s] /\ me.done < me.end
          /\ me.end <= summarized[s] /\ me.upto <= summarized[s]
          /\ [from |-> me.done + 1, to |-> me.end] \in phaseRows[s]
      BY <2>1, <2>8 DEF SetLastPhasedStep, Working, LocalsAgree
    <3>2. worker' = [worker EXCEPT ![w] =
            [me EXCEPT !.at = "close", !.done = me.end, !.end = 0]]
      BY <1>1, <2>8 DEF SetLastPhasedStep, TypeOK
    <3>3. phased' = [phased EXCEPT ![s] = me.end]
      <4>1. Larger(phased[s], me.end) = me.end
        BY <1>2, <2>2, <3>1 DEF Larger
      <4>2. QED
        BY <2>8, <4>1 DEF SetLastPhasedStep
    <3>4. phased' \in [Sessions -> 0..MaxStep] /\ phased'[s] = me.end
          /\ \A x \in Sessions \ {s} : phased'[x] = phased[x]
      BY <1>1, <1>2, <2>1, <3>3 DEF TypeOK
    <3>5. worker' \in [Workers -> WorkerStates] /\ worker'[w].at = "close"
          /\ worker'[w].key = s /\ worker'[w].done = me.end
          /\ worker'[w].upto = me.upto /\ \A v \in Workers \ {w} : worker'[v] = worker[v]
      <4>1. 0 \in 0..MaxStep
        BY <1>1
      <4>2. QED
        BY <1>1, <1>2, <3>2, <4>1 DEF TypeOK, WorkerStates, InProcess
    <3>6. TypeOK'
      BY <1>1, <2>8, <3>4, <3>5 DEF SetLastPhasedStep, TypeOK, process, memory, history
    <3> DEFINE row == [from |-> me.done + 1, to |-> me.end]
    <3>7. RowsTell(s)'
      <4>1. /\ phased[s] <= summarized[s] /\ summarized[s] <= finalized[s]
            /\ 1..summarized[s] \subseteq stepRows[s] /\ PrefixTold(phaseRows[s])
            /\ \A n \in 1..phased[s] : \E p \in phaseRows[s] :
                 p.from <= n /\ n <= p.to /\ p.to <= phased[s]
        BY <2>1 DEF RowsTell
      <4>2. ASSUME NEW n \in 1..me.end
            PROVE  \E p \in phaseRows[s] : p.from <= n /\ n <= p.to /\ p.to <= me.end
        <5>1. row \in phaseRows[s] /\ row.to = me.end
          BY <3>1
        <5>2. PrefixTold(phaseRows[s])
          BY <4>1
        <5>3. QED
          BY <4>2, <5>1, <5>2 DEF PrefixTold
      <4>3. UNCHANGED <<finalized, summarized, stepRows, phaseRows>>
        BY <2>8 DEF SetLastPhasedStep
      <4>4. QED
        BY <3>1, <3>4, <4>1, <4>2, <4>3 DEF RowsTell
    <3>8. LocalsAgree(w)'
      BY <2>1, <2>8, <3>1, <3>4, <3>5 DEF LocalsAgree, SetLastPhasedStep, InProcess
    <3>9. Onward
      BY <2>8, <3>4, <3>5, <3>6, <3>7, <3>8 DEF SetLastPhasedStep, memory, Busy, InProcess
    <3>10. QED
      BY <2>1, <3>9, OthersStand
  <2>9. QED
    BY <1>8, <2>3, <2>4, <2>5, <2>6, <2>7, <2>8
<1>9. QED
  BY <1>4, <1>5, <1>6, <1>7, <1>8 DEF Work, ReadSession, SummarizeStep, StepsOver,
     SetLastSummarizedStep, ReadCursors, WritePhase, SetLastPhasedStep, Working, InProcess

-----------------------------------------------------------------------------
\* The theorems.

\* Every step of the workers, the sessions, the hooks and the process keeps
\* the invariant.
LEMMA NextInv == IInv /\ EndsLeft /\ [Next]_vars => IInv'
<1> SUFFICES ASSUME IInv, EndsLeft, [Next]_vars PROVE IInv'
  OBVIOUS
<1>1. CASE UNCHANGED vars
  <2>1. TypeOK'
    BY <1>1 DEF IInv, TypeOK, vars, store, process, memory, history
  <2>2. \A s \in Sessions : finalized[s] <= finalized'[s]
    BY <1>1, ObserverAssumption DEF IInv, TypeOK, vars, store
  <2>3. QED
    BY <1>1, <2>1, <2>2, QuietStep DEF vars, store, memory
<1>2. CASE \E s \in Sessions : FinalizeStep(s) \/ ChangeStatus(s) \/ Listen(s)
  BY <1>2, SessionsInv
<1>3. CASE \E w \in Workers : Work(w) \/ StoreFails(w)
  BY <1>3, WorkInv
<1>4. CASE MainSteps \/ Start \/ BeginStop \/ CancelContext \/ BroadcastCancel \/ Crash
  BY <1>4, MainInv
<1>5. QED
  BY <1>1, <1>2, <1>3, <1>4 DEF Next

\* The inductive invariant holds in every reachable state.
THEOREM Invariance == Spec => [](IInv /\ EndsLeft)
<1>1. Init => EndsLeft
  BY DEF Init, EndsLeft, StopStates
<1>2. QED
  BY <1>1, InitInv, NextInv, EndsLeftInv, PTL DEF Spec

\* The types the model declares for the rows, the cursors and the observer's
\* memory (types.go, observer.go).
THEOREM TypeCorrect == Spec => []TypeOK
<1>1. IInv => TypeOK
  BY DEF IInv
<1>2. QED
  BY <1>1, Invariance, PTL

\* Never two workers on one session, which the cursors' protocol relies on: a
\* worker re-reads nothing between its summarizer call and the cursor's write
\* (the active set of observer.go, through wake-ups, stops and crashes).
THEOREM OneWorkerPerSession == Spec => []Exclusive
<1>1. IInv => Exclusive
  BY DEF IInv
<1>2. QED
  BY <1>1, Invariance, PTL

\* The cursors of a session are ordered, stand for rows that exist, and the
\* trajectory and the chat miss no finalized step, for any number of sessions,
\* workers and steps, any thresholds and any number of stops and crashes.
THEOREM RowsCarryTheViews == Spec => []CursorsMatchRows
<1>1. IInv => CursorsMatchRows
  <2> SUFFICES ASSUME IInv PROVE CursorsMatchRows
    OBVIOUS
  <2>1. CursorOrder
    BY DEF IInv, RowsTell, CursorOrder
  <2>2. RowsBehindCursors
    BY DEF IInv, RowsTell, RowsBehindCursors
  <2>3. ViewsComplete
    BY ViewsFollow DEF IInv, RowsTell, ViewsComplete
  <2>4. QED
    BY <2>1, <2>2, <2>3 DEF CursorsMatchRows
<1>2. QED
  BY <1>1, Invariance, PTL
-----------------------------------------------------------------------------
\* The phases of the first process tile the steps.

\* No process has ended or was told to.
FirstLife == ends = 0 /\ ctx = "live"

\* Nothing of the observer outlives its process.
DownIsQuiet == main = "down" => ctx = "live" /\ \A w \in Workers : worker[w].at = "off"

\* A worker has written the row and not yet moved the cursor to its end.
BeingWritten(s, p) == \E w \in Workers :
  /\ worker[w].at = "cursor" /\ worker[w].key = s
  /\ p = [from |-> worker[w].done + 1, to |-> worker[w].end]

\* The phases of a session are disjoint, and only one that is being written
\* reaches past the cursor.
RowsTile(s) ==
  /\ \A p, q \in phaseRows[s] : p # q => p.to < q.from \/ q.to < p.from
  /\ \A p \in phaseRows[s] : p.to <= phased[s] \/ BeingWritten(s, p)

Tiled == FirstLife => \A s \in Sessions \ torn : RowsTile(s)

TileInv == DownIsQuiet /\ Tiled

\* Workers only start with a process, and only a process is cancelled.
LEMMA DownIsQuietInv == TypeOK /\ DownIsQuiet /\ [Next]_vars => DownIsQuiet'
<1> SUFFICES ASSUME TypeOK, DownIsQuiet, [Next]_vars PROVE DownIsQuiet'
  OBVIOUS
<1> USE DEF DownIsQuiet
<1>0. /\ WokenMain = "down" => main = "down"
      /\ \A w \in Workers : worker[w].at = "off" => WokenWorkers[w] = worker[w]
  BY DEF WokenMain, WokenWorkers
<1>1. CASE UNCHANGED vars
  BY <1>1 DEF vars, process
<1>2. ASSUME NEW s \in Sessions, FinalizeStep(s) \/ ChangeStatus(s) \/ Listen(s)
      PROVE  DownIsQuiet'
  BY <1>0, <1>2 DEF FinalizeStep, ChangeStatus, Listen, enqueue, process
<1>3. ASSUME NEW w \in Workers, Work(w) \/ StoreFails(w) PROVE DownIsQuiet'
  <2>1. worker[w].at # "off"
    BY <1>3 DEF Work, TakePending, WaitForWork, ReadSession, SummarizeStep,
                SetLastSummarizedStep, ReadCursors, WritePhase, SetLastPhasedStep,
                maybeFinalize, Abandon, Release, Working, InProcess, StepsOver,
                StoreFails, GiveUpSteps, GiveUpPhases, GiveUpReport
  <2>2. main # "down"
    BY <2>1
  <2>3. main' = main \/ main' = WokenMain
    BY <1>3 DEF Work, TakePending, WaitForWork, ReadSession, SummarizeStep,
                SetLastSummarizedStep, ReadCursors, WritePhase, SetLastPhasedStep,
                maybeFinalize, Abandon, Release, StoreFails, process
  <2>4. QED
    BY <1>0, <2>2, <2>3
<1>4. CASE MainSteps \/ Start \/ BeginStop \/ CancelContext \/ BroadcastCancel \/ Crash
  <2>1. Idle("off").at = "off"
    BY DEF Idle
  <2>2. CASE Join \/ Crash
    BY <2>1, <2>2 DEF Join, Crash, ProcessEnds
  <2>3. CASE ~(Join \/ Crash)
    <3>1. main' # "down"
      BY <1>0, <1>4, <2>3
      DEF MainSteps, SweepAtStart, SweepAtStop, Sweep, EnqueueSwept, enqueue, SweepDone,
          Drain, Start, BeginStop, CancelContext, BroadcastCancel, Up
    <3>2. QED
      BY <3>1
  <2>4. QED
    BY <2>2, <2>3
<1>5. QED
  BY <1>1, <1>2, <1>3, <1>4 DEF Next

\* A step that writes no phase and moves no cursor, and in which whoever is
\* between the two stays there.
LEMMA TilesStand ==
  ASSUME Tiled, UNCHANGED <<phased, phaseRows>>, FirstLife' => FirstLife /\ torn \subseteq torn',
         FirstLife' => \A w \in Workers :
           worker[w].at = "cursor" => worker'[w] = worker[w] \/ worker[w].key \in torn'
  PROVE  Tiled'
<1> SUFFICES ASSUME FirstLife', NEW s \in Sessions \ torn' PROVE RowsTile(s)'
  BY DEF Tiled
<1>1. /\ RowsTile(s)
      /\ \A w \in Workers :
           worker[w].at = "cursor" => worker'[w] = worker[w] \/ worker[w].key # s
  BY DEF Tiled
<1>2. \A p : BeingWritten(s, p) => BeingWritten(s, p)'
  BY <1>1 DEF BeingWritten
<1>3. QED
  BY <1>1, <1>2 DEF RowsTile

\* No wake-up disturbs a worker at the cursor.
LEMMA WakingKeepsCursors ==
  \A w \in Workers : worker[w].at = "cursor" => WokenWorkers[w] = worker[w]
BY DEF WokenWorkers

\* A session the worker is on has no other worker at its cursor.
LEMMA AloneAtCursor ==
  ASSUME IInv, NEW w \in Workers, Busy(w), NEW p, BeingWritten(worker[w].key, p)
  PROVE  worker[w].at = "cursor" /\ p = [from |-> worker[w].done + 1, to |-> worker[w].end]
<1>1. PICK v \in Workers : /\ worker[v].at = "cursor" /\ worker[v].key = worker[w].key
                           /\ p = [from |-> worker[v].done + 1, to |-> worker[v].end]
  BY DEF BeingWritten
<1>2. v = w
  BY <1>1 DEF IInv, Exclusive, Busy, InProcess
<1>3. QED
  BY <1>1, <1>2

\* A new phase starts past the cursor, where no other phase is, and replaces
\* none.
LEMMA WritePhaseTiles ==
  ASSUME IInv, Tiled, NEW w \in Workers, WritePhase(w)
  PROVE  Tiled'
<1> SUFFICES ASSUME FirstLife', NEW t \in Sessions \ torn PROVE RowsTile(t)'
  BY DEF Tiled, WritePhase, history
<1>1. FirstLife /\ \A x \in Sessions \ torn : RowsTile(x)
  BY DEF WritePhase, process, FirstLife, Tiled
<1>2. PICK s, me : s = worker[w].key /\ me = worker[w]
  OBVIOUS
<1>3. /\ me.at = "close" /\ Busy(w) /\ s \in Sessions /\ me \in WorkerStates
      /\ me.done = phased[s] /\ me.upto <= summarized[s] /\ me.done < me.upto
  <2>1. me.at = "close" /\ me.done < me.upto
    BY <1>2 DEF WritePhase, Working, PhaseDue
  <2>2. QED
    BY <1>2, <2>1, AtWork DEF LocalsAgree, InProcess
<1>4. /\ me.done \in Nat /\ me.upto \in Nat /\ HardCap \in Nat \ {0}
      /\ phaseRows[s] \in SUBSET Phases /\ phaseRows \in [Sessions -> SUBSET Phases]
      /\ worker \in [Workers -> WorkerStates]
  BY <1>3, ObserverAssumption DEF WorkerStates, IInv, TypeOK
<1>5. PICK e \in EndSteps(me.done, ChunkEnd(me.done, me.upto), me.force) :
        /\ phaseRows' = [phaseRows EXCEPT ![s] =
             {p \in @ : p.to # e} \cup {[from |-> me.done + 1, to |-> e]}]
        /\ worker' = [worker EXCEPT ![w].at = "cursor", ![w].end = e]
  BY <1>2 DEF WritePhase
<1>6. e \in Nat /\ me.done < e
  <2>1. ChunkEnd(me.done, me.upto) \in (me.done + 1)..me.upto
    BY <1>3, <1>4 DEF ChunkEnd, Smaller
  <2>2. QED
    BY <1>4, <1>5, <2>1 DEF EndSteps
<1>7. /\ worker'[w].at = "cursor" /\ worker'[w].key = s
      /\ worker'[w].done = me.done /\ worker'[w].end = e
      /\ \A v \in Workers \ {w} : worker'[v] = worker[v]
  BY <1>2, <1>4, <1>5 DEF WorkerStates
<1> DEFINE row == [from |-> me.done + 1, to |-> e]
<1>8. ASSUME t = s
      PROVE  \A p \in phaseRows[s] : p.to <= me.done /\ p.from \in Nat /\ p.to \in Nat
  <2>1. \A p \in phaseRows[s] : ~BeingWritten(s, p)
    BY <1>2, <1>3, AloneAtCursor
  <2>2. \A p \in phaseRows[s] : p.from \in Nat /\ p.to \in Nat
    BY <1>4, ObserverAssumption DEF Phases
  <2>3. QED
    BY <1>1, <1>3, <1>8, <2>1, <2>2 DEF RowsTile
<1>9. phased' = phased
  BY DEF WritePhase
<1>10. CASE t = s
  <2>1. phaseRows'[s] = phaseRows[s] \cup {row}
    <3>1. {p \in phaseRows[s] : p.to # e} = phaseRows[s]
      BY <1>4, <1>6, <1>8, <1>10
    <3>2. QED
      BY <1>3, <1>4, <1>5, <3>1
  <2>2. \A p \in phaseRows[s] : p.to < row.from
    BY <1>4, <1>8, <1>10
  <2>3. ASSUME NEW p \in phaseRows'[s], NEW q \in phaseRows'[s], p # q
        PROVE  p.to < q.from \/ q.to < p.from
    BY <1>1, <1>3, <1>10, <2>1, <2>2, <2>3 DEF RowsTile
  <2>4. BeingWritten(s, row)'
    BY <1>7 DEF BeingWritten
  <2>5. \A p \in phaseRows'[s] : p.to <= phased'[s] \/ BeingWritten(s, p)'
    BY <1>3, <1>8, <1>9, <1>10, <2>1, <2>4
  <2>6. QED
    BY <1>10, <2>3, <2>5 DEF RowsTile
<1>11. CASE t # s
  <2>1. phaseRows'[t] = phaseRows[t]
    BY <1>4, <1>5, <1>11
  <2>2. ASSUME NEW p, BeingWritten(t, p) PROVE BeingWritten(t, p)'
    BY <1>2, <1>3, <1>7, <2>2 DEF BeingWritten
  <2>3. QED
    BY <1>1, <1>9, <2>1, <2>2 DEF RowsTile
<1>12. QED
  BY <1>10, <1>11

\* The cursor goes to the end of the only phase that reached past it.
LEMMA CursorTiles ==
  ASSUME IInv, Tiled, NEW w \in Workers, SetLastPhasedStep(w)
  PROVE  Tiled'
<1> SUFFICES ASSUME FirstLife', NEW t \in Sessions \ torn PROVE RowsTile(t)'
  BY DEF Tiled, SetLastPhasedStep, history
<1>1. FirstLife /\ \A x \in Sessions \ torn : RowsTile(x)
  BY DEF SetLastPhasedStep, process, FirstLife, Tiled
<1>2. PICK s, me : s = worker[w].key /\ me = worker[w]
  OBVIOUS
<1>3. /\ me.at = "cursor" /\ Busy(w) /\ s \in Sessions /\ me \in WorkerStates
      /\ me.done = phased[s] /\ me.done < me.end
  <2>1. me.at = "cursor"
    BY <1>2 DEF SetLastPhasedStep, Working
  <2>2. QED
    BY <1>2, <2>1, AtWork DEF LocalsAgree, InProcess
<1>4. /\ me.done \in Nat /\ me.end \in Nat /\ phased \in [Sessions -> 0..MaxStep]
      /\ phaseRows[s] \in SUBSET Phases /\ worker \in [Workers -> WorkerStates]
  BY <1>3, ObserverAssumption DEF WorkerStates, IInv, TypeOK
<1>5. phaseRows' = phaseRows
  BY DEF SetLastPhasedStep
<1>6. phased'[s] = me.end /\ \A x \in Sessions \ {s} : phased'[x] = phased[x]
  <2>1. Larger(phased[s], me.end) = me.end
    BY <1>3, <1>4 DEF Larger
  <2>2. phased' = [phased EXCEPT ![s] = Larger(phased[s], me.end)]
    BY <1>2 DEF SetLastPhasedStep
  <2>3. QED
    BY <1>3, <1>4, <2>1, <2>2
<1>7. \A v \in Workers \ {w} : worker'[v] = worker[v]
  BY <1>4 DEF SetLastPhasedStep
<1>8. CASE t = s
  <2>1. ASSUME NEW p \in phaseRows[s] PROVE p.to <= phased'[s]
    <3>1. CASE p.to <= phased[s]
      <4>1. p.to \in Nat
        BY <1>4, ObserverAssumption DEF Phases
      <4>2. QED
        BY <1>3, <1>4, <1>6, <3>1, <4>1
    <3>2. CASE BeingWritten(s, p)
      <4>1. p = [from |-> me.done + 1, to |-> me.end]
        BY <1>2, <1>3, <3>2, AloneAtCursor
      <4>2. QED
        BY <1>4, <1>6, <4>1
    <3>3. QED
      BY <1>1, <1>3, <1>8, <3>1, <3>2 DEF RowsTile
  <2>2. QED
    BY <1>1, <1>5, <1>8, <2>1 DEF RowsTile
<1>9. CASE t # s
  <2>1. ASSUME NEW p, BeingWritten(t, p) PROVE BeingWritten(t, p)'
    BY <1>2, <1>7, <1>9, <2>1 DEF BeingWritten
  <2>2. phased'[t] = phased[t]
    BY <1>6, <1>9
  <2>3. QED
    BY <1>1, <1>5, <2>1, <2>2 DEF RowsTile
<1>10. QED
  BY <1>8, <1>9

\* Every step keeps the phases of a first life disjoint.
LEMMA TiledInv == IInv /\ TileInv /\ [Next]_vars => Tiled'
<1> SUFFICES ASSUME IInv, TileInv, [Next]_vars PROVE Tiled'
  OBVIOUS
<1>1. Tiled /\ DownIsQuiet /\ TypeOK
  BY DEF TileInv, IInv
<1>2. CASE UNCHANGED vars
  BY <1>1, <1>2, TilesStand DEF vars, store, process, history, FirstLife
<1>3. ASSUME NEW s \in Sessions, FinalizeStep(s) \/ ChangeStatus(s) \/ Listen(s)
      PROVE  Tiled'
  <2>1. UNCHANGED <<phased, phaseRows, ends, ctx, torn>>
    BY <1>3 DEF FinalizeStep, ChangeStatus, Listen, store, process, history
  <2>2. \A w \in Workers : worker[w].at = "cursor" => worker'[w] = worker[w]
    BY <1>3, WakingKeepsCursors DEF FinalizeStep, ChangeStatus, Listen, enqueue
  <2>3. QED
    BY <1>1, <2>1, <2>2, TilesStand DEF FirstLife
<1>4. ASSUME NEW w \in Workers, StoreFails(w) PROVE Tiled'
  <2>1. /\ UNCHANGED <<phased, phaseRows, ends, ctx>> /\ torn \subseteq torn'
        /\ worker[w].at = "cursor" => worker[w].key \in torn'
    BY <1>4 DEF StoreFails, GiveUpSteps, GiveUpPhases, GiveUpReport, Working, StepsOver,
                store, process
  <2>2. \A v \in Workers \ {w} : worker'[v] = worker[v]
    BY <1>1, <1>4 DEF StoreFails, GiveUpSteps, GiveUpPhases, GiveUpReport, Return, TypeOK
  <2>3. QED
    BY <1>1, <2>1, <2>2, TilesStand DEF FirstLife
<1>5. ASSUME NEW w \in Workers, Work(w) PROVE Tiled'
  <2>1. CASE WritePhase(w)
    BY <1>1, <2>1, WritePhaseTiles
  <2>2. CASE SetLastPhasedStep(w)
    BY <1>1, <2>2, CursorTiles
  <2>3. CASE ~WritePhase(w) /\ ~SetLastPhasedStep(w)
    <3>1. UNCHANGED <<phased, phaseRows, ends, ctx, torn>>
      BY <1>5, <2>3 DEF Work, TakePending, WaitForWork, ReadSession, SummarizeStep,
         SetLastSummarizedStep, ReadCursors, maybeFinalize, Abandon, Release, store, process,
         history
    <3>2. CASE Release(w)
      <4>1. worker[w].at # "cursor" /\ \A v \in Workers \ {w} : worker'[v] = WokenWorkers[v]
        BY <3>2 DEF Release, WokenWorkers
      <4>2. \A v \in Workers : worker[v].at = "cursor" => worker'[v] = worker[v]
        BY <4>1, WakingKeepsCursors
      <4>3. QED
        BY <1>1, <3>1, <4>2, TilesStand DEF FirstLife
    <3>3. CASE ~Release(w)
      <4>1. \A v \in Workers \ {w} : worker'[v] = worker[v]
        BY <1>1, <1>5, <2>3, <3>3
        DEF Work, TakePending, WaitForWork, ReadSession, SummarizeStep, Goto, Return,
            SetLastSummarizedStep, ReadCursors, maybeFinalize, Abandon, TypeOK
      <4>2. FirstLife => worker[w].at # "cursor"
        BY <1>5, <2>3, <3>3
        DEF Work, TakePending, WaitForWork, ReadSession, SummarizeStep, Working, StepsOver,
            SetLastSummarizedStep, ReadCursors, maybeFinalize, Abandon, FirstLife
      <4>3. QED
        BY <1>1, <3>1, <4>1, <4>2, TilesStand DEF FirstLife
    <3>4. QED
      BY <3>2, <3>3
  <2>4. QED
    BY <2>1, <2>2, <2>3
<1>6. CASE MainSteps \/ Start \/ BeginStop \/ CancelContext \/ BroadcastCancel \/ Crash
  <2>1. CASE Join \/ Crash
    <3>1. ends' = ends + 1 /\ ends \in Nat
      BY <1>1, <2>1, ObserverAssumption DEF Join, Crash, ProcessEnds, TypeOK
    <3>2. QED
      BY <3>1 DEF Tiled, FirstLife
  <2>2. CASE Start
    <3>1. ctx = "live" /\ \A w \in Workers : worker[w].at = "off"
      BY <1>1, <2>2 DEF Start, DownIsQuiet
    <3>2. UNCHANGED <<phased, phaseRows, ends, torn>>
      BY <2>2 DEF Start, store, history
    <3>3. QED
      BY <1>1, <3>1, <3>2, TilesStand DEF FirstLife
  <2>3. CASE CancelContext \/ BroadcastCancel
    BY <2>3 DEF CancelContext, BroadcastCancel, Tiled, FirstLife
  <2>4. CASE ~(Join \/ Crash \/ Start \/ CancelContext \/ BroadcastCancel)
    <3>1. UNCHANGED <<phased, phaseRows, ends, ctx, torn>>
      BY <1>6, <2>4 DEF MainSteps, SweepAtStart, SweepAtStop, Sweep, EnqueueSwept,
         SweepDone, Drain, BeginStop, store, history
    <3>2. \A w \in Workers : worker[w].at = "cursor" => worker'[w] = worker[w]
      BY <1>6, <2>4, WakingKeepsCursors DEF MainSteps, SweepAtStart, SweepAtStop, Sweep,
         EnqueueSwept, enqueue, SweepDone, Drain, BeginStop
    <3>3. QED
      BY <1>1, <3>1, <3>2, TilesStand DEF FirstLife
  <2>5. QED
    BY <2>1, <2>2, <2>3, <2>4
<1>7. QED
  BY <1>2, <1>3, <1>5, <1>6, <1>4 DEF Next

\* Disjoint phases tell a step at most once.
LEMMA DisjointTellOnce ==
  ASSUME IInv, NEW s \in Sessions, RowsTile(s), NEW n \in 1..MaxStep
  PROVE  Cardinality({p \in phaseRows[s] : p.from <= n /\ n <= p.to}) <= 1
<1> DEFINE S == {p \in phaseRows[s] : p.from <= n /\ n <= p.to}
<1>1. \A p \in phaseRows[s] : p.from \in Nat /\ p.to \in Nat
  BY ObserverAssumption DEF IInv, TypeOK, Phases
<1>2. \A p, q \in S : p = q
  BY <1>1, ObserverAssumption DEF RowsTile
<1>3. CASE S = {}
  BY <1>3, FS_EmptySet
<1>4. CASE S # {}
  <2>1. PICK p : S = {p}
    BY <1>2, <1>4
  <2>2. Cardinality({p}) = 1
    BY FS_Singleton
  <2>3. Cardinality(S) = 1
    BY <2>1, <2>2
  <2>4. QED
    BY <2>3
<1>5. QED
  BY <1>3, <1>4

\* While the first process lives and is not told to stop, no step is told by two
\* phases, for any number of workers, steps, boundaries and thresholds: a phase
\* starts where the last one of its session ended (closePhases and the busy
\* check of observer.go, AppendObservation of sqlite.go); only a cursor that
\* could not be written leaves a session out.
THEOREM FirstLifeTiles == Spec => []PhasesTile
<1>1. Init => TileInv
  BY DEF Init, TileInv, DownIsQuiet, Tiled, RowsTile, Idle
<1>2. IInv /\ TileInv /\ [Next]_vars => TileInv'
  BY DownIsQuietInv, TiledInv DEF TileInv, IInv
<1>3. IInv /\ TileInv => PhasesTile
  BY DisjointTellOnce DEF TileInv, Tiled, FirstLife, PhasesTile
<1>4. QED
  BY <1>1, <1>2, <1>3, Invariance, PTL DEF Spec
=============================================================================

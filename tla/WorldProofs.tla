----------------------------- MODULE WorldProofs -----------------------------
(***************************************************************************)
(* Proofs about the components that MCAgents and MCServer check in small   *)
(* worlds, for every value of their constants: the bridge process, the     *)
(* turn of an ephemeral agent, a call over a bridge, the lesson corpus,    *)
(* the dashboard's notices, badge and pages, the monitor command, the      *)
(* processes and answers of the bash tool, the skill index, and the live   *)
(* feed, which has a run of its own.                                       *)
(***************************************************************************)
EXTENDS WorldAgents, WorldServer, Sequences, FiniteSets, FiniteSetTheorems, SequenceTheorems,
        WellFoundedInduction, TLAPS

(***************************************************************************)
(* The bridge process.  Its mutex is held by the request that starts or    *)
(* restarts it; meanwhile nothing but what it starts is up, and at other   *)
(* times nothing but the command the manager knows.                        *)
(***************************************************************************)
\* The mutex is held by the request that is starting or cooling down.
MutexHeld == \A r \in Requests : procPc[r] \in {"starting", "cooling"} <=> holder = r

\* What is up is known to who may stop it.
UpIsKnown ==
  /\ holder # Proc!Nobody => ~alive
  /\ \A g \in Proc!Generations : process[g] \in Proc!Up =>
       IF holder = Proc!Nobody THEN alive /\ g = cmd
       ELSE g = started /\ procPc[holder] = "starting"

ProcInv == Proc!BridgeProcAssumption /\ Proc!TypeOK /\ MutexHeld /\ UpIsKnown

\* TypeOK in three parts, as the provers can take it: flags, numbers, places.
ProcFlags == alive \in BOOLEAN /\ down \in BOOLEAN /\ again \in [Requests -> BOOLEAN]
ProcNumbers ==
  /\ procNow \in 0..MaxTime /\ startedAt \in -1..MaxTime /\ lastFailAt \in -1..MaxTime
  /\ reaped \subseteq Proc!Generations /\ started \in 0..MaxStarts /\ cmd \in 0..MaxStarts
ProcPlaces ==
  /\ process \in [Proc!Generations -> {"none", "starting", "running", "dead"}]
  /\ holder \in Requests \cup {Proc!Nobody}
  /\ procPc \in [Requests -> {"client", "starting", "posting", "reading", "restart", "cooling",
                              "failed", "done"}]
  /\ client \in [Requests -> 0..MaxStarts]

\* TypeOK is its three parts.
LEMMA ProcTypes == Proc!TypeOK <=> ProcFlags /\ ProcNumbers /\ ProcPlaces
BY DEF Proc!TypeOK, ProcFlags, ProcNumbers, ProcPlaces

\* A process stopped by stopLocked is no longer up, and no other was.
LEMMA StopStops ==
  ASSUME ProcInv, holder = Proc!Nobody, Proc!stopLocked
  PROVE  /\ \A g \in Proc!Generations : process'[g] \notin Proc!Up
         /\ process' \in [Proc!Generations -> {"none", "starting", "running", "dead"}]
<1>1. process' = [g \in Proc!Generations |-> IF g = cmd THEN "dead" ELSE process[g]]
  BY DEF Proc!stopLocked
<1>2. process \in [Proc!Generations -> {"none", "starting", "running", "dead"}]
  BY DEF ProcInv, Proc!TypeOK
<1>3. \A g \in Proc!Generations : process[g] \in {"starting", "running"} => g = cmd
  BY DEF ProcInv, UpIsKnown, Proc!Up
<1>4. QED
  BY <1>1, <1>2, <1>3 DEF Proc!Up

\* No process has been started.
LEMMA ProcInit == Proc!BridgeProcAssumption /\ Proc!Init => ProcInv
<1> SUFFICES ASSUME Proc!BridgeProcAssumption, Proc!Init PROVE ProcInv
  OBVIOUS
<1>1. Proc!TypeOK
  <2>1. ProcFlags
    BY DEF ProcFlags, Proc!Init, Proc!BridgeProcAssumption
  <2>2. ProcNumbers
    BY DEF ProcNumbers, Proc!Init, Proc!BridgeProcAssumption
  <2>3. ProcPlaces
    BY DEF ProcNumbers, ProcPlaces, Proc!Init, Proc!BridgeProcAssumption
  <2>4. QED
    BY <2>1, <2>2, <2>3 DEF Proc!TypeOK, ProcFlags, ProcNumbers, ProcPlaces
<1>2. MutexHeld /\ UpIsKnown
  BY DEF Proc!Init, MutexHeld, UpIsKnown, Proc!Up, Proc!BridgeProcAssumption
<1>3. QED
  BY <1>1, <1>2 DEF ProcInv

\* Processes start, exit and are stopped by the rules.
LEMMA ProcStep == ProcInv /\ [Proc!Next]_(Proc!vars) => ProcInv'
<1> SUFFICES ASSUME ProcInv, [Proc!Next]_(Proc!vars) PROVE ProcInv'
  OBVIOUS
<1> USE DEF ProcInv, Proc!BridgeProcAssumption, Proc!procs, Proc!reqs, Proc!Goto
<1>0. /\ Proc!Nobody \notin Requests /\ Proc!BridgeProcAssumption'
      /\ MaxStarts \in Nat /\ MaxTime \in Nat
  OBVIOUS
<1> ProcNumbers /\ ProcPlaces
  BY ProcTypes
<1>1. CASE UNCHANGED Proc!vars
  BY <1>1 DEF Proc!vars, Proc!TypeOK, MutexHeld, UpIsKnown, Proc!Up, Proc!Generations
<1>2. CASE Proc!Tick
  BY <1>2 DEF Proc!Tick, Proc!TypeOK, MutexHeld, UpIsKnown, Proc!Up, Proc!Generations
<1>3. ASSUME NEW r \in Requests, Proc!Client(r) PROVE ProcInv'
  <2>1. Proc!TypeOK'
    <3>1. ProcFlags'
      BY <1>3, ProcTypes DEF ProcFlags, Proc!Client, Proc!startLocked, Proc!Generations
    <3>2. ProcNumbers'
      <4>1. UNCHANGED <<procNow, reaped, cmd, startedAt, lastFailAt>>
        BY <1>3 DEF Proc!Client, Proc!startLocked
      <4>2. started' = started \/ (started < MaxStarts /\ started' = started + 1)
        BY <1>3 DEF Proc!Client, Proc!startLocked
      <4>3. QED
        BY <1>0, <4>1, <4>2 DEF ProcNumbers, Proc!Generations
    <3>3. ProcPlaces'
      <4>1. /\ process' \in {process, [process EXCEPT ![started + 1] = "starting"]}
            /\ holder' \in {holder, r}
            /\ \E where \in {"posting", "failed", "starting"} : procPc' = [procPc EXCEPT ![r] = where]
            /\ client' \in {client, [client EXCEPT ![r] = cmd]}
        BY <1>3 DEF Proc!Client, Proc!startLocked
      <4>2. process' \in [Proc!Generations -> {"none", "starting", "running", "dead"}]
        BY <4>1 DEF ProcPlaces
      <4>3. client' \in [Requests -> 0..MaxStarts]
        BY <4>1 DEF ProcNumbers, ProcPlaces
      <4>4. QED
        BY <4>1, <4>2, <4>3 DEF ProcPlaces
    <3>4. QED
      BY <3>1, <3>2, <3>3 DEF Proc!TypeOK, ProcFlags, ProcNumbers, ProcPlaces
  <2>2. MutexHeld'
    BY <1>0, <1>3 DEF Proc!Client, Proc!startLocked, Proc!TypeOK, MutexHeld
  <2>3. UpIsKnown'
    BY <1>0, <1>3, <2>2
    DEF Proc!Client, Proc!startLocked, Proc!TypeOK, UpIsKnown, MutexHeld, Proc!Up, Proc!Generations
  <2>4. QED
    BY <2>1, <2>2, <2>3
<1>4. ASSUME NEW r \in Requests, Proc!Healthy(r) PROVE ProcInv'
  <2>1. Proc!TypeOK'
    <3>1. ProcFlags'
      BY <1>4, ProcTypes DEF ProcFlags, Proc!Healthy, Proc!Generations, Proc!Up
    <3>2. ProcNumbers'
      BY <1>0, <1>4 DEF ProcNumbers, Proc!Healthy, Proc!Generations, Proc!Up
    <3>3. ProcPlaces'
      BY <1>0, <1>4 DEF ProcNumbers, ProcPlaces, Proc!Healthy, Proc!Generations, Proc!Up
    <3>4. QED
      BY <3>1, <3>2, <3>3 DEF Proc!TypeOK, ProcFlags, ProcNumbers, ProcPlaces
  <2>2. MutexHeld'
    BY <1>0, <1>4 DEF Proc!Healthy, Proc!TypeOK, MutexHeld
  <2>3. UpIsKnown'
    BY <1>0, <1>4 DEF Proc!Healthy, Proc!TypeOK, UpIsKnown, Proc!Up, Proc!Generations
  <2>4. QED
    BY <2>1, <2>2, <2>3
<1>5. ASSUME NEW r \in Requests, Proc!StartFails(r) PROVE ProcInv'
  <2>1. Proc!TypeOK'
    <3>1. ProcFlags'
      BY <1>5, ProcTypes DEF ProcFlags, Proc!StartFails, Proc!Generations
    <3>2. ProcNumbers'
      BY <1>0, <1>5 DEF ProcNumbers, Proc!StartFails, Proc!Generations
    <3>3. ProcPlaces'
      BY <1>0, <1>5 DEF ProcNumbers, ProcPlaces, Proc!StartFails, Proc!Generations
    <3>4. QED
      BY <3>1, <3>2, <3>3 DEF Proc!TypeOK, ProcFlags, ProcNumbers, ProcPlaces
  <2>2. MutexHeld'
    BY <1>0, <1>5 DEF Proc!StartFails, Proc!TypeOK, MutexHeld
  <2>3. UpIsKnown'
    BY <1>0, <1>5 DEF Proc!StartFails, Proc!TypeOK, UpIsKnown, Proc!Up, Proc!Generations
  <2>4. QED
    BY <2>1, <2>2, <2>3
<1>6. ASSUME NEW r \in Requests, Proc!PostOK(r) \/ Proc!PostFails(r) \/ Proc!ReadEnds(r) PROVE ProcInv'
  <2>1. /\ procPc[r] \in {"posting", "reading"}
        /\ \E where \in {"reading", "failed", "restart", "done"} : procPc' = [procPc EXCEPT ![r] = where]
        /\ UNCHANGED <<procNow, process, reaped, started, cmd, alive, startedAt, lastFailAt,
                       holder, client, again, down>>
    BY <1>6 DEF Proc!PostOK, Proc!PostFails, Proc!ReadEnds
  <2>2. Proc!TypeOK'
    <3>1. ProcFlags'
      BY <2>1, ProcTypes DEF ProcFlags, Proc!Generations
    <3>2. ProcNumbers'
      BY <1>0, <2>1 DEF ProcNumbers, Proc!Generations
    <3>3. ProcPlaces'
      BY <1>0, <2>1 DEF ProcNumbers, ProcPlaces, Proc!Generations
    <3>4. QED
      BY <3>1, <3>2, <3>3 DEF Proc!TypeOK, ProcFlags, ProcNumbers, ProcPlaces
  <2>3. MutexHeld'
    BY <2>1 DEF Proc!TypeOK, MutexHeld
  <2>4. UpIsKnown'
    BY <2>1, <2>2, <2>3 DEF Proc!TypeOK, UpIsKnown, MutexHeld, Proc!Up, Proc!Generations
  <2>5. QED
    BY <2>2, <2>3, <2>4
<1>7. ASSUME NEW r \in Requests, Proc!Restart(r) PROVE ProcInv'
  <2>1. CASE Proc!Replaced(r)
    BY <1>0, <1>7, <2>1
    DEF Proc!Restart, Proc!Replaced, Proc!TypeOK, MutexHeld, UpIsKnown, Proc!Up, Proc!Generations
  <2>2. CASE ~Proc!Replaced(r)
    <3>1. /\ procPc[r] = "restart" /\ holder = Proc!Nobody /\ Proc!stopLocked
          /\ holder' = r /\ procPc' = [procPc EXCEPT ![r] = "cooling"]
          /\ alive' = FALSE /\ cmd' = 0 /\ again' = [again EXCEPT ![r] = TRUE]
          /\ UNCHANGED <<procNow, client, reaped, started, startedAt, lastFailAt, down>>
      BY <1>7, <2>2 DEF Proc!Restart, Proc!stopLocked
    <3>2. Proc!TypeOK'
      <4>1. ProcFlags'
        BY <3>1, StopStops, ProcTypes DEF ProcFlags, Proc!Generations
      <4>2. ProcNumbers'
        BY <1>0, <3>1, StopStops DEF ProcNumbers, Proc!Generations
      <4>3. ProcPlaces'
        BY <1>0, <3>1, StopStops DEF ProcNumbers, ProcPlaces, Proc!Generations
      <4>4. QED
        BY <4>1, <4>2, <4>3 DEF Proc!TypeOK, ProcFlags, ProcNumbers, ProcPlaces
    <3>3. MutexHeld'
      BY <1>0, <3>1 DEF Proc!TypeOK, MutexHeld
    <3>4. UpIsKnown'
      BY <3>1, StopStops DEF UpIsKnown, Proc!Up, Proc!Generations
    <3>5. QED
      BY <3>2, <3>3, <3>4
  <2>3. QED
    BY <2>1, <2>2
<1>8. ASSUME NEW r \in Requests, Proc!Cooled(r) PROVE ProcInv'
  <2>1. Proc!TypeOK'
    <3>1. ProcFlags'
      BY <1>8, ProcTypes DEF ProcFlags, Proc!Cooled, Proc!startLocked, Proc!Generations
    <3>2. ProcNumbers'
      BY <1>0, <1>8 DEF ProcNumbers, Proc!Cooled, Proc!startLocked, Proc!Generations
    <3>3. ProcPlaces'
      BY <1>0, <1>8 DEF ProcNumbers, ProcPlaces, Proc!Cooled, Proc!startLocked, Proc!Generations
    <3>4. QED
      BY <3>1, <3>2, <3>3 DEF Proc!TypeOK, ProcFlags, ProcNumbers, ProcPlaces
  <2>2. MutexHeld'
    BY <1>0, <1>8 DEF Proc!Cooled, Proc!startLocked, Proc!TypeOK, MutexHeld
  <2>3. UpIsKnown'
    BY <1>0, <1>8
    DEF Proc!Cooled, Proc!startLocked, Proc!TypeOK, UpIsKnown, Proc!Up, Proc!Generations
  <2>4. QED
    BY <2>1, <2>2, <2>3
<1>9. ASSUME NEW g \in Proc!Generations, Proc!Exit(g) \/ Proc!Reap(g) PROVE ProcInv'
  <2>1. CASE Proc!Exit(g)
    BY <2>1 DEF Proc!Exit, Proc!TypeOK, MutexHeld, UpIsKnown, Proc!Up, Proc!Generations
  <2>2. CASE Proc!Reap(g)
    BY <2>2 DEF Proc!Reap, Proc!markDead, Proc!TypeOK, MutexHeld, UpIsKnown, Proc!Up, Proc!Generations
  <2>3. QED
    BY <1>9, <2>1, <2>2
<1>10. CASE Proc!Shutdown
  <2>1. /\ holder = Proc!Nobody /\ Proc!stopLocked /\ alive' = FALSE /\ cmd' = 0 /\ down' = TRUE
        /\ UNCHANGED <<procNow, reaped, started, startedAt, lastFailAt, holder, procPc, client, again>>
    BY <1>10 DEF Proc!Shutdown, Proc!stopLocked
  <2>2. Proc!TypeOK'
    <3>1. ProcFlags'
      BY <2>1, StopStops, ProcTypes DEF ProcFlags, Proc!Generations
    <3>2. ProcNumbers'
      BY <1>0, <2>1, StopStops DEF ProcNumbers, Proc!Generations
    <3>3. ProcPlaces'
      BY <1>0, <2>1, StopStops DEF ProcNumbers, ProcPlaces, Proc!Generations
    <3>4. QED
      BY <3>1, <3>2, <3>3 DEF Proc!TypeOK, ProcFlags, ProcNumbers, ProcPlaces
  <2>3. MutexHeld' /\ UpIsKnown'
    BY <2>1, StopStops DEF MutexHeld, UpIsKnown, Proc!Up, Proc!Generations
  <2>4. QED
    BY <2>2, <2>3
<1>11. QED
  BY <1>1, <1>2, <1>3, <1>4, <1>5, <1>6, <1>7, <1>8, <1>9, <1>10 DEF Proc!Next

\* Two processes that are up are the one that is known.
LEMMA ProcOne == ProcInv => Proc!OneBridge
BY DEF ProcInv, UpIsKnown, Proc!OneBridge

\* A restart stops the command, and only if it is the one the request failed on.
LEMMA ProcKills == ProcInv /\ [Proc!Next]_(Proc!vars) => [Proc!KillsOnlyItsOwn]_(Proc!vars)
<1> SUFFICES ASSUME ProcInv, Proc!Next,
                    NEW g \in Proc!Generations, NEW r \in Requests,
                    process[g] = "running", procPc[r] = "restart", procPc'[r] = "cooling",
                    process'[g] = "dead"
             PROVE  client[r] = g
  BY DEF Proc!KillsOnlyItsOwn, Proc!vars
<1>1. procPc \in [Requests -> {"client", "starting", "posting", "reading", "restart", "cooling",
                               "failed", "done"}]
  BY DEF ProcInv, Proc!TypeOK
<1>2. Proc!Restart(r)
  BY <1>1 DEF Proc!Next, Proc!Tick, Proc!Client, Proc!Healthy, Proc!StartFails, Proc!PostOK,
     Proc!PostFails, Proc!ReadEnds, Proc!Restart, Proc!Cooled, Proc!Exit, Proc!Reap, Proc!Shutdown,
     Proc!Goto, Proc!startLocked, Proc!reqs
<1>3. holder = Proc!Nobody /\ ~Proc!Replaced(r)
  BY <1>1, <1>2 DEF Proc!Restart, Proc!Goto
<1>4. alive /\ g = cmd
  BY <1>3 DEF ProcInv, UpIsKnown, Proc!Up
<1>5. QED
  BY <1>3, <1>4 DEF Proc!Replaced

\* One process of a bridge at a time, and a request brings down only the one its
\* own connection failed on (transport_spawn.go: client, restartClient, markDead).
THEOREM BridgeIsOne == Proc!Spec => OneBridgeAtATime
<1>1. Proc!Init => ProcInv
  BY ProcInit, ProcAssumption DEF ProcAssumption
<1>2. ProcInv /\ [Proc!Next]_(Proc!vars) => ProcInv'
  BY ProcStep
<1>3. ProcInv => (instance = "proc" => Proc!OneBridge)
  BY ProcOne
<1>4. ProcInv /\ [Proc!Next]_(Proc!vars) => [instance = "proc" => Proc!KillsOnlyItsOwn]_ProcVars
  <2>1. UNCHANGED Proc!vars => UNCHANGED ProcVars
    BY DEF Proc!vars, Proc!procs, Proc!reqs, ProcVars
  <2>2. QED
    BY <2>1, ProcKills
<1>5. QED
  BY <1>1, <1>2, <1>3, <1>4, PTL DEF Proc!Spec, OneBridgeAtATime

-----------------------------------------------------------------------------
(***************************************************************************)
(* Ephemeral agents.  Every iteration up to the forced one may call tools; *)
(* from then on each is an attempt at the answer, or calls that defy the   *)
(* request, so the iterations left are never fewer than the attempts left  *)
(* unless a call defied it.                                                *)
(***************************************************************************)
TurnTypes ==
  /\ agent \in Agents
  /\ turnPc \in {"llm", "reply", "tools", "repair", "done"}
  /\ iter \in Nat /\ attempts \in Nat /\ calls \in Nat /\ defied \in Nat

\* Tools are offered until an answer was refused, and disabled when forced.
OfferFits ==
  turnPc = "reply" =>
    /\ request.tools => agent.tools /\ ~finalizing
    /\ agent.force /\ ~finalizing /\ iter >= Turn!ForceAt /\ agent.tools => request.disabled

\* How many attempts were made, by whom.
AttemptsFit ==
  /\ ~finalizing /\ turnPc # "done" => attempts = 0
  /\ agent.kind # "typed" => attempts = 0
  /\ attempts < agent.repairs \/ turnPc = "done"
  /\ agent.kind = "typed" /\ outcome = "unusable" => attempts = agent.repairs

\* The budget: what is left after the forced iteration is for attempts.
BudgetFits ==
  /\ outcome # "none" <=> turnPc = "done"
  /\ Turn!Loops =>
       /\ turnPc # "repair"
       /\ turnPc = "llm" => iter <= agent.maxIter /\ calls = iter
       /\ turnPc \in {"reply", "tools"} => iter < agent.maxIter /\ calls = iter + 1
       /\ turnPc = "done" => calls <= agent.maxIter
       /\ agent.force =>
            /\ turnPc \in {"llm", "reply"} => iter <= Turn!ForceAt + attempts + defied
            /\ turnPc = "tools" => iter < Turn!ForceAt + attempts + defied
            /\ outcome = "exceeded" =>
                 defied > 0 /\ agent.maxIter <= Turn!ForceAt + attempts + defied
  /\ ~Turn!Loops =>
       /\ turnPc \in {"llm", "repair", "done"}
       /\ turnPc = "llm" => iter = 0 /\ calls = 0
       /\ turnPc # "llm" => calls = iter + 1 /\ iter <= agent.repairs
       /\ outcome # "exceeded"

TurnInv == Turn!EphemeralAssumption /\ TurnTypes /\ OfferFits /\ AttemptsFit /\ BudgetFits

\* The configuration of a run, and where its last reply is forced.
LEMMA TurnConstants ==
  ASSUME Turn!EphemeralAssumption, agent \in Agents
  PROVE  /\ agent.kind \in {"plain", "typed", "extract"}
         /\ agent.maxIter \in Nat /\ agent.maxIter >= 1
         /\ agent.repairs \in Nat /\ agent.repairs >= 1
         /\ Turn!ForceAt \in Nat /\ Turn!ForceAt < agent.maxIter
         /\ agent.kind = "typed" /\ agent.force => Turn!ForceAt + agent.repairs <= agent.maxIter
BY DEF Turn!EphemeralAssumption, Turn!ForceAt, Turn!Reserve, Turn!MaxOf

\* Nothing was asked yet.
LEMMA TurnInit == Turn!EphemeralAssumption /\ Turn!Init => TurnInv
<1> SUFFICES ASSUME Turn!EphemeralAssumption, Turn!Init PROVE TurnInv
  OBVIOUS
<1>1. agent \in Agents
  BY DEF Turn!Init
<1>2. QED
  BY <1>1, TurnConstants
  DEF Turn!Init, TurnInv, TurnTypes, OfferFits, AttemptsFit, BudgetFits, Turn!Loops

\* Every step of the loop, and of the repair of an extraction.
LEMMA TurnStep == TurnInv /\ [Turn!Next]_(Turn!vars) => TurnInv'
<1> SUFFICES ASSUME TurnInv, [Turn!Next]_(Turn!vars) PROVE TurnInv'
  OBVIOUS
<1>0. /\ agent \in Agents /\ Turn!EphemeralAssumption'
      /\ TurnTypes /\ OfferFits /\ AttemptsFit /\ BudgetFits
  BY DEF TurnInv, TurnTypes, Turn!EphemeralAssumption
<1>c. /\ agent.kind \in {"plain", "typed", "extract"}
      /\ agent.maxIter \in Nat /\ agent.maxIter >= 1
      /\ agent.repairs \in Nat /\ agent.repairs >= 1
      /\ Turn!ForceAt \in Nat /\ Turn!ForceAt < agent.maxIter
      /\ agent.kind = "typed" /\ agent.force => Turn!ForceAt + agent.repairs <= agent.maxIter
  BY <1>0, TurnConstants DEF TurnInv
<1>a. agent' = agent /\ Turn!ForceAt' = Turn!ForceAt /\ (Turn!Loops' <=> Turn!Loops)
  <2>1. agent' = agent
    BY DEF Turn!Next, Turn!vars, Turn!Ask, Turn!Exceeded, Turn!Fail, Turn!ReplyWithCalls,
       Turn!RunTools, Turn!ReplyWithText, Turn!ExtractFirst, Turn!RepairPass, Turn!RepairEnds,
       Turn!Finished
  <2>2. QED
    BY <2>1 DEF Turn!ForceAt, Turn!Reserve, Turn!Loops
<1> USE DEF TurnTypes, OfferFits, AttemptsFit, BudgetFits
<1> HIDE DEF TurnInv
<1>1. CASE UNCHANGED Turn!vars \/ Turn!Finished
  BY <1>0, <1>a, <1>1 DEF Turn!vars, Turn!Finished, TurnInv
<1>2. CASE Turn!Ask
  <2> DEFINE forced == agent.force /\ ~finalizing /\ iter >= Turn!ForceAt /\ agent.tools
  <2>1. /\ turnPc = "llm" /\ Turn!Loops /\ iter < agent.maxIter
        /\ turnPc' = "reply" /\ calls' = calls + 1
        /\ request' = [tools |-> agent.tools /\ ~finalizing, disabled |-> forced]
        /\ UNCHANGED <<agent, iter, finalizing, attempts, defied, outcome>>
    BY <1>2 DEF Turn!Ask
  <2>2. TurnTypes' /\ AttemptsFit' /\ BudgetFits'
    <3> HIDE DEF forced
    <3>1. QED
      BY <1>0, <1>a, <1>c, <2>1
  <2>3. OfferFits'
    BY <1>a, <2>1
  <2>4. QED
    BY <1>0, <2>2, <2>3 DEF TurnInv
<1>3. CASE Turn!Exceeded
  <2>1. /\ turnPc = "llm" /\ Turn!Loops /\ iter = agent.maxIter
        /\ turnPc' = "done" /\ outcome' = "exceeded"
        /\ UNCHANGED <<agent, iter, finalizing, attempts, request, calls, defied>>
    BY <1>3 DEF Turn!Exceeded, Turn!End
  <2>2. agent.force =>
          defied > 0 /\ agent.maxIter <= Turn!ForceAt + attempts + defied
    <3>1. CASE agent.kind = "typed"
      BY <1>0, <1>c, <2>1, <3>1
    <3>2. CASE agent.kind # "typed"
      BY <1>0, <1>c, <2>1, <3>2
    <3>3. QED
      BY <3>1, <3>2
  <2>3. TurnTypes' /\ OfferFits' /\ AttemptsFit'
    BY <1>0, <1>a, <2>1
  <2>4. BudgetFits'
    BY <1>0, <1>a, <1>c, <2>1, <2>2
  <2>5. QED
    BY <1>0, <2>3, <2>4 DEF TurnInv
<1>4. CASE Turn!Fail
  BY <1>0, <1>a, <1>c, <1>4 DEF Turn!Fail, Turn!End, TurnInv
<1>5. CASE Turn!ReplyWithCalls
  BY <1>0, <1>a, <1>c, <1>5 DEF Turn!ReplyWithCalls, TurnInv
<1>6. CASE Turn!RunTools
  BY <1>0, <1>a, <1>c, <1>6 DEF Turn!RunTools, TurnInv
<1>7. ASSUME NEW q \in Final, Turn!ReplyWithText(q) PROVE TurnInv'
  BY <1>0, <1>a, <1>c, <1>7 DEF Turn!ReplyWithText, Turn!GivesUp, Turn!End, TurnInv
<1>8. ASSUME NEW q \in Final, Turn!ExtractFirst(q) PROVE TurnInv'
  BY <1>0, <1>a, <1>c, <1>8 DEF Turn!ExtractFirst, Turn!Loops, TurnInv
<1>9. ASSUME NEW q \in Final, Turn!RepairPass(q) PROVE TurnInv'
  BY <1>0, <1>a, <1>c, <1>9 DEF Turn!RepairPass, Turn!Loops, TurnInv
<1>10. CASE Turn!RepairEnds
  BY <1>0, <1>a, <1>c, <1>10 DEF Turn!RepairEnds, Turn!Loops, TurnInv
<1>11. QED
  BY <1>1, <1>2, <1>3, <1>4, <1>5, <1>6, <1>7, <1>8, <1>9, <1>10 DEF Turn!Next

\* A forced answer comes within the budget unless the provider calls the tools it
\* was told not to, whatever else it replies, and a report is given up only after
\* every repair it was promised (ephemeral.go run, typed.go RunTyped, jsonextract.go).
THEOREM AnswersLand == Turn!Spec => []ForcedAnswerLands
<1>1. Turn!Init => TurnInv
  BY TurnInit, TurnAssumption DEF TurnAssumption
<1>2. TurnInv /\ [Turn!Next]_(Turn!vars) => TurnInv'
  BY TurnStep
<1>3. TurnInv => ForcedAnswerLands
  <2> SUFFICES ASSUME TurnInv PROVE Turn!ForcedAnswerLands
    BY DEF ForcedAnswerLands
  <2>1. TurnTypes /\ AttemptsFit /\ BudgetFits /\ Turn!EphemeralAssumption
    BY DEF TurnInv
  <2>2. agent.maxIter \in Nat /\ agent.repairs \in Nat /\ Turn!ForceAt \in Nat
    BY <2>1, TurnConstants DEF TurnTypes
  <2>3. QED
    BY <2>1, <2>2 DEF TurnTypes, AttemptsFit, BudgetFits, Turn!ForcedAnswerLands
<1>4. QED
  BY <1>1, <1>2, <1>3, PTL DEF Turn!Spec

-----------------------------------------------------------------------------
(***************************************************************************)
(* One call over a bridge.  A retry comes before any text was shown and    *)
(* after the far handler's error line, so what an earlier attempt still    *)
(* has on its way is never read as the next one's.                         *)
(***************************************************************************)
Number == Nat \X Nat
Lines == [type : {"delta", "final", "error", "ping"}, body : (SUBSET Number) \cup BridgeErrors]

CallTypes ==
  /\ callAttempt \in Nat /\ deltas \in Nat /\ mode \in {"call", "stream"}
  /\ far \in {"idle", "model", "lines", "closing", "returned"}
  /\ net \in Seq(Lines) /\ callShown \in Seq(SUBSET Number)
  /\ said \in Seq(BridgeErrors \cup {{"final"}, {"none"}, {"gone"}})

\* The handler is done with an attempt before the next is posted, and it is not
\* done before its pinger is.
FarFits ==
  /\ callPc \in {"post", "backoff"} => far \in {"idle", "closing", "returned"}
  /\ callPc \in {"ahead", "handed"} => far # "idle"
  /\ callPc = "backoff" => far # "idle"
  /\ far = "returned" => pinger = "stopped"
  /\ pinger = "stopped" => far \in {"closing", "returned"}

\* Every attempt the far end is done with has its end in said.
SaidFits ==
  /\ far = "idle" => said = <<>> /\ callAttempt = 1
  /\ far \in {"model", "lines"} => Len(said) + 1 = callAttempt
  /\ far \in {"closing", "returned"} =>
       /\ callPc = "post" => Len(said) + 1 = callAttempt
       /\ callPc \in {"ahead", "handed", "backoff"} => Len(said) = callAttempt
       /\ Len(said) <= callAttempt

\* An error on its way, or read, is how the model ended this attempt.
ErrorsFit ==
  /\ callPc \in {"ahead", "handed"} =>
       \A k \in DOMAIN net : net[k].type = "error" =>
         far \in {"closing", "returned"} /\ net[k].body = said[callAttempt]
  /\ callResult.kind = "provider" =>
       callPc = "ended" /\ Len(said) = callAttempt /\ callResult.body = said[callAttempt]

\* No failed attempt before this one was an overflow, nor is one that backs off.
NoOverflowBefore ==
  \A n \in DOMAIN said : n < callAttempt \/ callPc = "backoff" => "overflow" \notin said[n]

\* What a caller was shown, or will be before the next line.
Given == Len(callShown) + (IF replay THEN 1 ELSE 0)

\* num[k] deltas were given to the caller once it has read k lines.
Numbered(num) ==
  /\ num \in [0..Len(net) -> Nat]
  /\ num[0] = Given /\ num[Len(net)] = deltas
  /\ \A k \in 1..Len(net) :
       IF net[k].type = "delta"
       THEN num[k] = num[k - 1] + 1 /\ net[k].body = {<<callAttempt, num[k]>>}
       ELSE num[k] = num[k - 1]

\* Text is shown in order, after the attempt that has it was handed over.
ShownFits ==
  /\ replay => callPc \in {"handed", "ended"} /\ callShown = <<>>
  /\ callPc \in {"post", "ahead", "backoff"} => callShown = <<>> /\ ~replay
  /\ mode = "call" => callShown = <<>> /\ ~replay
  /\ Call!ShownOnce
  /\ mode = "stream" /\ callPc \in {"ahead", "handed"} => \E num : Numbered(num)

CallInv == CallTypes /\ FarFits /\ SaidFits /\ ErrorsFit /\ NoOverflowBefore /\ ShownFits

\* What Append and Tail do to a sequence.
LEMMA Appended ==
  ASSUME NEW S, NEW s \in Seq(S), NEW e \in S
  PROVE  /\ Append(s, e) \in Seq(S) /\ Len(Append(s, e)) = Len(s) + 1
         /\ \A k \in 1..Len(s) : Append(s, e)[k] = s[k]
         /\ Append(s, e)[Len(s) + 1] = e
OBVIOUS

\* The rest of a sequence behind its first.
LEMMA Tailed ==
  ASSUME NEW S, NEW s \in Seq(S), s # <<>>
  PROVE  /\ Tail(s) \in Seq(S) /\ Len(Tail(s)) = Len(s) - 1 /\ Len(s) >= 1
         /\ \A k \in 1..Len(s) - 1 : Tail(s)[k] = s[k + 1]
         /\ Head(s) = s[1] /\ Head(s) \in S
OBVIOUS

\* What the model says fits in a line.
LEMMA ErrorLine == \A e \in BridgeErrors : [type |-> "error", body |-> e] \in Lines
BY DEF Lines

\* A line that is written gets the next number, if it is a delta.
LEMMA NumberedWrite ==
  ASSUME CallTypes, NEW num, Numbered(num), NEW line \in Lines, net' = Append(net, line),
         UNCHANGED <<callShown, replay, callAttempt>>,
         IF line.type = "delta"
         THEN deltas' = deltas + 1 /\ line.body = {<<callAttempt, deltas + 1>>}
         ELSE deltas' = deltas
  PROVE  \E m : Numbered(m)'
<1> DEFINE n == Len(net)
<1>0. PICK m : m = [k \in 0..n + 1 |-> IF k <= n THEN num[k] ELSE deltas']
  OBVIOUS
<1>1. net \in Seq(Lines) /\ n \in Nat /\ deltas \in Nat /\ deltas' \in Nat
  BY DEF CallTypes
<1>2. /\ Len(net') = n + 1 /\ net'[n + 1] = line
      /\ \A k \in 1..n : net'[k] = net[k]
  BY <1>1, Appended
<1>3. /\ num \in [0..n -> Nat] /\ num[0] = Given /\ num[n] = deltas
      /\ \A k \in 1..n :
           IF net[k].type = "delta"
           THEN num[k] = num[k - 1] + 1 /\ net[k].body = {<<callAttempt, num[k]>>}
           ELSE num[k] = num[k - 1]
  BY DEF Numbered
<1>4. Given' = Given
  BY DEF Given
<1>5. /\ m \in [0..n + 1 -> Nat] /\ m[0] = Given /\ m[n + 1] = deltas'
  BY <1>0, <1>1, <1>3
<1>6. ASSUME NEW k \in 1..n + 1
      PROVE  IF net'[k].type = "delta"
             THEN m[k] = m[k - 1] + 1 /\ net'[k].body = {<<callAttempt, m[k]>>}
             ELSE m[k] = m[k - 1]
  <2>1. CASE k \in 1..n
    <3>1. m[k] = num[k] /\ m[k - 1] = num[k - 1] /\ net'[k] = net[k]
      BY <1>0, <1>1, <1>2, <2>1
    <3>2. QED
      BY <1>3, <2>1, <3>1
  <2>2. CASE k = n + 1
    <3>1. m[k] = deltas' /\ m[k - 1] = deltas /\ net'[k] = line
      BY <1>0, <1>1, <1>2, <1>3, <2>2
    <3>2. QED
      BY <3>1
  <2>3. QED
    BY <1>1, <2>1, <2>2
<1> HIDE DEF n
<1>7. Numbered(m)'
  <2>1. Len(net') = n + 1 /\ callAttempt' = callAttempt
    BY <1>2
  <2>2. QED
    BY <1>4, <1>5, <1>6, <2>1 DEF Numbered
<1>8. QED
  BY <1>7

\* A line that is read is the next to be given, if it is a delta.
LEMMA NumberedRead ==
  ASSUME CallTypes, NEW num, Numbered(num), net # <<>>, net' = Tail(net),
         UNCHANGED <<deltas, callAttempt>>, Given' = num[1]
  PROVE  \E m : Numbered(m)'
<1> DEFINE n == Len(net)
<1>0. PICK m : m = [k \in 0..n - 1 |-> num[k + 1]]
  OBVIOUS
<1>1. net \in Seq(Lines)
  BY DEF CallTypes
<1>2. /\ n \in Nat /\ n >= 1 /\ Len(net') = n - 1
      /\ \A k \in 1..n - 1 : net'[k] = net[k + 1]
  BY <1>1, Tailed
<1>3. /\ num \in [0..n -> Nat] /\ num[n] = deltas
      /\ \A k \in 1..n :
           IF net[k].type = "delta"
           THEN num[k] = num[k - 1] + 1 /\ net[k].body = {<<callAttempt, num[k]>>}
           ELSE num[k] = num[k - 1]
  BY DEF Numbered
<1>4. m \in [0..n - 1 -> Nat] /\ m[0] = Given' /\ m[n - 1] = deltas
  BY <1>0, <1>2, <1>3
<1>5. ASSUME NEW k \in 1..n - 1
      PROVE  IF net'[k].type = "delta"
             THEN m[k] = m[k - 1] + 1 /\ net'[k].body = {<<callAttempt, m[k]>>}
             ELSE m[k] = m[k - 1]
  <2>1. m[k] = num[k + 1] /\ m[k - 1] = num[k] /\ net'[k] = net[k + 1]
    BY <1>0, <1>2
  <2>2. k + 1 \in 1..n /\ (k + 1) - 1 = k
    BY <1>2
  <2>3. QED
    BY <1>3, <2>1, <2>2
<1> HIDE DEF n
<1>6. Numbered(m)'
  <2>1. Len(net') = n - 1 /\ callAttempt' = callAttempt /\ deltas' = deltas
    BY <1>2
  <2>2. QED
    BY <1>4, <1>5, <2>1 DEF Numbered
<1>7. QED
  BY <1>6

\* Nothing was sent.
LEMMA CallInit == Call!BridgeCallAssumption /\ Call!Init => CallInv
BY DEF Call!BridgeCallAssumption, Call!Init, Call!Pending, Call!Outcome, CallInv, CallTypes,
   FarFits, SaidFits, ErrorsFit, NoOverflowBefore, ShownFits, Call!ShownOnce

\* The numbers stand while nothing is written or read.
LEMMA NumbersStand ==
  ASSUME CallInv, UNCHANGED <<mode, net, callShown, replay, callAttempt, deltas>>,
         callPc' \in {"ahead", "handed"} => callPc \in {"ahead", "handed"},
         replay => callPc' \in {"handed", "ended"},
         callPc' \in {"post", "ahead", "backoff"} => callShown = <<>> /\ ~replay
  PROVE  ShownFits'
<1>1. ShownFits
  BY DEF CallInv
<1>2. ASSUME mode' = "stream", callPc' \in {"ahead", "handed"} PROVE \E num : Numbered(num)'
  <2>1. PICK num : Numbered(num)
    BY <1>1, <1>2 DEF ShownFits
  <2>2. Numbered(num)'
    BY <2>1 DEF Numbered, Given
  <2>3. QED
    BY <2>2
<1>3. QED
  BY <1>1, <1>2 DEF ShownFits, Call!ShownOnce

\* A call that ends, for whatever is not what the model said, is told no more.
LEMMA CallEnds ==
  ASSUME CallInv, callPc' = "ended", callResult'.kind # "provider",
         UNCHANGED <<mode, callAttempt, replay, callShown, net, far, deltas, pinger, said>>
  PROVE  CallInv'
<1>1. ShownFits'
  BY NumbersStand
<1>2. QED
  BY <1>1 DEF CallInv, CallTypes, FarFits, SaidFits, ErrorsFit, NoOverflowBefore

\* The context, the timer and the pinger do not touch what is sent or shown.
LEMMA CallStays ==
  ASSUME CallInv, pinger' = pinger \/ (pinger = "waiting" /\ pinger' = "writing"),
         UNCHANGED <<mode, callPc, callAttempt, replay, callShown, callResult, net, far, deltas, said>>
  PROVE  CallInv'
<1>1. ShownFits'
  BY NumbersStand DEF CallInv, ShownFits
<1>2. QED
  BY <1>1 DEF CallInv, CallTypes, FarFits, SaidFits, ErrorsFit, NoOverflowBefore

\* The caller's end: posting, backing off, giving up.
LEMMA CallerStep ==
  ASSUME CallInv,
         \/ Call!Retry \/ Call!Refused \/ Call!Unreachable \/ Call!Accepted
         \/ Call!Replay \/ Call!ReadEnd \/ Call!Broken
         \/ Call!Silence \/ Call!IdleFires \/ Call!Cancel
  PROVE  CallInv'
<1> USE DEF Call!timer, Call!server, Call!caller, Call!Outcome, Call!End
<1>1. CASE Call!Retry
  <2>1. CASE ctx = "live"
    <3>1. /\ callPc = "backoff" /\ callPc' = "post" /\ callAttempt' = callAttempt + 1
          /\ UNCHANGED <<mode, callResult, replay, callShown, net, far, deltas, pinger, said>>
      BY <1>1, <2>1 DEF Call!Retry
    <3>2. callShown = <<>> /\ ~replay
      BY <3>1 DEF CallInv, ShownFits
    <3>3. ShownFits'
      BY <3>1, <3>2 DEF ShownFits, Call!ShownOnce
    <3>4. CallTypes' /\ FarFits' /\ SaidFits'
      BY <3>1 DEF CallInv, CallTypes, FarFits, SaidFits
    <3>5. ErrorsFit' /\ NoOverflowBefore'
      BY <3>1 DEF CallInv, CallTypes, SaidFits, ErrorsFit, NoOverflowBefore
    <3>6. QED
      BY <3>3, <3>4, <3>5 DEF CallInv
  <2>2. CASE ctx # "live"
    BY <1>1, <2>2, CallEnds DEF Call!Retry
  <2>3. QED
    BY <2>1, <2>2
<1>2. CASE Call!Refused
  <2>1. PICK status \in Statuses : Call!Failed(Call!codeForStatus(status), {})
    BY <1>2 DEF Call!Refused
  <2>2. Call!codeForStatus(status) \in {"unauthorized", "not_allowed", "protocol"}
    BY DEF Call!codeForStatus
  <2>3. callPc' = "ended" /\ callResult'.kind # "provider" /\ UNCHANGED <<mode, callAttempt>>
    BY <2>1, <2>2 DEF Call!Failed, Call!isTransient
  <2>4. QED
    BY <1>2, <2>3, CallEnds DEF Call!Refused
<1>3. CASE Call!Unreachable \/ Call!ReadEnd \/ Call!IdleFires
  BY <1>3, CallEnds DEF Call!Unreachable, Call!ReadEnd, Call!IdleFires
<1>4. CASE Call!Broken
  BY <1>4, CallEnds DEF Call!Broken
<1>5. CASE Call!Accepted
  <2>1. /\ callPc = "post" /\ far \in {"idle", "returned"} /\ callPc' = "ahead" /\ net' = <<>>
        /\ far' = "model" /\ deltas' = 0 /\ pinger' = "waiting"
        /\ UNCHANGED <<mode, callAttempt, replay, callShown, callResult, said>>
    BY <1>5 DEF Call!Accepted
  <2>2. callShown = <<>> /\ ~replay
    BY <2>1 DEF CallInv, ShownFits
  <2>3. \E num : Numbered(num)'
    <3>1. Numbered([k \in 0..0 |-> 0])'
      BY <2>1, <2>2 DEF Numbered, Given
    <3>2. QED
      BY <3>1
  <2>4. ShownFits'
    BY <2>1, <2>2, <2>3 DEF ShownFits, Call!ShownOnce
  <2>5. CallTypes' /\ FarFits' /\ SaidFits'
    BY <2>1 DEF CallInv, CallTypes, FarFits, SaidFits
  <2>6. ErrorsFit' /\ NoOverflowBefore'
    BY <2>1 DEF CallInv, ErrorsFit, NoOverflowBefore
  <2>7. QED
    BY <2>4, <2>5, <2>6 DEF CallInv
<1>6. CASE Call!Replay
  <2>1. /\ callPc = "handed" /\ replay /\ ~replay' /\ callShown' = Append(callShown, {<<callAttempt, 1>>})
        /\ UNCHANGED <<mode, callPc, callAttempt, callResult, net, far, deltas, pinger, said>>
    BY <1>6 DEF Call!Replay
  <2>2. callShown = <<>> /\ mode = "stream" /\ callAttempt \in Nat
    BY <2>1 DEF CallInv, CallTypes, ShownFits
  <2>3. callShown' = <<{<<callAttempt, 1>>}>> /\ Len(callShown') = 1 /\ callShown' \in Seq(SUBSET Number)
    BY <2>1, <2>2 DEF Number
  <2>4. PICK num : Numbered(num)
    BY <2>1, <2>2 DEF CallInv, ShownFits
  <2>5. Given = 1 /\ Given' = 1
    BY <2>1, <2>2, <2>3 DEF Given
  <2>6. Numbered(num)'
    BY <2>1, <2>4, <2>5 DEF Numbered
  <2>7. Call!ShownOnce'
    BY <2>1, <2>3 DEF Call!ShownOnce
  <2>8. ShownFits'
    BY <2>1, <2>2, <2>6, <2>7 DEF ShownFits
  <2>9. QED
    BY <2>1, <2>3, <2>8 DEF CallInv, CallTypes, FarFits, SaidFits, ErrorsFit, NoOverflowBefore
<1>7. CASE Call!Silence
  BY <1>7, CallStays DEF Call!Silence
<1>8. CASE Call!Cancel
  <2>1. CASE callPc = "backoff"
    BY <1>8, <2>1, CallStays DEF Call!Cancel
  <2>2. CASE callPc # "backoff"
    BY <1>8, <2>2, CallEnds DEF Call!Cancel
  <2>3. QED
    BY <2>1, <2>2
<1>9. QED
  BY <1>1, <1>2, <1>3, <1>4, <1>5, <1>6, <1>7, <1>8

\* The far end's writes: a line that is no error leaves the caller's view in order.
LEMMA WriteKeepsShown ==
  ASSUME CallInv, NEW line \in Lines, net' = Append(net, line),
         UNCHANGED <<mode, callPc, callShown, replay, callAttempt>>,
         IF line.type = "delta"
         THEN deltas' = deltas + 1 /\ line.body = {<<callAttempt, deltas + 1>>}
         ELSE deltas' = deltas
  PROVE  ShownFits' /\ net' \in Seq(Lines)
<1>1. CallTypes /\ ShownFits
  BY DEF CallInv
<1>2. ASSUME mode' = "stream", callPc' \in {"ahead", "handed"} PROVE \E num : Numbered(num)'
  <2>1. PICK num : Numbered(num)
    BY <1>1, <1>2 DEF ShownFits
  <2>2. QED
    BY <1>1, <2>1, NumberedWrite
<1>3. net' \in Seq(Lines)
  BY <1>1, Appended DEF CallTypes
<1>4. QED
  BY <1>1, <1>2, <1>3 DEF ShownFits, Call!ShownOnce

\* The far handler and its pinger.
LEMMA FarStep ==
  ASSUME CallInv,
         \/ Call!Delta \/ Call!Finish \/ Call!Abandoned \/ Call!Return
         \/ Call!PingBegins \/ Call!PingEnds \/ Call!PingerStops
  PROVE  CallInv'
<1> USE DEF Call!timer, Call!caller, Call!Line, Call!Write
<1>0. /\ CallTypes /\ FarFits /\ SaidFits /\ ErrorsFit /\ NoOverflowBefore /\ ShownFits
      /\ net \in Seq(Lines) /\ Len(net) \in Nat /\ callAttempt \in Nat /\ deltas \in Nat
      /\ said \in Seq(BridgeErrors \cup {{"final"}, {"none"}, {"gone"}}) /\ Len(said) \in Nat
  BY DEF CallInv, CallTypes
<1>1. CASE Call!Delta
  <2> DEFINE line == [type |-> "delta", body |-> {<<callAttempt, deltas + 1>>}]
  <2>1. /\ far \in {"model", "lines"} /\ far' = "lines" /\ deltas' = deltas + 1
        /\ net' = Append(net, line)
        /\ UNCHANGED <<mode, callPc, callAttempt, replay, callShown, callResult, pinger, said>>
    BY <1>1 DEF Call!Delta
  <2>2. line \in Lines
    BY <1>0 DEF Lines, Number
  <2>3. ShownFits' /\ net' \in Seq(Lines)
    BY <2>1, <2>2, WriteKeepsShown
  <2>4. \A k \in DOMAIN net' : net'[k].type = "error" => k \in DOMAIN net /\ net'[k] = net[k]
    BY <1>0, <2>1, <2>2, Appended
  <2>5. ErrorsFit'
    BY <1>0, <2>1, <2>4 DEF ErrorsFit
  <2>6. QED
    BY <1>0, <2>1, <2>3, <2>5 DEF CallInv, CallTypes, FarFits, SaidFits, NoOverflowBefore
<1>2. CASE Call!Finish
  <2>1. /\ far \in {"model", "lines"} /\ far' = "closing"
        /\ UNCHANGED <<mode, callPc, callAttempt, replay, callShown, callResult, deltas, pinger>>
    BY <1>2 DEF Call!Finish
  <2>2. PICK e \in BridgeErrors \cup {{"final"}, {"none"}, {"gone"}} :
          /\ said' = Append(said, e)
          /\ \/ net' = Append(net, [type |-> "final", body |-> {}])
             \/ e \in BridgeErrors /\ net' = Append(net, [type |-> "error", body |-> e])
             \/ net' = net
    BY <1>2 DEF Call!Finish
  <2>3. /\ Len(said) + 1 = callAttempt /\ Len(said') = callAttempt /\ said'[callAttempt] = e
        /\ \A n \in DOMAIN said : said'[n] = said[n]
        /\ said' \in Seq(BridgeErrors \cup {{"final"}, {"none"}, {"gone"}})
        /\ \A n \in DOMAIN said' : n = callAttempt \/ n \in DOMAIN said
    BY <1>0, <2>1, <2>2, Appended DEF SaidFits
  <2>4. /\ ShownFits' /\ net' \in Seq(Lines)
    <3>1. CASE net' = Append(net, [type |-> "final", body |-> {}])
      <4>1. [type |-> "final", body |-> {}] \in Lines
        BY DEF Lines
      <4>2. QED
        BY <2>1, <3>1, <4>1, WriteKeepsShown
    <3>2. CASE e \in BridgeErrors /\ net' = Append(net, [type |-> "error", body |-> e])
      <4>1. [type |-> "error", body |-> e] \in Lines
        BY <3>2, ErrorLine
      <4>2. QED
        BY <2>1, <3>2, <4>1, WriteKeepsShown
    <3>3. CASE net' = net
      BY <1>0, <2>1, <3>3, NumbersStand DEF ShownFits
    <3>4. QED
      BY <2>2, <3>1, <3>2, <3>3
  <2>5. ErrorsFit'
    <3>1. callPc' \in {"ahead", "handed"} =>
            \A k \in DOMAIN net : net[k].type # "error"
      BY <1>0, <2>1 DEF ErrorsFit
    <3>2. callPc' \in {"ahead", "handed"} =>
            \A k \in DOMAIN net' : net'[k].type = "error" => net'[k].body = e
      <4>1. CASE net' = Append(net, [type |-> "final", body |-> {}])
        <5>1. [type |-> "final", body |-> {}] \in Lines
          BY DEF Lines
        <5>2. QED
          BY <1>0, <3>1, <4>1, <5>1, Appended
      <4>2. CASE e \in BridgeErrors /\ net' = Append(net, [type |-> "error", body |-> e])
        <5>1. [type |-> "error", body |-> e] \in Lines
          BY <4>2, ErrorLine
        <5>2. QED
          BY <1>0, <3>1, <4>2, <5>1, Appended
      <4>3. CASE net' = net
        BY <3>1, <4>3
      <4>4. QED
        BY <2>2, <4>1, <4>2, <4>3
    <3>3. callResult.kind # "provider"
      BY <1>0, <2>3 DEF ErrorsFit
    <3>4. QED
      BY <2>1, <2>3, <3>2, <3>3 DEF ErrorsFit
  <2>6. NoOverflowBefore'
    <3>1. callPc # "backoff"
      BY <1>0, <2>1 DEF FarFits
    <3>2. QED
      BY <1>0, <2>1, <2>3, <3>1 DEF NoOverflowBefore
  <2>7. FarFits' /\ SaidFits'
    BY <1>0, <2>1, <2>3 DEF FarFits, SaidFits
  <2>8. CallTypes'
    BY <1>0, <2>1, <2>3, <2>4 DEF CallTypes
  <2>9. QED
    BY <2>4, <2>5, <2>6, <2>7, <2>8 DEF CallInv
<1>3. CASE Call!Abandoned
  <2>1. /\ far \in {"model", "lines"} /\ far' = "closing" /\ callPc \in {"ended", "backoff"}
        /\ said' = Append(said, {"gone"})
        /\ UNCHANGED <<mode, callPc, callAttempt, replay, callShown, callResult, net, deltas, pinger>>
    BY <1>3 DEF Call!Abandoned
  <2>2. callPc = "ended"
    BY <1>0, <2>1 DEF FarFits
  <2>3. /\ Len(said) + 1 = callAttempt /\ Len(said') = callAttempt
        /\ \A n \in DOMAIN said : said'[n] = said[n]
        /\ said' \in Seq(BridgeErrors \cup {{"final"}, {"none"}, {"gone"}})
        /\ \A n \in DOMAIN said' : n = callAttempt \/ n \in DOMAIN said
    BY <1>0, <2>1, Appended DEF SaidFits
  <2>4. ShownFits'
    BY <1>0, <2>1, NumbersStand DEF ShownFits
  <2>5. ErrorsFit' /\ NoOverflowBefore'
    BY <1>0, <2>1, <2>2, <2>3 DEF ErrorsFit, NoOverflowBefore
  <2>6. QED
    BY <1>0, <2>1, <2>2, <2>3, <2>4, <2>5 DEF CallInv, CallTypes, FarFits, SaidFits
<1>4. CASE Call!Return
  <2>1. /\ far = "closing" /\ pinger = "stopped" /\ far' = "returned"
        /\ UNCHANGED <<mode, callPc, callAttempt, replay, callShown, callResult, net, deltas, pinger, said>>
    BY <1>4 DEF Call!Return
  <2>2. ShownFits'
    BY <1>0, <2>1, NumbersStand DEF ShownFits
  <2>3. QED
    BY <1>0, <2>1, <2>2 DEF CallInv, CallTypes, FarFits, SaidFits, ErrorsFit, NoOverflowBefore
<1>5. CASE Call!PingBegins
  BY <1>5, CallStays DEF Call!PingBegins
<1>6. CASE Call!PingEnds
  <2>1. /\ pinger = "writing" /\ pinger' = "waiting"
        /\ net' = Append(net, [type |-> "ping", body |-> {}]) \/ net' = net
        /\ UNCHANGED <<mode, callPc, callAttempt, replay, callShown, callResult, far, deltas, said>>
    BY <1>6 DEF Call!PingEnds
  <2>2. [type |-> "ping", body |-> {}] \in Lines
    BY DEF Lines
  <2>3. ShownFits' /\ net' \in Seq(Lines)
    <3>1. CASE net' = Append(net, [type |-> "ping", body |-> {}])
      BY <2>1, <2>2, <3>1, WriteKeepsShown
    <3>2. CASE net' = net
      BY <1>0, <2>1, <3>2, NumbersStand DEF ShownFits
    <3>3. QED
      BY <2>1, <3>1, <3>2
  <2>4. \A k \in DOMAIN net' : net'[k].type = "error" => k \in DOMAIN net /\ net'[k] = net[k]
    <3>1. CASE net' = Append(net, [type |-> "ping", body |-> {}])
      BY <1>0, <2>2, <3>1, Appended
    <3>2. QED
      BY <2>1, <3>1
  <2>5. ErrorsFit'
    BY <1>0, <2>1, <2>4 DEF ErrorsFit
  <2>6. QED
    BY <1>0, <2>1, <2>3, <2>5 DEF CallInv, CallTypes, FarFits, SaidFits, NoOverflowBefore
<1>7. CASE Call!PingerStops
  <2>1. /\ pinger = "waiting" /\ far \in {"closing", "returned"} /\ pinger' = "stopped"
        /\ UNCHANGED <<mode, callPc, callAttempt, replay, callShown, callResult, net, far, deltas, said>>
    BY <1>7 DEF Call!PingerStops
  <2>2. ShownFits'
    BY <1>0, <2>1, NumbersStand DEF ShownFits
  <2>3. QED
    BY <1>0, <2>1, <2>2 DEF CallInv, CallTypes, FarFits, SaidFits, ErrorsFit, NoOverflowBefore
<1>8. QED
  BY <1>1, <1>2, <1>3, <1>4, <1>5, <1>6, <1>7

\* The caller reads a line.
LEMMA ReadStep ==
  ASSUME CallInv, Call!ReadLine
  PROVE  CallInv'
<1> USE DEF Call!server, Call!Outcome
<1> DEFINE line == Head(net)
<1>0. /\ CallTypes /\ FarFits /\ SaidFits /\ ErrorsFit /\ NoOverflowBefore /\ ShownFits
      /\ net \in Seq(Lines) /\ callAttempt \in Nat /\ callShown \in Seq(SUBSET Number)
  BY DEF CallInv, CallTypes
<1>1. /\ callPc \in {"ahead", "handed"} /\ ~replay /\ net # <<>> /\ net' = Tail(net)
      /\ UNCHANGED <<far, deltas, pinger, said>>
  BY DEF Call!ReadLine, Call!Reading
<1>2. \/ line.type = "ping" /\ UNCHANGED Call!caller
      \/ Call!ReadDelta(line)
      \/ Call!ReadError(line)
      \/ line.type = "final" /\ Call!End(Call!Outcome("final", {})) /\ UNCHANGED <<replay, callShown>>
  BY DEF Call!ReadLine
<1>3. /\ net' \in Seq(Lines) /\ Len(net') = Len(net) - 1 /\ Len(net) \in Nat /\ Len(net) >= 1
      /\ \A k \in 1..Len(net) - 1 : net'[k] = net[k + 1]
      /\ line = net[1] /\ line \in Lines
  BY <1>0, <1>1, Tailed
<1>4. \A k \in DOMAIN net' : k + 1 \in DOMAIN net /\ net'[k] = net[k + 1]
  BY <1>0, <1>3
<1>5. Len(said) = callAttempt \/ far \in {"model", "lines"}
  BY <1>0, <1>1 DEF CallTypes, SaidFits, FarFits
<1>6. \A k \in DOMAIN net : net[k].type = "error" =>
        far \in {"closing", "returned"} /\ net[k].body = said[callAttempt]
  BY <1>0, <1>1 DEF ErrorsFit
<1> HIDE DEF line
\* Anything but an error of the model: the far end's books are untouched.
<1>7. ASSUME callPc' \in {"ahead", "handed", "ended"}, UNCHANGED <<mode, callAttempt>>,
             callResult'.kind # "provider", ShownFits', callShown' \in Seq(SUBSET Number)
      PROVE  CallInv'
  <2>1. CallTypes'
    BY <1>0, <1>1, <1>3, <1>7 DEF CallTypes
  <2>2. FarFits' /\ SaidFits' /\ NoOverflowBefore'
    BY <1>0, <1>1, <1>7 DEF FarFits, SaidFits, NoOverflowBefore
  <2>3. ErrorsFit'
    BY <1>1, <1>4, <1>6, <1>7 DEF ErrorsFit
  <2>4. QED
    BY <1>7, <2>1, <2>2, <2>3 DEF CallInv
<1>8. callResult.kind # "provider"
  BY <1>0, <1>1 DEF ErrorsFit
\* A line that is no delta gives nothing.
<1>9. ASSUME line.type # "delta", UNCHANGED <<mode, callAttempt, replay, callShown>>,
             callPc' \in {callPc, "ended", "backoff"},
             callPc' = "backoff" => callPc = "ahead"
      PROVE  ShownFits'
  <2>1. ASSUME mode = "stream", callPc' \in {"ahead", "handed"} PROVE \E num : Numbered(num)'
    <3>1. PICK num : Numbered(num)
      BY <1>0, <1>1, <2>1 DEF ShownFits
    <3>2. num[1] = Given /\ Given' = Given
      BY <1>3, <1>9, <3>1 DEF Numbered, Given
    <3>3. QED
      BY <1>0, <1>1, <1>9, <3>1, <3>2, NumberedRead
  <2>2. QED
    BY <1>0, <1>1, <1>9, <2>1 DEF ShownFits, Call!ShownOnce
<1>10. CASE line.type = "ping" /\ UNCHANGED Call!caller
  <2>1. UNCHANGED <<mode, callPc, callAttempt, replay, callShown, callResult>>
    BY <1>10 DEF Call!caller
  <2>2. ShownFits'
    BY <1>1, <1>9, <1>10, <2>1
  <2>3. QED
    BY <1>0, <1>1, <1>7, <1>8, <2>1, <2>2
<1>11. CASE line.type = "final" /\ Call!End(Call!Outcome("final", {})) /\ UNCHANGED <<replay, callShown>>
  <2>1. callPc' = "ended" /\ callResult'.kind = "final" /\ UNCHANGED <<mode, callAttempt, replay, callShown>>
    BY <1>11 DEF Call!End
  <2>2. ShownFits'
    BY <1>1, <1>9, <1>11, <2>1
  <2>3. QED
    BY <1>0, <1>7, <2>1, <2>2
<1>12. CASE Call!ReadDelta(line)
  <2>1. line.type = "delta" /\ UNCHANGED <<mode, callAttempt, callResult>>
    BY <1>12 DEF Call!ReadDelta
  <2>2. CASE mode = "call"
    <3>1. UNCHANGED <<callPc, replay, callShown>>
      BY <1>12, <2>2 DEF Call!ReadDelta
    <3>2. ShownFits'
      BY <1>0, <1>1, <2>1, <2>2, <3>1 DEF ShownFits, Call!ShownOnce
    <3>3. QED
      BY <1>0, <1>1, <1>7, <1>8, <2>1, <3>1, <3>2
  <2>3. CASE mode = "stream"
    <3>1. /\ callPc' = "handed" /\ (replay' <=> callPc = "ahead")
          /\ callShown' = IF callPc = "ahead" THEN callShown ELSE Append(callShown, line.body)
      BY <1>12, <2>3 DEF Call!ReadDelta
    <3>2. PICK num : Numbered(num)
      BY <1>0, <1>1, <2>3 DEF ShownFits
    <3>3. Given = Len(callShown) /\ Len(callShown) \in Nat
      BY <1>0, <1>1 DEF Given
    <3>4. num[1] = Len(callShown) + 1 /\ line.body = {<<callAttempt, Len(callShown) + 1>>}
      <4>1. 1 \in 1..Len(net) /\ net[1].type = "delta"
        BY <1>3, <2>1
      <4>2. /\ num[0] = Given
            /\ num[1] = num[1 - 1] + 1 /\ net[1].body = {<<callAttempt, num[1]>>}
        BY <3>2, <4>1 DEF Numbered
      <4>3. QED
        BY <1>3, <3>3, <4>2
    <3>5. CASE callPc = "ahead"
      <4>1. callShown = <<>> /\ callShown' = callShown /\ replay'
        BY <1>0, <3>1, <3>5 DEF ShownFits
      <4>2. Given' = num[1]
        BY <3>4, <4>1 DEF Given
      <4>3. \E m : Numbered(m)'
        BY <1>0, <1>1, <2>1, <3>2, <4>2, NumberedRead
      <4>4. ShownFits'
        BY <1>0, <2>1, <2>3, <3>1, <4>1, <4>3 DEF ShownFits, Call!ShownOnce
      <4>5. QED
        BY <1>0, <1>7, <1>8, <2>1, <3>1, <4>1, <4>4
    <3>6. CASE callPc = "handed"
      <4>1. callShown' = Append(callShown, line.body) /\ ~replay'
        BY <3>1, <3>6
      <4>2. line.body \in SUBSET Number
        BY <1>0, <3>3, <3>4 DEF Number
      <4>3. /\ callShown' \in Seq(SUBSET Number) /\ Len(callShown') = Len(callShown) + 1
            /\ \A i \in 1..Len(callShown) : callShown'[i] = callShown[i]
            /\ callShown'[Len(callShown) + 1] = line.body
        BY <1>0, <4>1, <4>2, Appended
      <4>4. Given' = num[1]
        BY <3>4, <4>1, <4>3 DEF Given
      <4>5. \E m : Numbered(m)'
        BY <1>0, <1>1, <2>1, <3>2, <4>4, NumberedRead
      <4>6. Call!ShownOnce'
        <5>1. ASSUME NEW i \in DOMAIN callShown' PROVE callShown'[i] = {<<callAttempt, i>>}
          <6>1. i \in 1..Len(callShown) \/ i = Len(callShown) + 1
            BY <3>3, <4>3
          <6>2. \A j \in 1..Len(callShown) : callShown[j] = {<<callAttempt, j>>}
            BY <1>0 DEF ShownFits, Call!ShownOnce
          <6>3. QED
            BY <3>4, <4>3, <6>1, <6>2
        <5>2. QED
          BY <2>1, <5>1 DEF Call!ShownOnce
      <4>7. ShownFits'
        BY <2>1, <2>3, <3>1, <4>1, <4>5, <4>6 DEF ShownFits
      <4>8. QED
        BY <1>7, <1>8, <2>1, <3>1, <4>3, <4>7
    <3>7. QED
      BY <1>1, <3>5, <3>6
  <2>4. QED
    BY <1>0, <2>2, <2>3 DEF CallTypes
<1>13. CASE Call!ReadError(line)
  <2>1. /\ line.type = "error" /\ UNCHANGED <<replay, callShown>>
        /\ far \in {"closing", "returned"} /\ line.body = said[callAttempt] /\ Len(said) = callAttempt
    BY <1>3, <1>5, <1>6, <1>13 DEF Call!ReadError
  <2>2. \/ /\ callPc' = "ended" /\ callResult' = [kind |-> "provider", body |-> line.body]
           /\ UNCHANGED <<mode, callAttempt>>
        \/ /\ callPc = "ahead" /\ callPc' = "backoff" /\ "overflow" \notin line.body
           /\ UNCHANGED <<mode, callAttempt, callResult>>
    BY <1>13 DEF Call!ReadError, Call!Failed, Call!End, Call!isTransient
  <2>3. ShownFits'
    BY <1>1, <1>9, <2>1, <2>2
  <2>4. CallTypes'
    BY <1>0, <1>1, <1>3, <2>1, <2>2 DEF CallTypes
  <2>5. FarFits' /\ SaidFits'
    BY <1>0, <1>1, <2>1, <2>2 DEF FarFits, SaidFits
  <2>6. ErrorsFit'
    BY <1>1, <1>8, <2>1, <2>2 DEF ErrorsFit
  <2>7. NoOverflowBefore'
    <3>1. \A n \in DOMAIN said : n < callAttempt \/ n = callAttempt
      BY <1>0, <2>1 DEF CallTypes
    <3>2. QED
      BY <1>0, <1>1, <2>1, <2>2, <3>1 DEF NoOverflowBefore
  <2>8. QED
    BY <2>3, <2>4, <2>5, <2>6, <2>7 DEF CallInv
<1>14. QED
  BY <1>2, <1>10, <1>11, <1>12, <1>13

\* Every step of either end of a call keeps it.
LEMMA CallStep == CallInv /\ [Call!Next]_(Call!vars) => CallInv'
<1> SUFFICES ASSUME CallInv, [Call!Next]_(Call!vars) PROVE CallInv'
  OBVIOUS
<1>1. CASE UNCHANGED Call!vars
  BY <1>1, CallStays DEF Call!vars, Call!caller, Call!server
<1>2. CASE Call!Next
  BY <1>2, CallerStep, FarStep, ReadStep DEF Call!Next
<1>3. QED
  BY <1>1, <1>2

\* Text is shown once and in order however often a call is retried, an overflow is
\* never retried and reaches the caller verbatim, and the pinger is joined before
\* the handler returns (retry.go, provider.go, server.go).
THEOREM StreamsAreFaithful == Call!Spec => []StreamIsFaithful
<1>1. Call!Init => CallInv
  BY CallInit, CallAssumption DEF CallAssumption
<1>2. CallInv /\ [Call!Next]_(Call!vars) => CallInv'
  BY CallStep
<1>3. CallInv => StreamIsFaithful
  <2> SUFFICES ASSUME CallInv PROVE Call!ShownOnce /\ Call!OverflowReaches /\ Call!PingerJoined
    BY DEF StreamIsFaithful
  <2>1. \A n \in DOMAIN said : n <= callAttempt /\ callAttempt \in Nat /\ n \in Nat
    BY DEF CallInv, CallTypes, SaidFits
  <2>2. Call!OverflowReaches
    BY <2>1 DEF CallInv, Call!OverflowReaches, ErrorsFit, NoOverflowBefore
  <2>3. Call!ShownOnce /\ Call!PingerJoined
    BY DEF CallInv, ShownFits, FarFits, Call!PingerJoined
  <2>4. QED
    BY <2>2, <2>3
<1>4. QED
  BY <1>1, <1>2, <1>3, PTL DEF Call!Spec

-----------------------------------------------------------------------------
(***************************************************************************)
(* The lesson corpus.  Hands that write the same row write different parts *)
(* of it, and the miners of a server are gone before its configuration is; *)
(* so the index they all decide by is one the candidates can be compared   *)
(* with.                                                                   *)
(***************************************************************************)
LessonRow ==
  [topic : Topics, embedder : {c.embedder : c \in Setups} \cup {"api1"}, score : Int, loads : Int]
LessonTable(f) == \A i \in DOMAIN f : f[i] \in LessonRow

\* Who mines, what is left to do, and what has been listed.
MinersFit ==
  /\ lessonPc \in [Mined -> {"new", "next", "judge", "swap", "mined"}]
  /\ todo \in [Mined -> Seq(Topics)]
  /\ DOMAIN listed = Mined /\ \A r \in Mined : LessonTable(listed[r])
  /\ \A r \in Mined :
       /\ lessonPc[r] \in {"next", "judge", "swap"} => lessonConf # Lesson!Off
       /\ lessonPc[r] = "judge" => todo[r] # <<>>

\* The rows and the uses that were counted.
CorpusFits ==
  /\ LessonTable(lessonRows)
  /\ DOMAIN counted = DOMAIN lessonRows
  /\ \A i \in DOMAIN lessonRows : lessonRows[i].loads = counted[i]

\* The index is of the embedder that queries are embedded with.
IndexFits ==
  /\ LessonTable(lessonIndex)
  /\ lessonConf # Lesson!Off =>
       \A i \in DOMAIN lessonIndex : Lesson!Indexable(lessonConf, lessonIndex[i])

SearchFits ==
  /\ lessonConf \in Setups \cup {Lesson!Off}
  /\ ~lessonConf.reads => lessonShown = {}

LessonInv ==
  Lesson!LessonsAssumption /\ MinersFit /\ CorpusFits /\ IndexFits /\ SearchFits

\* Among the lessons of an index there is one that is nearest.
LEMMA NearestIsNearest ==
  ASSUME LessonInv, NEW t \in Topics, DOMAIN lessonIndex # {}
  PROVE  /\ Lesson!Nearest(t) \in DOMAIN lessonIndex
         /\ \A j \in DOMAIN lessonIndex :
              Sim[<<t, lessonIndex[Lesson!Nearest(t)].topic>>] >= Sim[<<t, lessonIndex[j].topic>>]
<1> DEFINE near(i) == Sim[<<t, lessonIndex[i].topic>>]
<1>1. PICK p \in Topics \X Topics : \A q \in Topics \X Topics : Sim[q] <= Sim[p]
  BY DEF LessonInv, Lesson!LessonsAssumption
<1>2. Sim[p] \in Int /\ \A i \in DOMAIN lessonIndex : near(i) \in Int /\ near(i) <= Sim[p]
  BY <1>1 DEF LessonInv, Lesson!LessonsAssumption, IndexFits, LessonTable, LessonRow
<1> DEFINE gaps == {Sim[p] - near(i) : i \in DOMAIN lessonIndex}
<1>3. gaps \in SUBSET Nat /\ gaps # {}
  <2>1. \A i \in DOMAIN lessonIndex : Sim[p] - near(i) \in Nat
    <3> HIDE DEF near
    <3> QED
      BY <1>2
  <2>2. QED
    BY <2>1
<1>4. PICK least \in gaps : \A k \in gaps : ~(<<k, least>> \in OpToRel(<, Nat))
  <2> HIDE DEF gaps
  <2> QED
    BY <1>3, NatLessThanWellFounded, WFMin
<1>5. PICK i \in DOMAIN lessonIndex : least = Sim[p] - near(i)
  BY <1>4
<1>6. \A j \in DOMAIN lessonIndex : near(i) >= near(j)
  <2> TAKE j \in DOMAIN lessonIndex
  <2>1. Sim[p] - near(j) \in gaps /\ ~(Sim[p] - near(j) < least)
    BY <1>3, <1>4 DEF OpToRel
  <2>2. QED
    BY <1>2, <1>5, <2>1
<1>7. QED
  BY <1>6 DEF Lesson!Nearest

\* No server runs, one lesson is there.
LEMMA LessonInit == Lesson!LessonsAssumption /\ Lesson!Init => LessonInv
BY DEF Lesson!Init, Lesson!Off, LessonInv, MinersFit, CorpusFits, IndexFits, SearchFits,
   LessonTable, LessonRow

\* A lesson comes with no use counted.
LEMMA Inserted ==
  ASSUME LessonInv, NEW r \in Mined, Lesson!Insert(r), todo[r] # <<>>, lessonConf # Lesson!Off
  PROVE  /\ CorpusFits'
         /\ \A i \in DOMAIN lessonRows' \ DOMAIN lessonRows : lessonRows'[i].topic = Head(todo[r])
<1>1. Head(todo[r]) \in Topics
  BY DEF LessonInv, MinersFit
<1>2. [topic |-> Head(todo[r]), embedder |-> lessonConf.embedder, score |-> 0, loads |-> 0]
        \in LessonRow
  BY <1>1 DEF LessonInv, SearchFits, LessonRow
<1>3. QED
  BY <1>2 DEF Lesson!Insert, Lesson!Adopt, Lesson!Candidate, LessonInv, CorpusFits, LessonTable,
     LessonRow

\* A candidate less.
LEMMA Proceeded ==
  ASSUME LessonInv, NEW r \in Mined, Lesson!Proceed(r), todo[r] # <<>>,
         lessonConf # Lesson!Off, UNCHANGED <<lessonConf, listed>>
  PROVE  MinersFit' /\ lessonPc'[r] = "next"
<1>1. Tail(todo[r]) \in Seq(Topics)
  BY DEF LessonInv, MinersFit
<1>2. QED
  BY <1>1 DEF Lesson!Proceed, LessonInv, MinersFit

\* A lesson is rewritten, and keeps the uses it has.
LEMMA Superseded ==
  ASSUME LessonInv, NEW r \in Mined, Lesson!Supersede(r), todo[r] # <<>>,
         lessonConf # Lesson!Off, UNCHANGED counted
  PROVE  CorpusFits' /\ DOMAIN lessonRows' = DOMAIN lessonRows
<1>1. Head(todo[r]) \in Topics
  BY DEF LessonInv, MinersFit
<1>2. lessonConf.embedder \in {c.embedder : c \in Setups}
  BY DEF LessonInv, SearchFits
<1>3. /\ DOMAIN lessonRows' = DOMAIN lessonRows
      /\ \A i \in DOMAIN lessonRows : i # hit[r] => lessonRows'[i] = lessonRows[i]
      /\ \A i \in DOMAIN lessonRows : i = hit[r] =>
           lessonRows'[i] = [[lessonRows[i] EXCEPT !.topic = Head(todo[r])]
                               EXCEPT !.embedder = lessonConf.embedder]
  BY DEF Lesson!Supersede, Lesson!Candidate
<1>4. ASSUME NEW i \in DOMAIN lessonRows
      PROVE  lessonRows'[i] \in LessonRow /\ lessonRows'[i].loads = lessonRows[i].loads
  <2>1. lessonRows[i] \in LessonRow
    BY DEF LessonInv, CorpusFits, LessonTable
  <2>2. CASE i = hit[r]
    BY <1>1, <1>2, <1>3, <2>1, <2>2 DEF LessonRow
  <2>3. CASE i # hit[r]
    BY <1>3, <2>1, <2>3
  <2>4. QED
    BY <2>2, <2>3
<1>5. QED
  BY <1>3, <1>4 DEF LessonInv, CorpusFits, LessonTable

\* Servers start and end, runs are mined, lessons are found, used and judged.
LEMMA LessonStep == LessonInv /\ [Lesson!Next]_(Lesson!vars) => LessonInv'
<1> SUFFICES ASSUME LessonInv, [Lesson!Next]_(Lesson!vars) PROVE LessonInv'
  OBVIOUS
<1>0. /\ LessonInv /\ Lesson!LessonsAssumption'
      /\ MinersFit /\ CorpusFits /\ IndexFits /\ SearchFits
  BY DEF LessonInv, Lesson!LessonsAssumption
<1>1. CASE UNCHANGED Lesson!vars
  BY <1>0, <1>1 DEF Lesson!vars, LessonInv, MinersFit, CorpusFits, IndexFits, SearchFits
<1>2. ASSUME NEW c \in Setups, Lesson!Start(c) PROVE LessonInv'
  <2>1. MinersFit'
    BY <1>0, <1>2 DEF Lesson!Start, MinersFit
  <2>2. CorpusFits' /\ SearchFits'
    BY <1>0, <1>2 DEF Lesson!Start, CorpusFits, SearchFits, Lesson!Off
  <2>3. IndexFits'
    BY <1>0, <1>2 DEF Lesson!Start, Lesson!IndexOf, CorpusFits, IndexFits, LessonTable
  <2>4. QED
    BY <1>0, <2>1, <2>2, <2>3 DEF LessonInv
<1>3. CASE Lesson!Stop
  <2>1. MinersFit'
    BY <1>0, <1>3 DEF Lesson!Stop, MinersFit, LessonTable
  <2>2. CorpusFits' /\ SearchFits' /\ IndexFits'
    BY <1>0, <1>3 DEF Lesson!Stop, CorpusFits, SearchFits, IndexFits, LessonTable
  <2>3. QED
    BY <1>0, <2>1, <2>2 DEF LessonInv
<1>4. CASE Lesson!Search
  BY <1>0, <1>4 DEF Lesson!Search, Lesson!LessonReady, LessonInv, MinersFit, CorpusFits, IndexFits,
     SearchFits
<1>5. ASSUME NEW r \in Mined, Lesson!Propose(r) PROVE LessonInv'
  <2>1. CorpusFits' /\ IndexFits' /\ SearchFits'
    BY <1>0, <1>5 DEF Lesson!Propose, CorpusFits, IndexFits, SearchFits
  <2>2. \A b \in Batches : b \in Seq(Topics)
    BY <1>0 DEF LessonInv, Lesson!LessonsAssumption
  <2>3. MinersFit'
    BY <1>0, <1>5, <2>2 DEF Lesson!Propose, MinersFit
  <2>4. QED
    BY <1>0, <2>1, <2>3 DEF LessonInv
<1>6. ASSUME NEW r \in Mined, Lesson!InsertNew(r) PROVE LessonInv'
  <2>1. lessonConf # Lesson!Off /\ todo[r] # <<>> /\ Lesson!Proceed(r)
    BY <1>0, <1>6 DEF Lesson!InsertNew, MinersFit
  <2>2. UNCHANGED <<lessonConf, lessonIndex, listed, lessonShown>>
    BY <1>6 DEF Lesson!InsertNew
  <2>3. MinersFit'
    BY <1>0, <2>1, <2>2, Proceeded
  <2>4. IndexFits' /\ SearchFits'
    BY <1>0, <2>2 DEF IndexFits, SearchFits
  <2>5. CorpusFits'
    <3>1. CASE Lesson!Insert(r)
      BY <1>0, <2>1, <3>1, Inserted
    <3>2. CASE UNCHANGED <<lessonRows, counted, changed>>
      BY <1>0, <3>2 DEF CorpusFits
    <3>3. QED
      BY <1>6, <3>1, <3>2 DEF Lesson!InsertNew
  <2>6. QED
    BY <1>0, <2>3, <2>4, <2>5 DEF LessonInv
<1>7. ASSUME NEW r \in Mined, Lesson!AskJudge(r) PROVE LessonInv'
  BY <1>0, <1>7 DEF Lesson!AskJudge, LessonInv, MinersFit, CorpusFits, IndexFits, SearchFits
<1>8. ASSUME NEW r \in Mined, Lesson!Verdict(r) PROVE LessonInv'
  <2>1. lessonConf # Lesson!Off /\ todo[r] # <<>> /\ Lesson!Proceed(r)
    BY <1>0, <1>8 DEF Lesson!Verdict, MinersFit
  <2>2. UNCHANGED <<lessonConf, lessonIndex, listed, lessonShown>>
    BY <1>8 DEF Lesson!Verdict
  <2>3. MinersFit'
    BY <1>0, <2>1, <2>2, Proceeded
  <2>4. IndexFits' /\ SearchFits'
    BY <1>0, <2>2 DEF IndexFits, SearchFits
  <2>5. CorpusFits'
    <3>1. CASE UNCHANGED <<lessonRows, counted, changed>>
      BY <1>0, <3>1 DEF CorpusFits
    <3>2. CASE Lesson!Supersede(r) /\ UNCHANGED counted
      BY <1>0, <2>1, <3>2, Superseded
    <3>3. CASE Lesson!Insert(r)
      BY <1>0, <2>1, <3>3, Inserted
    <3>4. QED
      BY <1>8, <3>1, <3>2, <3>3 DEF Lesson!Verdict
  <2>6. QED
    BY <1>0, <2>3, <2>4, <2>5 DEF LessonInv
<1>9. ASSUME NEW r \in Mined, Lesson!ListRows(r) PROVE LessonInv'
  <2>1. CorpusFits' /\ IndexFits' /\ SearchFits'
    BY <1>0, <1>9 DEF Lesson!ListRows, CorpusFits, IndexFits, SearchFits
  <2>2. MinersFit'
    BY <1>0, <1>9 DEF Lesson!ListRows, MinersFit, CorpusFits
  <2>3. QED
    BY <1>0, <2>1, <2>2 DEF LessonInv
<1>10. ASSUME NEW r \in Mined, Lesson!SwapIndex(r) PROVE LessonInv'
  <2>1. CorpusFits' /\ SearchFits'
    BY <1>0, <1>10 DEF Lesson!SwapIndex, CorpusFits, SearchFits
  <2>2. MinersFit'
    BY <1>0, <1>10 DEF Lesson!SwapIndex, MinersFit, LessonTable
  <2>3. IndexFits'
    BY <1>0, <1>10 DEF Lesson!SwapIndex, Lesson!IndexOf, MinersFit, IndexFits, LessonTable
  <2>4. QED
    BY <1>0, <2>1, <2>2, <2>3 DEF LessonInv
<1>11. ASSUME NEW id \in DOMAIN lessonRows, Lesson!Load(id) PROVE LessonInv'
  <2>1. MinersFit' /\ IndexFits' /\ SearchFits'
    BY <1>0, <1>11 DEF Lesson!Load, Lesson!LessonReady, MinersFit, IndexFits, SearchFits
  <2>2. CorpusFits'
    BY <1>0, <1>11 DEF Lesson!Load, CorpusFits, LessonTable, LessonRow
  <2>3. QED
    BY <1>0, <2>1, <2>2 DEF LessonInv
<1>12. ASSUME NEW id \in DOMAIN lessonRows, Lesson!Judged(id) PROVE LessonInv'
  <2>1. MinersFit' /\ IndexFits' /\ SearchFits'
    BY <1>0, <1>12 DEF Lesson!Judged, MinersFit, IndexFits, SearchFits
  <2>2. CorpusFits'
    BY <1>0, <1>12 DEF Lesson!Judged, CorpusFits, LessonTable, LessonRow
  <2>3. QED
    BY <1>0, <2>1, <2>2 DEF LessonInv
<1>13. QED
  BY <1>1, <1>2, <1>3, <1>4, <1>5, <1>6, <1>7, <1>8, <1>9, <1>10, <1>11, <1>12
  DEF Lesson!Next, Lesson!Ids

\* Only a miner that has found nothing close enlarges the corpus unasked.
LEMMA LessonJudged ==
  ASSUME LessonInv, Lesson!Next
  PROVE  Lesson!DuplicatesAreJudged
<1> SUFFICES ASSUME NEW id \in DOMAIN lessonRows' \ DOMAIN lessonRows,
                    \A r \in Mined : lessonPc[r] # "judge" \/ lessonPc'[r] = "judge",
                    Lesson!Embedded, NEW i \in DOMAIN lessonIndex
             PROVE  /\ Sim[<<lessonRows'[id].topic, lessonIndex[i].topic>>] < Threshold
                    /\ Lesson!Fused(lessonConf)
                         \/ lessonIndex[i].embedder = lessonConf.embedder
  BY DEF Lesson!DuplicatesAreJudged
<1>0. MinersFit /\ CorpusFits /\ IndexFits /\ Lesson!LessonsAssumption
  BY DEF LessonInv
<1>1. PICK r \in Mined : Lesson!InsertNew(r) \/ Lesson!Verdict(r)
  BY DEF Lesson!Next, Lesson!Start, Lesson!Stop, Lesson!Search, Lesson!Propose, Lesson!AskJudge,
     Lesson!ListRows, Lesson!SwapIndex, Lesson!Load, Lesson!Judged
<1>2. todo[r] # <<>> /\ lessonConf # Lesson!Off /\ Lesson!Proceed(r)
      /\ UNCHANGED <<lessonConf, listed>>
  BY <1>0, <1>1 DEF MinersFit, Lesson!InsertNew, Lesson!Verdict
<1>3. lessonPc'[r] = "next"
  BY <1>2, Proceeded
<1>4. lessonPc[r] # "judge" /\ Lesson!InsertNew(r)
  BY <1>1, <1>3 DEF Lesson!Verdict
<1>5. Head(todo[r]) \in Topics /\ lessonRows'[id].topic = Head(todo[r])
  <2>1. Lesson!Insert(r)
    BY <1>4 DEF Lesson!InsertNew
  <2>2. QED
    BY <1>0, <1>2, <2>1, Inserted DEF MinersFit
<1>6. Lesson!Indexable(lessonConf, lessonIndex[i])
  BY <1>0, <1>2 DEF IndexFits
<1>7. Sim[<<Head(todo[r]), lessonIndex[i].topic>>] < Threshold
  <2> DEFINE near(j) == Sim[<<Head(todo[r]), lessonIndex[j].topic>>]
             best == Lesson!Nearest(Head(todo[r]))
  <2>1. best \in DOMAIN lessonIndex /\ near(best) >= near(i)
    BY <1>5, NearestIsNearest
  <2>2. ~(near(best) >= Threshold)
    BY <1>4 DEF Lesson!InsertNew, Lesson!Close, Lesson!Candidate
  <2>3. \A j \in DOMAIN lessonIndex : near(j) \in Int
    BY <1>0, <1>5 DEF Lesson!LessonsAssumption, IndexFits, LessonTable, LessonRow
  <2>4. Threshold \in Int
    BY <1>0 DEF Lesson!LessonsAssumption
  <2>5. QED
    <3> HIDE DEF near, best
    <3>1. near(best) < Threshold /\ near(i) <= near(best)
      BY <2>1, <2>2, <2>3, <2>4
    <3>2. near(i) < Threshold
      BY <2>1, <2>3, <2>4, <3>1
    <3>3. QED
      BY <3>2 DEF near
<1>8. QED
  BY <1>5, <1>6, <1>7 DEF Lesson!Indexable

\* A use that was counted stays with its lesson whoever rewrites it, agents of a
\* server with lesson search off see none, and what is inserted without a verdict is
\* close to nothing in the index (MineLessons, UpdateLesson, IncrementLessonLoadCount).
THEOREM LessonsLast == Lesson!Spec => LessonsAreKept
<1>1. Lesson!Init => LessonInv
  BY LessonInit, LessonAssumption DEF LessonAssumption
<1>2. LessonInv /\ [Lesson!Next]_(Lesson!vars) => LessonInv'
  BY LessonStep
<1>3. LessonInv => (instance \in {"lesson", "miners"} => Lesson!UsesSurvive)
  BY DEF LessonInv, CorpusFits, SearchFits, Lesson!UsesSurvive, Lesson!Ids
<1>4. LessonInv /\ [Lesson!Next]_(Lesson!vars)
        => [(instance \in {"lesson", "miners"}) => Lesson!DuplicatesAreJudged]_LessonVars
  <2>1. UNCHANGED Lesson!vars => UNCHANGED LessonVars
    BY DEF Lesson!vars, LessonVars
  <2>2. QED
    BY <2>1, LessonJudged
<1>5. QED
  BY <1>1, <1>2, <1>3, <1>4, PTL DEF Lesson!Spec, LessonsAreKept

-----------------------------------------------------------------------------
(***************************************************************************)
(* The dashboard's notices and badge.  The badge compares two timestamps;  *)
(* the history says what it is for.                                        *)
(***************************************************************************)
\* What the instance counts with is what the theorems about finite sets are about.
LEMMA DashFinite == \A S : Dash!IsFiniteSet(S) <=> IsFiniteSet(S)
BY DEF IsFiniteSet, Dash!IsFiniteSet

\* And of their sizes.
LEMMA DashCardinality == \A S : Dash!Cardinality(S) = Cardinality(S)
BY DEF Cardinality, Dash!Cardinality

Counted == {n \in Notifiers : notifier[n] = "counted"}

\* Whoever has counted saw room for one: the last to do so had the others before it.
NoticesInv ==
  /\ Dash!BoardAssumption
  /\ notifier \in [Notifiers -> {"idle", "counted"}] /\ notices \in Nat
  /\ notices + Cardinality(Counted) <= maxEnvNoticesPerStep + Cardinality(Notifiers) - 1

\* One notifier more, or one less, has counted.
LEMMA CountedChanges ==
  ASSUME NoticesInv, NEW n \in Notifiers
  PROVE  /\ Cardinality(Notifiers) \in Nat /\ Cardinality(Counted) \in Nat
         /\ notifier[n] = "idle" => Cardinality(Counted) <= Cardinality(Notifiers) - 1
         /\ notifier[n] = "idle" /\ notifier' = [notifier EXCEPT ![n] = "counted"] =>
              Cardinality(Counted') = Cardinality(Counted) + 1
         /\ notifier[n] = "counted" /\ notifier' = [notifier EXCEPT ![n] = "idle"] =>
              Cardinality(Counted') = Cardinality(Counted) - 1
<1>1. IsFiniteSet(Notifiers) /\ Counted \subseteq Notifiers
  BY DashFinite DEF NoticesInv, Dash!BoardAssumption, Counted
<1>2. IsFiniteSet(Counted) /\ Cardinality(Counted) \in Nat /\ Cardinality(Notifiers) \in Nat
  BY <1>1, FS_Subset, FS_CardinalityType
<1>3. ASSUME notifier[n] = "idle" PROVE Cardinality(Counted) <= Cardinality(Notifiers) - 1
  <2>1. n \notin Counted
    BY <1>3 DEF Counted
  <2>2. Cardinality(Counted \cup {n}) = Cardinality(Counted) + 1
    BY <1>2, <2>1, FS_AddElement
  <2>3. Cardinality(Counted \cup {n}) <= Cardinality(Notifiers)
    BY <1>1, FS_Subset
  <2>4. QED
    BY <1>2, <2>2, <2>3
<1>4. ASSUME notifier[n] = "idle", notifier' = [notifier EXCEPT ![n] = "counted"]
      PROVE  Cardinality(Counted') = Cardinality(Counted) + 1
  <2>1. n \notin Counted /\ Counted' = Counted \cup {n}
    BY <1>4 DEF Counted, NoticesInv
  <2>2. QED
    BY <1>2, <2>1, FS_AddElement
<1>5. ASSUME notifier[n] = "counted", notifier' = [notifier EXCEPT ![n] = "idle"]
      PROVE  Cardinality(Counted') = Cardinality(Counted) - 1
  <2>1. n \in Counted /\ Counted' = Counted \ {n}
    BY <1>5 DEF Counted, NoticesInv
  <2>2. QED
    BY <1>2, <2>1, FS_RemoveElement
<1>6. QED
  BY <1>2, <1>3, <1>4, <1>5

\* The cap is exceeded by at most the notifiers that counted before the others
\* appended (handleNotify in write.go is two store calls).
THEOREM FloodIsBounded == Dash!Spec => []NoticesBounded
<1>1. Dash!Init => NoticesInv
  <2> SUFFICES ASSUME Dash!BoardAssumption, Dash!Init PROVE NoticesInv
    BY DashAssumption DEF DashAssumption
  <2>1. Counted = {} /\ notices = 0 /\ notifier \in [Notifiers -> {"idle", "counted"}]
    BY DEF Dash!Init, Counted
  <2>2. Cardinality(Counted) = 0
    BY <2>1, FS_EmptySet
  <2>3. Cardinality(Notifiers) \in Nat /\ maxEnvNoticesPerStep \in Nat /\ maxEnvNoticesPerStep >= 1
    BY DashFinite, FS_CardinalityType DEF Dash!BoardAssumption
  <2>4. QED
    BY <2>1, <2>2, <2>3 DEF NoticesInv
<1>2. NoticesInv /\ [Dash!Next]_(Dash!vars) => NoticesInv'
  <2> SUFFICES ASSUME NoticesInv, [Dash!Next]_(Dash!vars) PROVE NoticesInv'
    OBVIOUS
  <2>0. /\ maxEnvNoticesPerStep \in Nat /\ maxEnvNoticesPerStep >= 1 /\ notices \in Nat
        /\ Dash!BoardAssumption /\ Dash!BoardAssumption'
        /\ notifier \in [Notifiers -> {"idle", "counted"}]
        /\ notices + Cardinality(Counted) <= maxEnvNoticesPerStep + Cardinality(Notifiers) - 1
    BY DEF NoticesInv, Dash!BoardAssumption
  <2>1. CASE UNCHANGED <<notices, notifier>>
    BY <2>0, <2>1 DEF NoticesInv, Counted
  <2>2. ASSUME NEW n \in Notifiers, Dash!CountNotices(n) PROVE NoticesInv'
    <3>1. /\ notifier[n] = "idle" /\ notices < maxEnvNoticesPerStep /\ notices' = notices
          /\ notifier' = [notifier EXCEPT ![n] = "counted"]
      BY <2>2 DEF Dash!CountNotices
    <3>2. /\ Cardinality(Notifiers) \in Nat /\ Cardinality(Counted) \in Nat
          /\ Cardinality(Counted) <= Cardinality(Notifiers) - 1
          /\ Cardinality(Counted') = Cardinality(Counted) + 1
      BY <3>1, CountedChanges
    <3>3. QED
      BY <2>0, <3>1, <3>2 DEF NoticesInv
  <2>3. ASSUME NEW n \in Notifiers, Dash!AppendNotice(n) PROVE NoticesInv'
    <3>1. /\ notifier[n] = "counted" /\ notices' = notices + 1
          /\ notifier' = [notifier EXCEPT ![n] = "idle"]
      BY <2>3 DEF Dash!AppendNotice
    <3>2. /\ Cardinality(Notifiers) \in Nat /\ Cardinality(Counted) \in Nat
          /\ Cardinality(Counted') = Cardinality(Counted) - 1
      BY <3>1, CountedChanges
    <3>3. QED
      BY <2>0, <3>1, <3>2 DEF NoticesInv
  <2>4. CASE Dash!AdvanceStep
    <3>1. notices' = 0 /\ notifier' = notifier
      BY <2>4 DEF Dash!AdvanceStep
    <3>2. Counted' = Counted /\ Counted \subseteq Notifiers /\ IsFiniteSet(Notifiers)
      BY <2>0, <3>1, DashFinite DEF Counted, Dash!BoardAssumption
    <3>3. Cardinality(Counted) <= Cardinality(Notifiers) /\ Cardinality(Notifiers) \in Nat
          /\ Cardinality(Counted) \in Nat
      BY <3>2, FS_Subset, FS_CardinalityType
    <3>4. QED
      BY <2>0, <3>1, <3>2, <3>3 DEF NoticesInv
  <2>5. QED
    <3>1. ASSUME Dash!Step PROVE NoticesInv'
      <4>1. CASE \E n \in Notifiers : Dash!CountNotices(n) \/ Dash!AppendNotice(n)
        BY <2>2, <2>3, <4>1
      <4>2. CASE ~ \E n \in Notifiers : Dash!CountNotices(n) \/ Dash!AppendNotice(n)
        <5>1. UNCHANGED <<notices, notifier>> \/ Dash!AdvanceStep
          BY <3>1, <4>2 DEF Dash!Step, Dash!notify, Dash!Tick, Dash!StartRun, Dash!AddChatbot,
             Dash!BeginPatch, Dash!BeginDelete, Dash!SetRunReportGrade, Dash!PutResponseRewrite,
             Dash!CreateSession, Dash!ChangeStatus, Dash!Leave, Dash!Respawn, Dash!PatchField,
             Dash!PatchFails, Dash!CancelRoot, Dash!DeleteRun, Dash!CancelRunDone,
             Dash!BeginWalk, Dash!NextPage
        <5>2. QED
          BY <2>1, <2>4, <5>1
      <4>3. QED
        BY <4>1, <4>2
    <3>2. QED
      BY <2>1, <3>1 DEF Dash!Next, Dash!vars, Dash!notify
<1>3. NoticesInv => NoticesBounded
  <2> SUFFICES ASSUME NoticesInv PROVE Dash!NoticesBounded
    BY DEF NoticesBounded
  <2>1. IsFiniteSet(Notifiers) /\ Counted \subseteq Notifiers /\ maxEnvNoticesPerStep \in Nat
    BY DashFinite DEF NoticesInv, Dash!BoardAssumption, Counted
  <2>2. Cardinality(Counted) \in Nat /\ Cardinality(Notifiers) \in Nat
    BY <2>1, FS_Subset, FS_CardinalityType
  <2>3. QED
    BY <2>1, <2>2, DashCardinality DEF NoticesInv, Dash!NoticesBounded
<1>4. QED
  BY <1>1, <1>2, <1>3, PTL DEF Dash!Spec

-----------------------------------------------------------------------------
\* The rows, as the store keeps them.
RootStatuses == {"ongoing", "awaiting", "idle", "concluded", "crashed", "cancelled"}
RunRow == [created : Nat, seen : Nat, archived : BOOLEAN, starred : BOOLEAN,
           grade : Dash!Grades, report : Dash!Grades]
RootRow == [status : RootStatuses, changed : Nat]

RowTypes ==
  /\ now \in Nat
  /\ run \in [Runs -> RunRow \cup {Dash!NoRun, Dash!Deleted}]
  /\ root \in [Runs -> [Roots -> RootRow \cup {Dash!Absent}]]
  /\ patch # <<>> => patch[1] \in Runs
  /\ deleting # <<>> => deleting[1] \in Runs

Relevant(r, s) == Dash!HasRow(r, s) /\ root[r][s].status \in Dash!relevantUpdateStatuses

\* No row is older than its run or younger than the clock.
RunInTime(r) == Dash!Exists(r) => run[r].created <= run[r].seen /\ run[r].seen <= now
RootInTime(r, s) ==
  Dash!HasRow(r, s) =>
    Dash!Exists(r) /\ run[r].created <= root[r][s].changed /\ root[r][s].changed <= now

\* What is unread stopped no earlier than the last look, and whatever stopped later
\* is unread.
Badged(r, s) ==
  /\ <<r, s>> \in unread => Relevant(r, s) /\ root[r][s].changed >= run[r].seen
  /\ Relevant(r, s) /\ root[r][s].changed > run[r].seen => <<r, s>> \in unread

BadgeInv ==
  /\ Dash!BoardAssumption /\ RowTypes
  /\ \A r \in Runs : RunInTime(r) /\ \A s \in Roots : RootInTime(r, s) /\ Badged(r, s)

\* A run that exists has a row with its fields, and the others have none.
LEMMA RowsApart ==
  ASSUME RowTypes, NEW r \in Runs
  PROVE  /\ Dash!Exists(r) <=> run[r] \in RunRow
         /\ \A x \in RunRow : x # Dash!NoRun /\ x # Dash!Deleted
         /\ \A x \in RootRow : x # Dash!Absent
         /\ \A s \in Roots : Dash!HasRow(r, s) <=> root[r][s] \in RootRow
<1>1. \A x \in RunRow : x # Dash!NoRun /\ x # Dash!Deleted
  <2> SUFFICES ASSUME NEW x \in RunRow PROVE x.created # -1 /\ x.created # -2
    BY DEF Dash!NoRun, Dash!Deleted
  <2>1. x.created \in Nat
    BY DEF RunRow
  <2>2. QED
    BY <2>1
<1>2. \A x \in RootRow : x # Dash!Absent
  <2> SUFFICES ASSUME NEW x \in RootRow PROVE x.status # "absent"
    BY DEF Dash!Absent
  <2>1. x.status \in RootStatuses
    BY DEF RootRow
  <2>2. QED
    BY <2>1 DEF RootStatuses
<1>3. QED
  BY <1>1, <1>2 DEF RowTypes, Dash!Exists, Dash!HasRow

\* Nothing of the rows changes, and time does not go back.
LEMMA RowsStand ==
  ASSUME BadgeInv, UNCHANGED <<run, root, unread>>, now' \in Nat, now' >= now,
         (patch # <<>> => patch[1] \in Runs)', (deleting # <<>> => deleting[1] \in Runs)'
  PROVE  BadgeInv'
<1>0. RowTypes /\ Dash!BoardAssumption'
  BY DEF BadgeInv, Dash!BoardAssumption
<1>1. RowTypes'
  BY <1>0 DEF RowTypes
<1>2. ASSUME NEW r \in Runs PROVE RunInTime(r)'
  <2>1. Dash!Exists(r) => run[r].seen \in Nat
    BY <1>0, RowsApart DEF RunRow
  <2>2. RunInTime(r)
    BY DEF BadgeInv
  <2>3. QED
    BY <1>0, <2>1, <2>2 DEF RunInTime, Dash!Exists, RowTypes
<1>3. ASSUME NEW r \in Runs, NEW s \in Roots PROVE RootInTime(r, s)' /\ Badged(r, s)'
  <2>1. Dash!HasRow(r, s) => root[r][s].changed \in Nat
    BY <1>0, RowsApart DEF RootRow
  <2>2. RootInTime(r, s) /\ Badged(r, s)
    BY DEF BadgeInv
  <2>3. QED
    BY <1>0, <2>1, <2>2
    DEF RootInTime, Badged, Relevant, Dash!Exists, Dash!HasRow, RowTypes
<1>4. QED
  BY <1>0, <1>1, <1>2, <1>3 DEF BadgeInv

\* One run's row changes, in place or to none; its roots are as they were.
LEMMA RunChanges ==
  ASSUME BadgeInv, NEW r \in Runs, NEW x \in RunRow,
         run' = [run EXCEPT ![r] = x], root' = root, now' = now,
         Dash!Exists(r) => x.created = run[r].created,
         x.created <= x.seen, x.seen <= now,
         UNCHANGED deleting, (patch # <<>> => patch[1] \in Runs)',
         \/ /\ Dash!Exists(r) /\ x.seen = run[r].seen /\ unread' = unread
         \/ /\ x.seen = now /\ unread' = {u \in unread : u[1] # r}
         \/ /\ x.seen = x.created /\ unread' = unread \cup {<<r, s>> : s \in Dash!Stopped(r)}
  PROVE  BadgeInv'
<1>0. RowTypes /\ Dash!BoardAssumption'
  BY DEF BadgeInv, Dash!BoardAssumption
<1>1. RowTypes'
  BY <1>0 DEF RowTypes
<1>2. Dash!Exists(r)'
  BY <1>0, <1>1, RowsApart DEF RowTypes, Dash!Exists
<1>3. ASSUME NEW q \in Runs PROVE RunInTime(q)'
  <2>1. RunInTime(q)
    BY DEF BadgeInv
  <2>2. q # r => run'[q] = run[q]
    BY <1>0 DEF RowTypes
  <2>3. run'[r] = x
    BY <1>0 DEF RowTypes
  <2>4. QED
    BY <2>1, <2>2, <2>3 DEF RunInTime, Dash!Exists
<1>4. ASSUME NEW q \in Runs, NEW s \in Roots PROVE RootInTime(q, s)' /\ Badged(q, s)'
  <2>1. RootInTime(q, s) /\ Badged(q, s) /\ RunInTime(q)
    BY DEF BadgeInv
  <2>2. CASE q # r
    <3>1. run'[q] = run[q] /\ (<<q, s>> \in unread' <=> <<q, s>> \in unread)
      BY <1>0, <2>2 DEF RowTypes
    <3>2. QED
      BY <2>1, <3>1 DEF RootInTime, Badged, Relevant, Dash!Exists, Dash!HasRow
  <2>3. CASE q = r
    <3>1. run'[r] = x /\ x.created \in Nat /\ x.seen \in Nat
      BY <1>0 DEF RowTypes, RunRow
    <3>2. Dash!HasRow(r, s) => root[r][s].changed \in Nat
      BY <1>0, RowsApart DEF RootRow
    <3>3. Dash!HasRow(r, s) => Dash!Exists(r) /\ x.created <= root[r][s].changed
                                /\ root[r][s].changed <= now
      BY <2>1, <2>3, <3>1 DEF RootInTime
    <3>4. RootInTime(r, s)'
      BY <1>2, <3>1, <3>3 DEF RootInTime, Dash!HasRow
    <3>5. Relevant(r, s)' <=> Relevant(r, s)
      BY DEF Relevant, Dash!HasRow
    <3>6. Relevant(r, s) <=> s \in Dash!Stopped(r)
      BY DEF Relevant, Dash!Stopped, Dash!RootsOf, Dash!HasRow
    <3>7. Badged(r, s)'
      <4>1. CASE Dash!Exists(r) /\ x.seen = run[r].seen /\ unread' = unread
        BY <2>1, <2>3, <3>1, <3>5, <4>1 DEF Badged
      <4>2. CASE x.seen = now /\ unread' = {u \in unread : u[1] # r}
        BY <3>1, <3>2, <3>3, <3>5, <4>2 DEF Badged, Relevant
      <4>3. CASE x.seen = x.created /\ unread' = unread \cup {<<r, t>> : t \in Dash!Stopped(r)}
        <5>1. <<r, s>> \in unread' <=> <<r, s>> \in unread \/ Relevant(r, s)
          BY <3>6, <4>3
        <5>2. Relevant(r, s) => Dash!HasRow(r, s)
          BY DEF Relevant
        <5>3. QED
          BY <2>1, <2>3, <3>1, <3>2, <3>3, <3>5, <4>3, <5>1, <5>2 DEF Badged
      <4>4. QED
        BY <4>1, <4>2, <4>3
    <3>8. QED
      BY <2>3, <3>4, <3>7
  <2>4. QED
    BY <2>2, <2>3
<1>5. QED
  BY <1>0, <1>1, <1>3, <1>4 DEF BadgeInv

\* One root's row is written: its status, stamped with the time.
LEMMA RootChanges ==
  ASSUME BadgeInv, NEW r \in Runs, NEW s \in Roots, NEW st \in RootStatuses, Dash!Exists(r),
         root' = [root EXCEPT ![r][s] = [status |-> st, changed |-> now]],
         UNCHANGED <<now, run, patch>>, (deleting # <<>> => deleting[1] \in Runs)',
         IF st \in Dash!relevantUpdateStatuses THEN unread' = unread \cup {<<r, s>>}
         ELSE unread' = unread \ {<<r, s>>}
  PROVE  BadgeInv'
<1>0. RowTypes /\ Dash!BoardAssumption'
  BY DEF BadgeInv, Dash!BoardAssumption
<1> DEFINE x == [status |-> st, changed |-> now]
<1>1. /\ x \in RootRow /\ root' = [root EXCEPT ![r] = [root[r] EXCEPT ![s] = x]]
      /\ root'[r][s] = x
      /\ \A q \in Runs, t \in Roots : q # r \/ t # s => root'[q][t] = root[q][t]
  BY <1>0 DEF RowTypes, RootRow
<1>2. RowTypes'
  BY <1>0, <1>1 DEF RowTypes
<1>3. ASSUME NEW q \in Runs PROVE RunInTime(q)'
  BY DEF BadgeInv, RunInTime, Dash!Exists
<1>4. ASSUME NEW q \in Runs, NEW t \in Roots PROVE RootInTime(q, t)' /\ Badged(q, t)'
  <2>1. RootInTime(q, t) /\ Badged(q, t) /\ RunInTime(q)
    BY DEF BadgeInv
  <2>2. CASE q # r \/ t # s
    <3>1. root'[q][t] = root[q][t] /\ (<<q, t>> \in unread' <=> <<q, t>> \in unread)
      BY <1>1, <2>2
    <3>2. QED
      BY <2>1, <3>1 DEF RootInTime, Badged, Relevant, Dash!Exists, Dash!HasRow
  <2>3. CASE q = r /\ t = s
    <3>1. run[r].created \in Nat /\ run[r].seen \in Nat /\ now \in Nat
      BY <1>0, RowsApart DEF RunRow, RowTypes
    <3>2. run[r].created <= run[r].seen /\ run[r].seen <= now
      BY <2>1, <2>3 DEF RunInTime
    <3>3. root'[r][s].status = st /\ root'[r][s].changed = now /\ Dash!HasRow(r, s)'
      BY <1>0, <1>1, <1>2, RowsApart DEF Dash!HasRow
    <3>4. RootInTime(r, s)'
      BY <3>1, <3>2, <3>3 DEF RootInTime, Dash!Exists
    <3>5. Badged(r, s)'
      BY <3>1, <3>2, <3>3 DEF Badged, Relevant, Dash!relevantUpdateStatuses
    <3>6. QED
      BY <2>3, <3>4, <3>5
  <2>4. QED
    BY <2>2, <2>3
<1>5. QED
  BY <1>0, <1>2, <1>3, <1>4 DEF BadgeInv

\* A root is inserted while its run is there: it works, and nothing is to be read.
LEMMA RootComes ==
  ASSUME BadgeInv, NEW r \in Runs, NEW s \in Roots, Dash!Exists(r), ~Dash!HasRow(r, s),
         root' = [root EXCEPT ![r][s] = [status |-> "ongoing", changed |-> now]],
         UNCHANGED <<now, run, patch, deleting, unread>>
  PROVE  BadgeInv'
<1>1. <<r, s>> \notin unread
  BY DEF BadgeInv, Badged, Relevant
<1>2. unread' = unread \ {<<r, s>>} /\ "ongoing" \notin Dash!relevantUpdateStatuses
  BY <1>1 DEF Dash!relevantUpdateStatuses
<1>3. (deleting # <<>> => deleting[1] \in Runs)'
  BY DEF BadgeInv, RowTypes
<1>4. QED
  BY <1>2, <1>3, RootChanges DEF RootStatuses

\* A run and its rows go.
LEMMA RunGoes ==
  ASSUME BadgeInv, Dash!DeleteRun
  PROVE  BadgeInv'
<1>1. PICK r \in Runs : r = deleting[1]
  BY DEF BadgeInv, RowTypes, Dash!DeleteRun
<1>2. RowTypes /\ Dash!BoardAssumption'
  BY DEF BadgeInv, Dash!BoardAssumption
<1>3. /\ run' = [run EXCEPT ![r] = Dash!Deleted]
      /\ root' = [root EXCEPT ![r] = [s \in Roots |-> Dash!Absent]]
      /\ unread' = {u \in unread : u[1] # r} /\ deleting' = <<>> /\ UNCHANGED <<now, patch>>
  BY <1>1 DEF Dash!DeleteRun
<1>4. RowTypes'
  BY <1>2, <1>3 DEF RowTypes
<1>5. run'[r] = Dash!Deleted /\ \A s \in Roots : root'[r][s] = Dash!Absent
  BY <1>2, <1>3 DEF RowTypes
<1>6. ~Dash!Exists(r)' /\ \A s \in Roots : ~Dash!HasRow(r, s)'
  BY <1>5 DEF Dash!Exists, Dash!HasRow
<1>7. \A q \in Runs : q # r => run'[q] = run[q] /\ root'[q] = root[q]
  BY <1>2, <1>3 DEF RowTypes
<1>8. \A q \in Runs, s \in Roots : <<q, s>> \in unread' <=> q # r /\ <<q, s>> \in unread
  BY <1>3
<1>9. ASSUME NEW q \in Runs PROVE RunInTime(q)'
  <2>1. RunInTime(q)
    BY DEF BadgeInv
  <2>2. QED
    BY <1>3, <1>6, <1>7, <2>1 DEF RunInTime, Dash!Exists
<1>10. ASSUME NEW q \in Runs, NEW s \in Roots PROVE RootInTime(q, s)' /\ Badged(q, s)'
  <2>1. RootInTime(q, s) /\ Badged(q, s)
    BY DEF BadgeInv
  <2>2. CASE q = r
    BY <1>6, <1>8, <2>2 DEF RootInTime, Badged, Relevant
  <2>3. CASE q # r
    <3>1. run'[q] = run[q] /\ root'[q] = root[q] /\ (<<q, s>> \in unread' <=> <<q, s>> \in unread)
      BY <1>7, <1>8, <2>3
    <3>2. QED
      BY <1>3, <2>1, <3>1 DEF RootInTime, Badged, Relevant, Dash!Exists, Dash!HasRow
  <2>4. QED
    BY <2>2, <2>3
<1>11. QED
  BY <1>2, <1>4, <1>9, <1>10 DEF BadgeInv

\* A field of a row that is there, other than what the badge looks at.
LEMMA FieldSet ==
  ASSUME BadgeInv, NEW r \in Runs, Dash!Exists(r), UNCHANGED <<root, now, deleting, unread>>,
         (patch # <<>> => patch[1] \in Runs)',
         \/ \E b \in BOOLEAN : run' = [run EXCEPT ![r].starred = b] \/ run' = [run EXCEPT ![r].archived = b]
         \/ \E g \in Dash!Grades : run' = [run EXCEPT ![r].grade = g] \/ run' = [run EXCEPT ![r].report = g]
  PROVE  BadgeInv'
<1>0. RowTypes /\ run[r] \in RunRow /\ RunInTime(r)
  BY RowsApart DEF BadgeInv
<1>1. \E x \in RunRow : run' = [run EXCEPT ![r] = x] /\ x.created = run[r].created /\ x.seen = run[r].seen
  <2>1. CASE \E b \in BOOLEAN : run' = [run EXCEPT ![r].starred = b] \/ run' = [run EXCEPT ![r].archived = b]
    <3>1. PICK b \in BOOLEAN : run' = [run EXCEPT ![r].starred = b] \/ run' = [run EXCEPT ![r].archived = b]
      BY <2>1
    <3>2. /\ [run[r] EXCEPT !.starred = b] \in RunRow /\ [run[r] EXCEPT !.archived = b] \in RunRow
          /\ [run[r] EXCEPT !.starred = b].created = run[r].created
          /\ [run[r] EXCEPT !.starred = b].seen = run[r].seen
          /\ [run[r] EXCEPT !.archived = b].created = run[r].created
          /\ [run[r] EXCEPT !.archived = b].seen = run[r].seen
      BY <1>0 DEF RunRow
    <3>3. run' = [run EXCEPT ![r] = [run[r] EXCEPT !.starred = b]]
          \/ run' = [run EXCEPT ![r] = [run[r] EXCEPT !.archived = b]]
      BY <3>1
    <3>4. QED
      BY <3>2, <3>3
  <2>2. CASE \E g \in Dash!Grades : run' = [run EXCEPT ![r].grade = g] \/ run' = [run EXCEPT ![r].report = g]
    <3>1. PICK g \in Dash!Grades : run' = [run EXCEPT ![r].grade = g] \/ run' = [run EXCEPT ![r].report = g]
      BY <2>2
    <3>2. /\ [run[r] EXCEPT !.grade = g] \in RunRow /\ [run[r] EXCEPT !.report = g] \in RunRow
          /\ [run[r] EXCEPT !.grade = g].created = run[r].created
          /\ [run[r] EXCEPT !.grade = g].seen = run[r].seen
          /\ [run[r] EXCEPT !.report = g].created = run[r].created
          /\ [run[r] EXCEPT !.report = g].seen = run[r].seen
      BY <1>0 DEF RunRow
    <3>3. run' = [run EXCEPT ![r] = [run[r] EXCEPT !.grade = g]]
          \/ run' = [run EXCEPT ![r] = [run[r] EXCEPT !.report = g]]
      BY <3>1
    <3>4. QED
      BY <3>2, <3>3
  <2>3. QED
    BY <2>1, <2>2
<1>2. QED
  BY <1>0, <1>1, RunChanges DEF RunInTime

\* A field of the operator's request.
LEMMA FieldPatched ==
  ASSUME BadgeInv, Dash!PatchField
  PROVE  BadgeInv'
<1>1. PICK r \in Runs : r = patch[1]
  BY DEF BadgeInv, RowTypes, Dash!PatchField
<1>2. PICK f : f = Head(patch[2])
  OBVIOUS
<1>3. RowTypes
  BY DEF BadgeInv
<1>4. /\ IF Dash!Exists(r) THEN Dash!SetField(r, f) ELSE UNCHANGED <<run, unread>>
      /\ (patch # <<>> => patch[1] \in Runs)'
      /\ UNCHANGED <<now, root, deleting>>
  BY <1>3, <1>1, <1>2 DEF Dash!PatchField
<1>5. CASE ~Dash!Exists(r)
  BY <1>3, <1>4, <1>5, RowsStand DEF RowTypes
<1>6. CASE Dash!Exists(r)
  <2>1. run[r] \in RunRow /\ RunInTime(r)
    BY <1>3, <1>6, RowsApart DEF BadgeInv
  <2>2. Dash!SetField(r, f)
    BY <1>4, <1>6
  <2>3. CASE Dash!MarkRunSeen(r) \/ Dash!MarkRunUnseen(r)
    <3>1. \E at \in {now, run[r].created} : run' = [run EXCEPT ![r] = [run[r] EXCEPT !.seen = at]]
      BY <2>3 DEF Dash!MarkRunSeen, Dash!MarkRunUnseen
    <3>2. \A at \in Nat : /\ [run[r] EXCEPT !.seen = at] \in RunRow
                          /\ [run[r] EXCEPT !.seen = at].seen = at
                          /\ [run[r] EXCEPT !.seen = at].created = run[r].created
      BY <2>1 DEF RunRow
    <3>3. run[r].created \in Nat /\ run[r].seen \in Nat /\ now \in Nat
          /\ run[r].created <= run[r].seen /\ run[r].seen <= now
      BY <1>3, <1>6, <2>1 DEF RunRow, RunInTime, RowTypes
    <3>4. CASE Dash!MarkRunSeen(r)
      <4> DEFINE x == [run[r] EXCEPT !.seen = now]
      <4>1. run' = [run EXCEPT ![r] = x] /\ unread' = {u \in unread : u[1] # r}
        BY <3>4 DEF Dash!MarkRunSeen
      <4>2. x \in RunRow /\ x.seen = now /\ x.created = run[r].created
        BY <3>2, <3>3
      <4> HIDE DEF x
      <4>3. x.created <= x.seen /\ x.seen <= now
        BY <3>3, <4>2
      <4>4. QED
        BY <1>3, <1>4, <4>1, <4>2, <4>3, RunChanges
    <3>5. CASE Dash!MarkRunUnseen(r)
      <4> DEFINE x == [run[r] EXCEPT !.seen = run[r].created]
      <4>1. run' = [run EXCEPT ![r] = x] /\ unread' = unread \cup {<<r, s>> : s \in Dash!Stopped(r)}
        BY <3>5 DEF Dash!MarkRunUnseen
      <4>2. x \in RunRow /\ x.seen = x.created /\ x.created = run[r].created
        BY <3>2, <3>3
      <4> HIDE DEF x
      <4>3. x.created <= x.seen /\ x.seen <= now
        BY <3>2, <3>3, <4>2
      <4>4. QED
        BY <1>3, <1>4, <4>1, <4>2, <4>3, RunChanges
    <3>6. QED
      BY <2>3, <3>4, <3>5
  <2>4. CASE ~(Dash!MarkRunSeen(r) \/ Dash!MarkRunUnseen(r))
    <3>1. /\ unread' = unread
          /\ \/ run' = [run EXCEPT ![r].starred = ~@]
             \/ \E g \in {0, 5} : run' = [run EXCEPT ![r].grade = g]
             \/ run' = [run EXCEPT ![r].archived = ~@]
      BY <2>2, <2>4 DEF Dash!SetField
    <3>2. (~run[r].starred) \in BOOLEAN /\ (~run[r].archived) \in BOOLEAN
      OBVIOUS
    <3>3. CASE run' = [run EXCEPT ![r].starred = ~run[r].starred]
      BY <1>4, <1>6, <3>1, <3>2, <3>3, FieldSet
    <3>4. CASE run' = [run EXCEPT ![r].archived = ~run[r].archived]
      BY <1>4, <1>6, <3>1, <3>2, <3>4, FieldSet
    <3>5. CASE \E g \in {0, 5} : run' = [run EXCEPT ![r].grade = g]
      <4>1. {0, 5} \subseteq Dash!Grades
        <5>1. 0 \in Dash!Grades /\ 5 \in Dash!Grades
          BY DEF Dash!Grades
        <5>2. QED
          BY <5>1, Zenon
      <4>2. PICK g \in Dash!Grades : run' = [run EXCEPT ![r].grade = g]
        BY <3>5, <4>1, Zenon
      <4>3. QED
        BY <1>4, <1>6, <3>1, <4>2, FieldSet
    <3>6. QED
      BY <3>1, <3>3, <3>4, <3>5
  <2>5. QED
    BY <2>3, <2>4
<1>7. QED
  BY <1>5, <1>6

\* Every step of the dashboard.
LEMMA BadgeStep == BadgeInv /\ [Dash!Next]_(Dash!vars) => BadgeInv'
<1> SUFFICES ASSUME BadgeInv, [Dash!Next]_(Dash!vars) PROVE BadgeInv'
  OBVIOUS
<1> USE DEF Dash!rows, Dash!handlers
<1>0. /\ RowTypes /\ now \in Nat
      /\ patch # <<>> => patch[1] \in Runs
      /\ deleting # <<>> => deleting[1] \in Runs
  BY DEF BadgeInv, RowTypes
<1>1. CASE UNCHANGED Dash!vars
  BY <1>0, <1>1, RowsStand DEF Dash!vars
<1>2. CASE Dash!Tick
  BY <1>0, <1>2, RowsStand DEF Dash!Tick
<1>3. ASSUME NEW r \in Runs, Dash!StartRun(r) PROVE BadgeInv'
  <2> DEFINE x == [created |-> now, seen |-> now, archived |-> FALSE,
                   starred |-> FALSE, grade |-> 0, report |-> 0]
  <2>1. /\ run[r] = Dash!NoRun /\ run' = [run EXCEPT ![r] = x]
        /\ UNCHANGED <<now, root, patch, deleting, unread>>
    BY <1>3 DEF Dash!StartRun, Dash!CreateRun
  <2>2. x \in RunRow /\ x.created = now /\ x.seen = now
    BY <1>0 DEF RunRow, Dash!Grades
  <2>3. ~Dash!Exists(r)
    BY <2>1 DEF Dash!Exists
  <2>4. \A s \in Roots : ~Dash!HasRow(r, s) /\ <<r, s>> \notin unread
    BY <2>3 DEF BadgeInv, RootInTime, Badged, Relevant
  <2>5. Dash!Stopped(r) = {}
    BY <2>4 DEF Dash!Stopped, Dash!RootsOf, Dash!HasRow
  <2> HIDE DEF x
  <2>6. unread' = unread \cup {<<r, s>> : s \in Dash!Stopped(r)}
    BY <2>1, <2>5
  <2>7. /\ x.created <= x.seen /\ x.seen <= now /\ x.seen = x.created
        /\ (patch # <<>> => patch[1] \in Runs)'
    BY <1>0, <2>1, <2>2
  <2>8. QED
    BY <2>1, <2>2, <2>3, <2>6, <2>7, RunChanges
<1>4. ASSUME NEW r \in Runs,
             Dash!AddChatbot(r) \/ Dash!BeginPatch(r) \/ Dash!BeginDelete(r) \/ Dash!PutResponseRewrite(r)
      PROVE  BadgeInv'
  <2>1. CASE Dash!AddChatbot(r) \/ Dash!PutResponseRewrite(r)
    <3>1. UNCHANGED <<run, root, unread, now, patch, deleting>>
      BY <2>1 DEF Dash!AddChatbot, Dash!PutResponseRewrite
    <3>2. QED
      BY <1>0, <3>1, RowsStand
  <2>2. CASE Dash!BeginPatch(r)
    <3>1. UNCHANGED <<run, root, unread, now, deleting>> /\ patch'[1] = r
      BY <2>2 DEF Dash!BeginPatch
    <3>2. QED
      BY <1>0, <3>1, RowsStand
  <2>3. CASE Dash!BeginDelete(r)
    <3>1. UNCHANGED <<run, root, unread, now, patch>> /\ deleting'[1] = r
      BY <2>3 DEF Dash!BeginDelete
    <3>2. QED
      BY <1>0, <3>1, RowsStand
  <2>4. QED
    BY <1>4, <2>1, <2>2, <2>3
<1>5. ASSUME NEW r \in Runs, Dash!SetRunReportGrade(r) PROVE BadgeInv'
  <2>1. /\ Dash!Exists(r) /\ run' = [run EXCEPT ![r].report = 3] /\ 3 \in Dash!Grades
        /\ UNCHANGED <<now, root, patch, deleting, unread>>
    BY <1>5 DEF Dash!SetRunReportGrade, Dash!Grades
  <2>2. QED
    BY <1>0, <2>1, FieldSet
<1>6. ASSUME NEW r \in Runs, NEW s \in Roots, Dash!CreateSession(r, s) PROVE BadgeInv'
  <2>1. CASE Dash!Exists(r)
    BY <1>6, <2>1, RootComes DEF Dash!CreateSession
  <2>2. CASE ~Dash!Exists(r)
    BY <1>0, <1>6, <2>2, RowsStand DEF Dash!CreateSession
  <2>3. QED
    BY <2>1, <2>2
<1>7. ASSUME NEW r \in Runs, NEW s \in Roots, Dash!HasRow(r, s), NEW st \in RootStatuses,
             Dash!SetStatus(r, s, st), UNCHANGED <<now, run, patch>>,
             (deleting # <<>> => deleting[1] \in Runs)'
      PROVE  BadgeInv'
  <2>1. Dash!Exists(r)
    BY <1>7 DEF BadgeInv, RootInTime
  <2>2. QED
    BY <1>7, <2>1, RootChanges DEF Dash!SetStatus
<1>8. ASSUME NEW r \in Runs, NEW s \in Roots, Dash!ChangeStatus(r, s) PROVE BadgeInv'
  <2>1. PICK st \in {"ongoing", "awaiting", "idle", "concluded", "crashed"} : Dash!SetStatus(r, s, st)
    BY <1>8 DEF Dash!ChangeStatus
  <2>2. Dash!HasRow(r, s) /\ UNCHANGED <<now, run, patch, deleting>> /\ st \in RootStatuses
    BY <1>8 DEF Dash!ChangeStatus, RootStatuses
  <2>3. QED
    BY <1>0, <1>7, <2>1, <2>2
<1>9. ASSUME NEW r \in Runs, NEW s \in Roots, Dash!Respawn(r, s) PROVE BadgeInv'
  <2>1. /\ Dash!SetStatus(r, s, "ongoing") /\ Dash!HasRow(r, s) /\ "ongoing" \in RootStatuses
        /\ UNCHANGED <<now, run, patch, deleting>>
    BY <1>9 DEF Dash!Respawn, RootStatuses
  <2>2. QED
    BY <1>0, <1>7, <2>1
<1>10. ASSUME NEW r \in Runs, NEW s \in Roots, Dash!Leave(r, s) PROVE BadgeInv'
  BY <1>0, <1>10, RowsStand DEF Dash!Leave
<1>11. CASE Dash!PatchField
  BY <1>11, FieldPatched
<1>12. CASE Dash!PatchFails \/ Dash!CancelRunDone
  BY <1>0, <1>12, RowsStand DEF Dash!PatchFails, Dash!CancelRunDone
<1>13. CASE Dash!CancelRoot
  <2>1. PICK s \in deleting[2] :
          /\ deleting' = <<deleting[1], deleting[2] \ {s}>>
          /\ IF Dash!HasRow(deleting[1], s) /\ root[deleting[1]][s].status \in Dash!Working \cup {"idle"}
             THEN Dash!SetStatus(deleting[1], s, "cancelled") ELSE UNCHANGED <<root, unread>>
    BY <1>13 DEF Dash!CancelRoot
  <2>2. deleting[1] \in Runs /\ UNCHANGED <<now, run, patch>> /\ (deleting # <<>> => deleting[1] \in Runs)'
    BY <1>0, <1>13, <2>1 DEF Dash!CancelRoot
  <2>3. CASE Dash!HasRow(deleting[1], s) /\ Dash!SetStatus(deleting[1], s, "cancelled")
    <3>1. s \in Roots /\ "cancelled" \in RootStatuses
      BY <2>3 DEF Dash!HasRow, RootStatuses
    <3>2. QED
      BY <1>7, <2>2, <2>3, <3>1
  <2>4. CASE UNCHANGED <<root, unread>>
    BY <1>0, <2>2, <2>4, RowsStand
  <2>5. QED
    BY <2>1, <2>3, <2>4
<1>14. CASE Dash!DeleteRun
  BY <1>14, RunGoes
<1>15. CASE Dash!BeginWalk \/ Dash!NextPage \/ Dash!AdvanceStep
            \/ \E n \in Notifiers : Dash!CountNotices(n) \/ Dash!AppendNotice(n)
  <2>1. UNCHANGED <<now, run, root, patch, deleting, unread>>
    BY <1>15 DEF Dash!BeginWalk, Dash!NextPage, Dash!AdvanceStep, Dash!CountNotices, Dash!AppendNotice
  <2>2. QED
    BY <1>0, <2>1, RowsStand
<1>16. QED
  BY <1>1, <1>2, <1>3, <1>4, <1>5, <1>6, <1>8, <1>9, <1>10, <1>11, <1>12, <1>13, <1>14, <1>15
  DEF Dash!Next, Dash!Step

\* The row's badge and status are those of the SQL the filters and counts use.
LEMMA RowsAgree ==
  ASSUME BadgeInv, NEW r \in Runs
  PROVE  /\ Dash!runHasUpdates(r) <=> Dash!runUpdatesPredicate(r)
         /\ Dash!toRunSummary(r).status = Dash!primaryRootStatusExpr(r)
         /\ Dash!toRunSummary(r).hasUpdates = Dash!runHasUpdates(r)
<1>1. Dash!runHasUpdates(r) <=> Dash!runUpdatesPredicate(r)
  BY DEF Dash!runHasUpdates, Dash!runUpdatesPredicate
<1>2. Dash!toRunSummary(r).hasUpdates = Dash!runHasUpdates(r)
  BY DEF Dash!toRunSummary
<1>3. Dash!toRunSummary(r).status
        = IF Dash!primaryRoot(r) = "none" THEN "null" ELSE root[r][Dash!primaryRoot(r)].status
  BY DEF Dash!toRunSummary
<1>4. Roots \subseteq {"main-agent", "chatbot"}
  BY DEF BadgeInv, Dash!BoardAssumption
<1>5. CASE Dash!HasRow(r, "main-agent")
  <2>1. Dash!RootsOf(r) \ {"chatbot"} = {"main-agent"}
    BY <1>4, <1>5 DEF Dash!RootsOf, Dash!HasRow
  <2>2. Dash!primaryRoot(r) = "main-agent"
    BY <2>1 DEF Dash!primaryRoot, Dash!Chatbot
  <2>3. QED
    BY <1>1, <1>2, <1>3, <1>5, <2>2 DEF Dash!primaryRootStatusExpr, Dash!Main
<1>6. CASE ~Dash!HasRow(r, "main-agent") /\ Dash!HasRow(r, "chatbot")
  <2>1. Dash!RootsOf(r) = {"chatbot"}
    BY <1>4, <1>6 DEF Dash!RootsOf, Dash!HasRow
  <2>2. Dash!primaryRoot(r) = "chatbot"
    BY <2>1 DEF Dash!primaryRoot, Dash!Chatbot
  <2>3. QED
    BY <1>1, <1>2, <1>3, <1>6, <2>2 DEF Dash!primaryRootStatusExpr, Dash!Main, Dash!Chatbot
<1>7. CASE ~Dash!HasRow(r, "main-agent") /\ ~Dash!HasRow(r, "chatbot")
  <2>1. Dash!RootsOf(r) = {}
    BY <1>4, <1>7 DEF Dash!RootsOf, Dash!HasRow
  <2>2. Dash!primaryRoot(r) = "none"
    BY <2>1 DEF Dash!primaryRoot, Dash!Chatbot
  <2>3. QED
    BY <1>1, <1>2, <1>3, <1>7, <2>2 DEF Dash!primaryRootStatusExpr, Dash!Main, Dash!Chatbot
<1>8. QED
  BY <1>5, <1>6, <1>7

\* What the filters of the list select.
LEMMA Filters ==
  ASSUME NEW r
  PROVE  /\ Dash!statusFilterClause(r, "updates") = Dash!runUpdatesPredicate(r)
         /\ Dash!statusFilterClause(r, "active")
              = (Dash!primaryRootStatusExpr(r) \in {"ongoing", "awaiting"})
         /\ Dash!statusFilterClause(r, "failed")
              = (Dash!primaryRootStatusExpr(r) \in {"crashed", "cancelled"})
BY DEF Dash!statusFilterClause

\* No rows yet.
LEMMA BadgeInit == Dash!Init => BadgeInv
BY DashAssumption DEF DashAssumption, Dash!Init, BadgeInv, RowTypes, RunInTime, RootInTime, Badged,
   Relevant, Dash!Exists, Dash!HasRow

\* The badge says that a root stopped after the operator's last look, and the rows,
\* the filters and the banner say the same (runHasUpdates, runUpdatesPredicate).
THEOREM BadgeIsNews == Dash!Spec => []BadgeUntilSeen
<1>1. Dash!Init => BadgeInv
  BY BadgeInit
<1>2. BadgeInv /\ [Dash!Next]_(Dash!vars) => BadgeInv'
  BY BadgeStep
<1>3. BadgeInv => BadgeUntilSeen
  <2> SUFFICES ASSUME BadgeInv PROVE Dash!BadgeUntilSeen
    BY DEF BadgeUntilSeen
  <2>1. Dash!RunCounts.updates = Dash!Cardinality(
          {r \in Runs : Dash!Exists(r) /\ ~run[r].archived /\ Dash!toRunSummary(r).hasUpdates})
    <3>1. {r \in {r \in Runs : Dash!Exists(r) /\ ~run[r].archived} : Dash!runUpdatesPredicate(r)}
            = {r \in Runs : Dash!Exists(r) /\ ~run[r].archived /\ Dash!toRunSummary(r).hasUpdates}
      BY RowsAgree
    <3>2. QED
      BY <3>1 DEF Dash!RunCounts
  <2>2. ASSUME NEW r \in Runs, Dash!Exists(r)
        PROVE  /\ \A s \in Roots : <<r, s>> \in unread =>
                    Dash!runHasUpdates(r) \/ root[r][s].changed = run[r].seen
               /\ Dash!runHasUpdates(r) => \E s \in Roots : <<r, s>> \in unread
    <3>1. \A s \in Roots : Badged(r, s) /\ (Dash!HasRow(r, s) => root[r][s].changed \in Nat)
      BY RowsApart DEF BadgeInv, RootRow
    <3>2. run[r].seen \in Nat
      BY <2>2, RowsApart DEF BadgeInv, RunRow
    <3>3. QED
      BY <3>1, <3>2 DEF Badged, Relevant, Dash!runHasUpdates, Dash!RootsOf, Dash!HasRow
  <2>3. ASSUME NEW r \in Runs
        PROVE  /\ Dash!toRunSummary(r).hasUpdates = Dash!statusFilterClause(r, "updates")
               /\ (Dash!toRunSummary(r).status \in Dash!Working) = Dash!statusFilterClause(r, "active")
               /\ (Dash!toRunSummary(r).status \in {"crashed", "cancelled"})
                    = Dash!statusFilterClause(r, "failed")
    <3>1. Dash!toRunSummary(r).hasUpdates = Dash!runHasUpdates(r)
          /\ Dash!toRunSummary(r).status = Dash!primaryRootStatusExpr(r)
          /\ (Dash!runHasUpdates(r) <=> Dash!runUpdatesPredicate(r))
      BY RowsAgree
    <3>2. Dash!runHasUpdates(r) = Dash!runUpdatesPredicate(r)
      BY <3>1 DEF Dash!runHasUpdates, Dash!runUpdatesPredicate
    <3>3. Dash!toRunSummary(r).hasUpdates = Dash!statusFilterClause(r, "updates")
      BY <3>1, <3>2, Filters
    <3>4. (Dash!toRunSummary(r).status \in Dash!Working) = Dash!statusFilterClause(r, "active")
      BY <3>1, Filters DEF Dash!Working
    <3>5. (Dash!toRunSummary(r).status \in {"crashed", "cancelled"})
            = Dash!statusFilterClause(r, "failed")
      BY <3>1, Filters
    <3>6. QED
      BY <3>3, <3>4, <3>5
  <2>4. QED
    BY <2>1, <2>2, <2>3, RowsAgree DEF Dash!BadgeUntilSeen
<1>4. QED
  BY <1>1, <1>2, <1>3, PTL DEF Dash!Spec

-----------------------------------------------------------------------------
(***************************************************************************)
(* The pages.  Whatever matched all along and is not on a page yet lies    *)
(* past the cursor, and all that was delivered lies before or on it.       *)
(***************************************************************************)
PageKey == [created : Nat, id : Runs]
Delivered(r) == \E i \in DOMAIN walk.got : \E k \in walk.got[i] : k.id = r

Walk ==
  [at : {"paging", "done"}, query : Queries, cursor : Seq(PageKey), got : Seq(SUBSET PageKey)]

\* Pages in the order they were fetched, each newer than the next.
PagesInOrder ==
  \A i, j \in DOMAIN walk.got :
    i < j => \A a \in walk.got[i], b \in walk.got[j] : Dash!Before(a, b)

CursorIsLast ==
  /\ walk.cursor = <<>> => \A i \in DOMAIN walk.got : walk.got[i] = {}
  /\ walk.cursor # <<>> =>
       /\ walk.cursor[1] \in PageKey
       /\ \A i \in DOMAIN walk.got : \A k \in walk.got[i] :
            k = walk.cursor[1] \/ Dash!Before(k, walk.cursor[1])

PastCursor(r) == walk.cursor = <<>> \/ Dash!Older(Dash!Key(r), walk.cursor[1])

PagingInv ==
  /\ walk.at \in {"none", "paging", "done"}
  /\ walk.at # "none" => walk \in Walk /\ PagesInOrder /\ CursorIsLast
  /\ walk.at = "paging" => steady \subseteq {r \in Runs : Dash!Matches(r, walk.query)}
  /\ walk.at = "paging" => \A r \in steady : Delivered(r) \/ PastCursor(r)
  /\ walk.at = "done" => \A r \in steady : Delivered(r)

\* The order of the list is strict and total.
LEMMA ListOrder ==
  /\ \A a, b \in PageKey : Dash!Older(a, b) <=> Dash!Before(b, a)
  /\ \A a \in PageKey : ~Dash!Before(a, a)
  /\ \A a, b \in PageKey : a = b \/ Dash!Before(a, b) \/ Dash!Before(b, a)
  /\ \A a, b, c \in PageKey : Dash!Before(a, b) /\ Dash!Before(b, c) => Dash!Before(a, c)
<1>1. Runs \subseteq Nat
  BY DashAssumption DEF Dash!BoardAssumption
<1>2. \A a \in PageKey : a.created \in Nat /\ a.id \in Nat
  BY <1>1 DEF PageKey
<1>3. ASSUME NEW a \in PageKey, NEW b \in PageKey, a.created = b.created, a.id = b.id
      PROVE  a = b
  BY <1>3 DEF PageKey
<1>4. /\ \A a, b \in PageKey : Dash!Older(a, b) <=> Dash!Before(b, a)
      /\ \A a \in PageKey : ~Dash!Before(a, a)
  BY <1>2 DEF Dash!Older, Dash!Before
<1>5. ASSUME NEW a \in PageKey, NEW b \in PageKey
      PROVE  a = b \/ Dash!Before(a, b) \/ Dash!Before(b, a)
  BY <1>2, <1>3 DEF Dash!Before
<1>6. ASSUME NEW a \in PageKey, NEW b \in PageKey, NEW c \in PageKey,
             Dash!Before(a, b), Dash!Before(b, c)
      PROVE  Dash!Before(a, c)
  BY <1>2, <1>6 DEF Dash!Before
<1>7. QED
  BY <1>4, <1>5, <1>6

\* Some number of a set is the least.
LEMMA LeastNumber ==
  ASSUME NEW S \in SUBSET Nat, S # {}
  PROVE  \E m \in S : \A k \in S : m <= k
<1>1. PICK m \in S : \A k \in S : ~(<<k, m>> \in OpToRel(<, Nat))
  BY NatLessThanWellFounded, WFMin
<1>2. \A k \in S : ~(k < m)
  BY <1>1 DEF OpToRel
<1>3. QED
  BY <1>2

\* Some number of a bounded set is the greatest.
LEMMA GreatestNumber ==
  ASSUME NEW n \in Nat, NEW S \in SUBSET (0..n), S # {}
  PROVE  \E m \in S : \A k \in S : k <= m
<1> DEFINE back == {n - k : k \in S}
<1>1. back \in SUBSET Nat /\ back # {}
  <2>1. \A k \in S : k \in Nat /\ n - k \in Nat
    OBVIOUS
  <2>2. PICK k \in S : TRUE
    OBVIOUS
  <2>3. n - k \in back
    BY <2>2
  <2>4. QED
    BY <2>1, <2>3
<1>2. PICK x \in back : \A y \in back : x <= y
  <2> HIDE DEF back
  <2> QED
    BY <1>1, LeastNumber
<1>3. PICK m \in S : x = n - m
  BY <1>2
<1>4. ASSUME NEW k \in S PROVE k <= m
  <2>1. x <= n - k
    BY <1>2
  <2>2. QED
    BY <1>3, <2>1
<1>5. QED
  BY <1>4

\* The last row of a page is there, and every other is before it.
LEMMA OldestOfPage ==
  ASSUME NEW S \in SUBSET PageKey, S # {}
  PROVE  /\ Dash!Oldest(S) \in S
         /\ \A m \in S : m = Dash!Oldest(S) \/ Dash!Before(m, Dash!Oldest(S))
<1>1. \A a \in S : a \in PageKey /\ a.created \in Nat /\ a.id \in Nat
  BY DashAssumption DEF PageKey, Dash!BoardAssumption
<1>2. PICK t \in {a.created : a \in S} : \A k \in {a.created : a \in S} : t <= k
  <2>1. {a.created : a \in S} \in SUBSET Nat /\ {a.created : a \in S} # {}
    BY <1>1
  <2>2. QED
    BY <2>1, LeastNumber
<1> DEFINE first == {a \in S : a.created = t}
<1>3. PICK n \in {a.id : a \in first} : \A k \in {a.id : a \in first} : n <= k
  <2>1. {a.id : a \in first} \in SUBSET Nat /\ {a.id : a \in first} # {}
    BY <1>1, <1>2
  <2>2. QED
    BY <2>1, LeastNumber
<1>4. PICK c \in S : c.created = t /\ c.id = n
  BY <1>3
<1>5. ASSUME NEW m \in S, m # c PROVE Dash!Before(m, c)
  <2>1. ~Dash!Before(c, m)
    <3>1. t <= m.created
      BY <1>2
    <3>2. m.created = t => n <= m.id
      BY <1>3
    <3>3. QED
      BY <1>1, <1>4, <3>1, <3>2 DEF Dash!Before
  <2>2. QED
    BY <1>1, <1>5, <2>1, ListOrder
<1>6. \E k \in S : \A m \in S : m = k \/ Dash!Before(m, k)
  BY <1>5
<1>7. QED
  BY <1>6 DEF Dash!Oldest

\* The rows of a page: all that is left when it fits, else none newer than one
\* that is left out.
LEMMA PageTakesTheNewest ==
  ASSUME NEW past \in SUBSET PageKey, IsFiniteSet(past), NEW n \in Nat, NEW rows,
         rows = {k \in past : Cardinality({m \in past : Dash!Before(m, k)}) < n}
  PROVE  /\ ~(Cardinality(past) > n) => rows = past
         /\ \A k \in past \ rows : \A m \in rows : Dash!Before(m, k)
<1> DEFINE newer(k) == {m \in past : Dash!Before(m, k)}
<1>1. Cardinality(past) \in Nat
  BY FS_CardinalityType
<1>2. ASSUME ~(Cardinality(past) > n), NEW k \in past PROVE Cardinality(newer(k)) < n
  <2>1. newer(k) \in SUBSET (past \ {k})
    BY ListOrder
  <2>2. IsFiniteSet(past \ {k}) /\ Cardinality(past \ {k}) = Cardinality(past) - 1
    BY FS_RemoveElement
  <2>3. IsFiniteSet(newer(k)) /\ Cardinality(newer(k)) <= Cardinality(past \ {k})
    BY <2>1, <2>2, FS_Subset
  <2>4. Cardinality(newer(k)) \in Nat
    BY <2>3, FS_CardinalityType
  <2>5. QED
    BY <1>1, <1>2, <2>2, <2>3, <2>4
<1>3. ASSUME NEW k \in past \ rows, NEW m \in rows PROVE Dash!Before(m, k)
  <2>1. m \in past /\ Cardinality(newer(m)) < n /\ ~(Cardinality(newer(k)) < n)
    OBVIOUS
  <2>2. ASSUME Dash!Before(k, m) PROVE FALSE
    <3>1. newer(k) \in SUBSET newer(m)
      BY <2>1, <2>2, ListOrder
    <3>2. IsFiniteSet(newer(m))
      BY FS_Subset
    <3>3. /\ Cardinality(newer(k)) <= Cardinality(newer(m))
          /\ Cardinality(newer(k)) \in Nat /\ Cardinality(newer(m)) \in Nat
      BY <3>1, <3>2, FS_Subset, FS_CardinalityType
    <3>4. QED
      BY <2>1, <3>3
  <2>3. m # k
    BY <2>1
  <2>4. QED
    BY <2>1, <2>2, <2>3, ListOrder
<1>4. QED
  BY <1>2, <1>3
\* A run that stays keeps its place in the list.
LEMMA PlacesKept ==
  ASSUME BadgeInv, Dash!Step, NEW r \in Runs, Dash!Exists(r), Dash!Exists(r)'
  PROVE  run'[r].created = run[r].created
<1>1. RowTypes
  BY DEF BadgeInv
<1>2. run[r] \in RunRow
  BY <1>1, RowsApart
<1>3. ASSUME NEW q \in Runs, Dash!StartRun(q) PROVE run'[r].created = run[r].created
  BY <1>1, <1>3 DEF Dash!StartRun, Dash!CreateRun, Dash!Exists, RowTypes
<1>4. ASSUME NEW q \in Runs, Dash!SetRunReportGrade(q) PROVE run'[r].created = run[r].created
  <2>1. run' = [run EXCEPT ![q] = [run[q] EXCEPT !.report = 3]]
    BY <1>4 DEF Dash!SetRunReportGrade
  <2>2. [run[r] EXCEPT !.report = 3].created = run[r].created
    BY <1>2 DEF RunRow
  <2>3. QED
    BY <1>1, <2>1, <2>2 DEF RowTypes
<1>5. CASE Dash!PatchField
  <2>1. PICK q \in Runs, f \in {patch[2]} :
          q = patch[1] /\ IF Dash!Exists(q) THEN Dash!SetField(q, Head(f)) ELSE UNCHANGED <<run, unread>>
    BY <1>1, <1>5 DEF Dash!PatchField, RowTypes
  <2>2. \/ run' = run
        \/ \E x : run' = [run EXCEPT ![q] = [run[q] EXCEPT !.starred = x]]
        \/ \E x : run' = [run EXCEPT ![q] = [run[q] EXCEPT !.grade = x]]
        \/ \E x : run' = [run EXCEPT ![q] = [run[q] EXCEPT !.archived = x]]
        \/ \E x : run' = [run EXCEPT ![q] = [run[q] EXCEPT !.seen = x]]
    BY <2>1 DEF Dash!SetField, Dash!MarkRunSeen, Dash!MarkRunUnseen
  <2>3. \A x : /\ [run[r] EXCEPT !.starred = x].created = run[r].created
               /\ [run[r] EXCEPT !.grade = x].created = run[r].created
               /\ [run[r] EXCEPT !.archived = x].created = run[r].created
               /\ [run[r] EXCEPT !.seen = x].created = run[r].created
    BY <1>2 DEF RunRow
  <2>4. ASSUME NEW y, run' = [run EXCEPT ![q] = y], q = r => y.created = run[r].created
        PROVE  run'[r].created = run[r].created
    BY <1>1, <2>4 DEF RowTypes
  <2>5. CASE \E x : run' = [run EXCEPT ![q] = [run[q] EXCEPT !.starred = x]]
    BY <2>3, <2>4, <2>5
  <2>6. CASE \E x : run' = [run EXCEPT ![q] = [run[q] EXCEPT !.grade = x]]
    BY <2>3, <2>4, <2>6
  <2>7. CASE \E x : run' = [run EXCEPT ![q] = [run[q] EXCEPT !.archived = x]]
    BY <2>3, <2>4, <2>7
  <2>8. CASE \E x : run' = [run EXCEPT ![q] = [run[q] EXCEPT !.seen = x]]
    BY <2>3, <2>4, <2>8
  <2>9. QED
    BY <2>2, <2>5, <2>6, <2>7, <2>8
<1>6. CASE Dash!DeleteRun
  <2>1. PICK q : run' = [run EXCEPT ![q] = Dash!Deleted]
    BY <1>6 DEF Dash!DeleteRun
  <2>2. r # q
    BY <1>1, <2>1 DEF Dash!Exists, RowTypes
  <2>3. QED
    BY <1>1, <2>1, <2>2 DEF RowTypes
<1>7. CASE run' = run
  BY <1>7
<1>8. QED
  <2>1. ASSUME NEW q \in Runs,
               \/ Dash!AddChatbot(q) \/ Dash!BeginPatch(q) \/ Dash!BeginDelete(q)
               \/ Dash!PutResponseRewrite(q)
               \/ \E s \in Roots : \/ Dash!CreateSession(q, s) \/ Dash!ChangeStatus(q, s)
                                    \/ Dash!Leave(q, s) \/ Dash!Respawn(q, s)
        PROVE  run' = run
    BY <2>1, Zenon DEF Dash!AddChatbot, Dash!BeginPatch, Dash!BeginDelete, Dash!PutResponseRewrite,
       Dash!CreateSession, Dash!ChangeStatus, Dash!Leave, Dash!Respawn, Dash!rows
  <2>2. ASSUME \/ Dash!Tick \/ Dash!PatchFails \/ Dash!CancelRoot \/ Dash!CancelRunDone
               \/ Dash!BeginWalk \/ Dash!NextPage \/ Dash!AdvanceStep
               \/ \E n \in Notifiers : Dash!CountNotices(n) \/ Dash!AppendNotice(n)
        PROVE  run' = run
    BY <2>2, Zenon DEF Dash!Tick, Dash!PatchFails, Dash!CancelRoot, Dash!CancelRunDone, Dash!BeginWalk,
       Dash!NextPage, Dash!AdvanceStep, Dash!CountNotices, Dash!AppendNotice, Dash!rows
  <2>3. QED
    BY <1>3, <1>4, <1>5, <1>6, <1>7, <2>1, <2>2, Zenon DEF Dash!Step

\* Only the client moves along the list.
LEMMA WalkKept ==
  ASSUME Dash!Step
  PROVE  walk' = walk \/ Dash!BeginWalk \/ Dash!NextPage
<1>1. ASSUME NEW q \in Runs,
             \/ Dash!StartRun(q) \/ Dash!AddChatbot(q) \/ Dash!BeginPatch(q) \/ Dash!BeginDelete(q)
             \/ Dash!SetRunReportGrade(q) \/ Dash!PutResponseRewrite(q)
             \/ \E s \in Roots : \/ Dash!CreateSession(q, s) \/ Dash!ChangeStatus(q, s)
                                  \/ Dash!Leave(q, s) \/ Dash!Respawn(q, s)
      PROVE  walk' = walk
  BY <1>1, Zenon DEF Dash!StartRun, Dash!AddChatbot, Dash!BeginPatch, Dash!BeginDelete,
     Dash!SetRunReportGrade, Dash!PutResponseRewrite, Dash!CreateSession, Dash!ChangeStatus,
     Dash!Leave, Dash!Respawn
<1>2. ASSUME \/ Dash!Tick \/ Dash!PatchField \/ Dash!PatchFails
             \/ Dash!CancelRoot \/ Dash!DeleteRun \/ Dash!CancelRunDone \/ Dash!AdvanceStep
             \/ \E n \in Notifiers : Dash!CountNotices(n) \/ Dash!AppendNotice(n)
      PROVE  walk' = walk
  BY <1>2, Zenon DEF Dash!Tick, Dash!PatchField, Dash!PatchFails, Dash!CancelRoot, Dash!DeleteRun,
     Dash!CancelRunDone, Dash!AdvanceStep, Dash!CountNotices, Dash!AppendNotice
<1>3. QED
  BY <1>1, <1>2, Zenon DEF Dash!Step

\* The rows change under the client.
LEMMA PagesStand ==
  ASSUME BadgeInv, PagingInv, Dash!Next, walk' = walk
  PROVE  PagingInv'
<1>1. /\ walk.at \in {"none", "paging", "done"}
      /\ walk.at # "none" => walk \in Walk /\ PagesInOrder /\ CursorIsLast
  BY DEF PagingInv
<1>2. (walk.at # "none" => walk \in Walk /\ PagesInOrder /\ CursorIsLast)'
  BY <1>1 DEF PagesInOrder, CursorIsLast
<1>3. CASE walk.at = "paging"
  <2>1. steady' = {r \in steady : Dash!Matches(r, walk.query)'}
    BY <1>3 DEF Dash!Next, Dash!Remember
  <2>2. steady \subseteq {r \in Runs : Dash!Matches(r, walk.query)}
    BY <1>3 DEF PagingInv
  <2>3. ASSUME NEW r \in steady' PROVE Delivered(r)' \/ PastCursor(r)'
    <3>1. r \in steady /\ r \in Runs /\ Dash!Exists(r) /\ Dash!Exists(r)'
      BY <2>1, <2>2, <2>3 DEF Dash!Matches
    <3>2. Dash!Key(r)' = Dash!Key(r)
      BY <3>1, PlacesKept DEF Dash!Next, Dash!Key
    <3>3. Delivered(r) \/ PastCursor(r)
      BY <1>3, <3>1 DEF PagingInv
    <3>4. QED
      BY <3>2, <3>3 DEF Delivered, PastCursor, Dash!Older
  <2>4. (steady \subseteq {r \in Runs : Dash!Matches(r, walk.query)})'
    BY <2>1, <2>2
  <2>5. QED
    BY <1>1, <1>2, <1>3, <2>3, <2>4 DEF PagingInv
<1>4. CASE walk.at = "done"
  <2>1. steady' = steady
    BY <1>4 DEF Dash!Next, Dash!Remember
  <2>2. \A r \in steady' : Delivered(r)'
    BY <1>4, <2>1 DEF PagingInv, Delivered
  <2>3. QED
    BY <1>1, <1>2, <1>4, <2>2 DEF PagingInv
<1>5. CASE walk.at = "none"
  BY <1>1, <1>2, <1>5 DEF PagingInv
<1>6. QED
  BY <1>1, <1>3, <1>4, <1>5

\* The client asks for the first page.
LEMMA WalkBegins ==
  ASSUME BadgeInv, PagingInv, Dash!Next, Dash!BeginWalk
  PROVE  PagingInv'
<1>1. PICK q \in Queries :
        walk' = [at |-> "paging", query |-> q, cursor |-> <<>>, got |-> <<>>]
  BY DEF Dash!BeginWalk
<1>2. walk.at = "none"
  BY DEF Dash!BeginWalk
<1>3. walk'.at = "paging" /\ walk'.cursor = <<>> /\ walk'.got = <<>> /\ walk'.query = q
  BY <1>1
<1>4. walk' \in Walk
  BY <1>1 DEF Walk
<1>5. steady' = {r \in Runs : Dash!Matches(r, walk.query)'}
  BY <1>2, <1>3 DEF Dash!Next, Dash!Remember
<1>6. PagesInOrder' /\ CursorIsLast'
  BY <1>3 DEF PagesInOrder, CursorIsLast
<1>7. QED
  BY <1>3, <1>4, <1>5, <1>6 DEF PagingInv, PastCursor

\* The next page.
LEMMA PageFetched ==
  ASSUME BadgeInv, PagingInv, Dash!Next, Dash!NextPage
  PROVE  PagingInv'
<1> DEFINE query == walk.query
           found == {Dash!Key(r) : r \in {x \in Runs : Dash!Matches(x, query)}}
           past == {k \in found : walk.cursor = <<>> \/ Dash!Older(k, walk.cursor[1])}
           perPage == Dash!Limit(query)
           rows == {k \in past :
                      Dash!Cardinality({m \in past : Dash!Before(m, k)}) < perPage}
           more == Dash!Cardinality(past) > perPage
<1>1. walk.at = "paging" /\ walk \in Walk /\ PagesInOrder /\ CursorIsLast
      /\ steady \subseteq {r \in Runs : Dash!Matches(r, walk.query)}
      /\ \A r \in steady : Delivered(r) \/ PastCursor(r)
  BY DEF PagingInv, Dash!NextPage
<1>2. walk' = [walk EXCEPT
         !.got = Append(@, rows),
         !.cursor = IF rows = {} THEN @ ELSE <<Dash!Oldest(rows)>>,
         !.at = IF more THEN "paging" ELSE "done"]
      /\ run' = run /\ root' = root
  BY DEF Dash!NextPage, Dash!ListRuns, Dash!rows
<1>3. past \in SUBSET PageKey
  <2>1. \A r \in Runs : Dash!Exists(r) => run[r].created \in Nat
    BY RowsApart DEF BadgeInv, RunRow
  <2>2. \A r \in Runs : Dash!Matches(r, query) => Dash!Key(r) \in PageKey
    BY <2>1 DEF Dash!Matches, Dash!Key, PageKey
  <2>3. QED
    BY <2>2
<1>4. IsFiniteSet(past)
  <2>1. IsFiniteSet(Runs)
    BY DashAssumption, DashFinite DEF Dash!BoardAssumption
  <2> DEFINE all == {Dash!Key(r) : r \in Runs}
             f == [r \in Runs |-> Dash!Key(r)]
  <2>2. f \in Surjection(Runs, all)
    BY DEF Surjection
  <2>3. IsFiniteSet(all)
    BY <2>1, <2>2, FS_Surjection
  <2>4. past \in SUBSET all
    OBVIOUS
  <2> HIDE DEF past, all
  <2>5. QED
    BY <2>3, <2>4, FS_Subset
<1>5. perPage \in Nat
  <2>1. query \in Queries
    BY <1>1 DEF Walk
  <2>2. query.limit \in Int /\ defaultRunsPage \in Nat /\ maxRunsPage \in Nat
    BY <2>1, DashAssumption DEF Dash!BoardAssumption
  <2>3. QED
    BY <2>2 DEF Dash!Limit
<1>6. rows \in SUBSET past
  OBVIOUS
<1>7. /\ ~more => rows = past
      /\ \A k \in past \ rows : \A m \in rows : Dash!Before(m, k)
  <2>1. rows = {k \in past : Cardinality({m \in past : Dash!Before(m, k)}) < perPage}
    BY DashCardinality
  <2>2. more <=> Cardinality(past) > perPage
    BY DashCardinality
  <2> HIDE DEF past, rows, more, perPage
  <2>3. QED
    BY <1>3, <1>4, <1>5, <2>1, <2>2, PageTakesTheNewest
<1>8. \A k \in past : walk.cursor = <<>> \/ Dash!Older(k, walk.cursor[1])
  OBVIOUS
<1>9. ASSUME NEW r \in steady, PastCursor(r) PROVE Dash!Key(r) \in past
  <2>1. r \in Runs /\ Dash!Matches(r, query)
    BY <1>1
  <2>2. QED
    BY <1>9, <2>1 DEF PastCursor
<1>10. steady' \subseteq steady /\ steady' \subseteq {r \in Runs : Dash!Matches(r, walk.query)}'
  <2>1. steady' = {r \in steady : Dash!Matches(r, walk.query)'}
    BY <1>1 DEF Dash!Next, Dash!Remember
  <2>2. QED
    BY <1>1, <2>1
<1> HIDE DEF found, past, perPage, rows, more
<1>11. /\ walk.got \in Seq(SUBSET PageKey) /\ walk.cursor \in Seq(PageKey)
       /\ Len(walk.got) \in Nat /\ DOMAIN walk.got = 1..Len(walk.got)
  BY <1>1 DEF Walk
<1>12. PICK n \in Nat : n = Len(walk.got)
  BY <1>11
<1>13. rows \in SUBSET PageKey
  BY <1>3, <1>6
<1>14. /\ walk'.got = Append(walk.got, rows)
       /\ walk'.cursor = IF rows = {} THEN walk.cursor ELSE <<Dash!Oldest(rows)>>
       /\ walk'.at = IF more THEN "paging" ELSE "done"
       /\ walk'.query = walk.query
  BY <1>1, <1>2 DEF Walk
<1>15. /\ walk'.got \in Seq(SUBSET PageKey) /\ DOMAIN walk'.got = 1..(n + 1)
       /\ \A i \in 1..n : walk'.got[i] = walk.got[i]
       /\ walk'.got[n + 1] = rows
       /\ DOMAIN walk.got = 1..n
  BY <1>11, <1>12, <1>13, <1>14
<1>16. rows # {} => /\ Dash!Oldest(rows) \in rows /\ Dash!Oldest(rows) \in PageKey
                    /\ \A m \in rows : m = Dash!Oldest(rows) \/ Dash!Before(m, Dash!Oldest(rows))
  BY <1>13, OldestOfPage
<1>17. walk' \in Walk
  <2>1. walk'.cursor \in Seq(PageKey)
    BY <1>11, <1>14, <1>16
  <2>2. walk'.at \in {"paging", "done"}
    BY <1>14
  <2>3. QED
    BY <1>1, <1>2, <1>15, <2>1, <2>2, <1>14 DEF Walk
<1>18. \A i \in 1..n : \A a \in walk.got[i], b \in rows : Dash!Before(a, b)
  <2> SUFFICES ASSUME NEW i \in 1..n, NEW a \in walk.got[i], NEW b \in rows
               PROVE  Dash!Before(a, b)
    OBVIOUS
  <2>1. a \in PageKey /\ b \in PageKey /\ b \in past
    BY <1>6, <1>11, <1>13, <1>15
  <2>2. walk.cursor # <<>>
    BY <1>1, <1>15 DEF CursorIsLast
  <2>3. PICK c \in PageKey : c = walk.cursor[1] /\ (a = c \/ Dash!Before(a, c))
    BY <1>1, <1>15, <2>2 DEF CursorIsLast
  <2>4. Dash!Before(c, b)
    BY <1>8, <2>1, <2>2, <2>3, ListOrder
  <2>5. QED
    BY <2>1, <2>3, <2>4, ListOrder
<1>19. PagesInOrder'
  <2> SUFFICES ASSUME NEW i \in 1..(n + 1), NEW j \in 1..(n + 1), i < j,
                      NEW a \in walk'.got[i], NEW b \in walk'.got[j]
               PROVE  Dash!Before(a, b)
    BY <1>15 DEF PagesInOrder, Dash!Before
  <2>1. i \in 1..n
    OBVIOUS
  <2>2. CASE j \in 1..n
    BY <1>1, <1>15, <2>1, <2>2 DEF PagesInOrder
  <2>3. CASE j = n + 1
    BY <1>15, <1>18, <2>1, <2>3
  <2>4. QED
    BY <2>2, <2>3
<1>20. CursorIsLast'
  <2>1. CASE rows = {}
    <3>1. walk'.cursor = walk.cursor
      BY <1>14, <2>1
    <3>2. \A i \in 1..(n + 1) : walk'.got[i] = {} \/ (i \in 1..n /\ walk'.got[i] = walk.got[i])
      BY <1>15, <2>1
    <3>3. QED
      BY <1>1, <1>15, <3>1, <3>2 DEF CursorIsLast, Dash!Before
  <2>2. CASE rows # {}
    <3>1. PICK c \in rows : c = Dash!Oldest(rows)
      BY <1>16, <2>2
    <3>2. walk'.cursor = <<c>> /\ walk'.cursor # <<>> /\ walk'.cursor[1] = c /\ c \in PageKey
      BY <1>13, <1>14, <2>2, <3>1
    <3>3. \A i \in 1..(n + 1) : \A k \in walk'.got[i] : k = c \/ Dash!Before(k, c)
      BY <1>15, <1>16, <1>18, <2>2, <3>1
    <3>4. QED
      BY <1>15, <3>2, <3>3 DEF CursorIsLast, Dash!Before
  <2>3. QED
    BY <2>1, <2>2
<1>21. \A r \in steady : Delivered(r) => Delivered(r)'
  BY <1>15 DEF Delivered
<1>22. \A r \in steady : Dash!Key(r) \in rows => Delivered(r)'
  <2>1. \A r \in steady : Dash!Key(r).id = r
    BY DEF Dash!Key
  <2>2. n + 1 \in 1..(n + 1)
    OBVIOUS
  <2>3. QED
    BY <1>15, <2>1, <2>2 DEF Delivered
<1>23. ASSUME NEW r \in steady', more PROVE Delivered(r)' \/ PastCursor(r)'
  <2>1. r \in steady
    BY <1>10
  <2>2. CASE PastCursor(r) /\ Dash!Key(r) \notin rows
    <3>1. Dash!Key(r) \in past /\ Dash!Key(r) \in PageKey
      BY <1>3, <1>9, <2>1, <2>2
    <3>2. Dash!Key(r)' = Dash!Key(r)
      BY <1>2 DEF Dash!Key
    <3>3. CASE rows = {}
      BY <1>14, <2>2, <3>2, <3>3 DEF PastCursor, Dash!Older
    <3>4. CASE rows # {}
      <4>1. PICK c \in rows : c = Dash!Oldest(rows)
        BY <1>16, <3>4
      <4>2. Dash!Before(c, Dash!Key(r))
        BY <1>7, <2>2, <3>1, <4>1
      <4>3. Dash!Older(Dash!Key(r), c)
        BY <1>13, <3>1, <4>1, <4>2, ListOrder
      <4>4. walk'.cursor = <<c>>
        BY <1>14, <3>4, <4>1
      <4>5. QED
        BY <3>2, <4>3, <4>4 DEF PastCursor, Dash!Older
    <3>5. QED
      BY <3>3, <3>4
  <2>3. QED
    BY <1>1, <1>21, <1>22, <2>1, <2>2
<1>24. ASSUME NEW r \in steady', ~more PROVE Delivered(r)'
  <2>1. r \in steady
    BY <1>10
  <2>2. PastCursor(r) => Dash!Key(r) \in rows
    BY <1>7, <1>9, <1>24, <2>1
  <2>3. QED
    BY <1>1, <1>21, <1>22, <2>1, <2>2
<1>25. walk'.at = "paging" \/ walk'.at = "done"
  BY <1>14
<1>26. walk'.at = "paging" <=> more
  BY <1>14
<1>27. QED
  BY <1>10, <1>17, <1>19, <1>20, <1>23, <1>24, <1>25, <1>26 DEF PagingInv

\* Paging loses nothing and repeats nothing (handleListRuns, ListRuns), whatever is
\* created, edited or deleted between two pages: for any runs, ticks, filters
\* and limits, a client that follows next_cursor to the end has seen every run
\* that matched all along, the pages in the order of the list.
THEOREM NothingIsSkipped == Dash!Spec => []PagesCover
<1>1. Dash!Init => BadgeInv /\ PagingInv
  <2>1. Dash!Init => BadgeInv
    BY BadgeInit
  <2>2. Dash!Init => PagingInv
    BY DEF Dash!Init, PagingInv
  <2>3. QED
    BY <2>1, <2>2
<1>2. BadgeInv /\ PagingInv /\ [Dash!Next]_(Dash!vars) => BadgeInv' /\ PagingInv'
  <2> SUFFICES ASSUME BadgeInv, PagingInv, [Dash!Next]_(Dash!vars)
               PROVE  BadgeInv' /\ PagingInv'
    OBVIOUS
  <2>1. BadgeInv'
    BY BadgeStep
  <2>2. CASE Dash!Next
    <3>1. Dash!Step
      BY <2>2 DEF Dash!Next
    <3>2. walk' = walk \/ Dash!BeginWalk \/ Dash!NextPage
      BY <3>1, WalkKept
    <3>3. QED
      BY <2>1, <2>2, <3>2, PagesStand, WalkBegins, PageFetched
  <2>3. CASE UNCHANGED Dash!vars
    <3>1. UNCHANGED <<walk, steady, run, root>>
      BY <2>3 DEF Dash!vars, Dash!rows
    <3>2. \A r \in Runs : Dash!Matches(r, walk.query)' <=> Dash!Matches(r, walk.query)
      BY <3>1 DEF Dash!Matches, Dash!Exists, Dash!statusFilterClause, Dash!primaryRootStatusExpr,
         Dash!HasRow, Dash!runUpdatesPredicate, Dash!RootsOf, Dash!gradeFilterClause, Dash!effectiveGrade
    <3>3. PagesInOrder' <=> PagesInOrder
      BY <3>1 DEF PagesInOrder
    <3>4. CursorIsLast' <=> CursorIsLast
      BY <3>1 DEF CursorIsLast
    <3>5. \A r \in steady : /\ Delivered(r)' <=> Delivered(r)
                            /\ PastCursor(r)' <=> PastCursor(r)
      BY <3>1 DEF Delivered, PastCursor, Dash!Key
    <3>6. QED
      BY <2>1, <3>1, <3>2, <3>3, <3>4, <3>5 DEF PagingInv
  <2>4. QED
    BY <2>2, <2>3
<1>3. PagingInv => PagesCover
  BY DEF PagingInv, PagesInOrder, Delivered, PagesCover, Dash!PagesCover
<1>4. QED
  BY <1>1, <1>2, <1>3, PTL DEF Dash!Spec

-----------------------------------------------------------------------------
(***************************************************************************)
(* The monitor.  The status it keeps of a run is where the run's last line *)
(* ends, and a run without lines is one that was unfinished when first     *)
(* seen, or is not seen yet.                                               *)
(***************************************************************************)
Unwatchable == {"unsupported", "not_found"}
Ended == Watch!Terminal \cup {"deleted"}
Sampled == Ended \cup Unwatchable \cup {"ongoing"}
WatchLine == [run : Watch!Ids, from : Sampled \cup {"-"}, to : Sampled]

WatchTypes ==
  /\ sessions \in [Watch!Ids -> Watch!Terminal \cup {"ongoing", "chat", "absent"}]
  /\ seen \in [Watch!Ids -> BOOLEAN] /\ terminal \in [Watch!Ids -> BOOLEAN]
  /\ bad \in [Watch!Ids -> BOOLEAN] /\ last \in [Watch!Ids -> Sampled \cup {"-"}]
  /\ lines \in Seq(WatchLine) /\ pos \in Nat \ {0}

\* What is kept of a run.
RunKept(r) ==
  /\ ~seen[r] => last[r] = "-"
  /\ seen[r] => last[r] # "-"
  /\ terminal[r] <=> last[r] \in Ended
  /\ bad[r] <=> last[r] \in Unwatchable

\* Its lines form a chain that ends in it.
RunTold(r) ==
  /\ Watch!LinesOf(r) = {} => last[r] \in {"-", "ongoing"}
  /\ ~seen[r] => Watch!LinesOf(r) = {}
  /\ \A i \in Watch!LinesOf(r) :
       (\A k \in Watch!LinesOf(r) : k <= i) => lines[i].to = last[r]
  /\ \A i, j \in Watch!LinesOf(r) :
       (i < j /\ \A k \in Watch!LinesOf(r) : k <= i \/ j <= k) => lines[j].from = lines[i].to

WatchInv ==
  /\ Watch!MonitorAssumption /\ WatchTypes
  /\ \A r \in Watch!Ids : RunKept(r) /\ RunTold(r)
  /\ code \in {"ok", "crashed", "cancelled", "unwatchable"} =>
       Watch!Done /\ code = Watch!ExitCode

\* Some index is the last of those in a set.
LEMMA GreatestIndex ==
  ASSUME NEW n \in Nat, NEW S \in SUBSET (1..n), S # {}
  PROVE  Watch!Max(S) \in S /\ \A k \in S : k <= Watch!Max(S)
<1>1. S \in SUBSET (0..n)
  OBVIOUS
<1>2. PICK m \in S : \A k \in S : k <= m
  BY <1>1, GreatestNumber
<1>3. \A k \in S : m >= k
  BY <1>2
<1>4. Watch!Max(S) \in S /\ \A k \in S : Watch!Max(S) >= k
  BY <1>3 DEF Watch!Max
<1>5. QED
  BY <1>4

\* Nothing is known of any run.
LEMMA WatchInit == Watch!MonitorAssumption /\ Watch!Init => WatchInv
<1> SUFFICES ASSUME Watch!MonitorAssumption, Watch!Init PROVE WatchInv
  OBVIOUS
<1>1. \A k \in Kinds :
        Watch!Born[k] \subseteq Watch!Terminal \cup {"ongoing", "chat", "absent"}
  BY DEF Watch!MonitorAssumption, Watch!Born
<1>2. sessions \in [Watch!Ids -> Watch!Terminal \cup {"ongoing", "chat", "absent"}]
  BY <1>1 DEF Watch!Init
<1>3. WatchTypes
  BY <1>2 DEF Watch!Init, WatchTypes
<1>4. \A r \in Watch!Ids : RunKept(r)
  BY DEF Watch!Init, RunKept, Ended, Unwatchable, Watch!Terminal
<1>5. \A r \in Watch!Ids : RunTold(r)
  BY DEF Watch!Init, RunTold, Watch!LinesOf
<1>6. QED
  BY <1>3, <1>4, <1>5 DEF WatchInv, Watch!Init

\* A line is appended: it is its run's last, and the others have the lines they had.
LEMMA LineAppended ==
  ASSUME WatchTypes, NEW r \in Watch!Ids, NEW from \in Sampled \cup {"-"}, NEW to \in Sampled,
         lines' = Append(lines, Watch!Line(r, from, to))
  PROVE  /\ lines' \in Seq(WatchLine)
         /\ Len(lines) \in Nat /\ DOMAIN lines = 1..Len(lines)
         /\ Watch!LinesOf(r)' = Watch!LinesOf(r) \cup {Len(lines) + 1}
         /\ \A q \in Watch!Ids \ {r} : Watch!LinesOf(q)' = Watch!LinesOf(q)
         /\ \A i \in DOMAIN lines : lines'[i] = lines[i]
         /\ lines'[Len(lines) + 1].from = from /\ lines'[Len(lines) + 1].to = to
<1>1. Watch!Line(r, from, to) \in WatchLine
  BY DEF Watch!Line, WatchLine
<1>2. lines \in Seq(WatchLine)
  BY DEF WatchTypes
<1>3. /\ lines' \in Seq(WatchLine) /\ Len(lines) \in Nat /\ DOMAIN lines = 1..Len(lines)
      /\ DOMAIN lines' = 1..Len(lines) + 1
      /\ \A i \in DOMAIN lines : lines'[i] = lines[i]
      /\ lines'[Len(lines) + 1] = Watch!Line(r, from, to)
  BY <1>1, <1>2
<1>4. lines'[Len(lines) + 1].run = r
  BY <1>3 DEF Watch!Line
<1>5. QED
  BY <1>3, <1>4 DEF Watch!Line, Watch!LinesOf

\* A step that leaves what is kept and printed alone keeps its story.
LEMMA StorySame ==
  ASSUME UNCHANGED <<seen, last, terminal, bad, lines>>, NEW r \in Watch!Ids,
         RunKept(r), RunTold(r)
  PROVE  RunKept(r)' /\ RunTold(r)'
<1>1. Watch!LinesOf(r)' = Watch!LinesOf(r)
  BY DEF Watch!LinesOf
<1>2. RunKept(r)'
  BY DEF RunKept
<1>3. RunTold(r)'
  BY <1>1 DEF RunTold
<1>4. QED
  BY <1>2, <1>3

\* One sample is observed.
LEMMA Observed ==
  ASSUME WatchInv, NEW r \in Watch!Ids, NEW s \in Sampled, ~bad[r],
         Watch!Observe(r, s), sessions' = sessions, pos' \in Nat \ {0}
  PROVE  WatchTypes' /\ \A q \in Watch!Ids : RunKept(q)' /\ RunTold(q)'
<1> DEFINE end == s \in Watch!Terminal \cup {"deleted"}
           wrong == bad[r] \/ s \in {"unsupported", "not_found"}
<1>1. WatchTypes /\ (\A q \in Watch!Ids : RunKept(q) /\ RunTold(q))
  BY DEF WatchInv
<1>2. /\ end \in BOOLEAN /\ wrong \in BOOLEAN
      /\ end <=> s \in Ended
      /\ wrong <=> s \in Unwatchable
  BY DEF Ended, Unwatchable
<1>3. /\ seen' = [seen EXCEPT ![r] = TRUE] /\ last' = [last EXCEPT ![r] = s]
      /\ terminal' = [terminal EXCEPT ![r] = end] /\ bad' = [bad EXCEPT ![r] = wrong]
      /\ lines' = IF ~seen[r]
                    THEN IF end \/ wrong THEN Append(lines, Watch!Line(r, "-", s)) ELSE lines
                    ELSE IF last[r] = s THEN lines
                         ELSE Append(lines, Watch!Line(r, last[r], s))
  BY Zenon DEF Watch!Observe
<1> HIDE DEF end, wrong
<1>4. /\ seen' \in [Watch!Ids -> BOOLEAN] /\ terminal' \in [Watch!Ids -> BOOLEAN]
      /\ bad' \in [Watch!Ids -> BOOLEAN] /\ last' \in [Watch!Ids -> Sampled \cup {"-"}]
  <2>1. seen' \in [Watch!Ids -> BOOLEAN] /\ last' \in [Watch!Ids -> Sampled \cup {"-"}]
    BY <1>1, <1>3 DEF WatchTypes
  <2>2. terminal' \in [Watch!Ids -> BOOLEAN] /\ bad' \in [Watch!Ids -> BOOLEAN]
    BY <1>1, <1>2, <1>3, Zenon DEF WatchTypes
  <2>3. QED
    BY <2>1, <2>2
<1>5. /\ seen'[r] /\ last'[r] = s
      /\ terminal'[r] = end /\ bad'[r] = wrong
      /\ \A q \in Watch!Ids \ {r} : /\ seen'[q] = seen[q] /\ last'[q] = last[q]
                                    /\ terminal'[q] = terminal[q] /\ bad'[q] = bad[q]
  BY <1>1, <1>3, Zenon DEF WatchTypes
<1>6. RunKept(r)'
  <2>1. s # "-"
    BY DEF Sampled, Ended, Unwatchable, Watch!Terminal
  <2>2. QED
    BY <1>2, <1>5, <2>1, Zenon DEF RunKept
<1>7. ASSUME NEW q \in Watch!Ids \ {r} PROVE RunKept(q)'
  <2>1. /\ RunKept(q) /\ seen'[q] = seen[q] /\ last'[q] = last[q]
        /\ terminal'[q] = terminal[q] /\ bad'[q] = bad[q]
    BY <1>1, <1>5
  <2>2. QED
    BY <2>1 DEF RunKept
<1>8. CASE lines' = lines
  <2>1. lines' \in Seq(WatchLine)
    BY <1>1, <1>8 DEF WatchTypes
  <2>2. \A q \in Watch!Ids : Watch!LinesOf(q)' = Watch!LinesOf(q)
    BY <1>8 DEF Watch!LinesOf
  <2>3. \A q \in Watch!Ids \ {r} : RunTold(q)'
    BY <1>1, <1>5, <1>8, <2>2 DEF RunTold
  <2>4. s = last[r] \/ (~seen[r] /\ s = "ongoing")
    <3>1. lines # Append(lines, Watch!Line(r, "-", s))
      <4>1. lines \in Seq(WatchLine)
        BY <1>1 DEF WatchTypes
      <4>2. Len(Append(lines, Watch!Line(r, "-", s))) = Len(lines) + 1 /\ Len(lines) \in Nat
        BY <4>1
      <4>3. QED
        BY <4>2
    <3>2. lines # Append(lines, Watch!Line(r, last[r], s))
      <4>1. lines \in Seq(WatchLine)
        BY <1>1 DEF WatchTypes
      <4>2. /\ Len(Append(lines, Watch!Line(r, last[r], s))) = Len(lines) + 1
            /\ Len(lines) \in Nat
        BY <4>1
      <4>3. QED
        BY <4>2
    <3>3. CASE ~seen[r]
      <4>1. ~(end \/ wrong)
        BY <1>3, <1>8, <3>1, <3>3, Zenon
      <4>2. s \notin Ended \cup Unwatchable
        BY <4>1, <1>2
      <4>3. QED
        BY <3>3, <4>2 DEF Sampled
    <3>4. CASE seen[r]
      BY <1>3, <1>8, <3>2, <3>4, Zenon
    <3>5. QED
      BY <3>3, <3>4
  <2>5. RunTold(r)'
    <3>1. seen'[r] /\ last'[r] = s
      BY <1>5
    <3>2. CASE s = last[r]
      BY <1>1, <1>8, <2>2, <3>1, <3>2 DEF RunTold
    <3>3. CASE ~seen[r] /\ s = "ongoing"
      <4>1. Watch!LinesOf(r)' = {}
        BY <1>1, <2>2, <3>3 DEF RunTold
      <4>2. QED
        BY <3>1, <3>3, <4>1 DEF RunTold
    <3>4. QED
      BY <2>4, <3>2, <3>3
  <2>6. QED
    BY <1>1, <1>4, <1>6, <1>7, <2>1, <2>3, <2>5 DEF WatchTypes
<1>9. CASE lines' # lines
  <2>1. PICK from \in Sampled \cup {"-"} :
          /\ lines' = Append(lines, Watch!Line(r, from, s))
          /\ IF seen[r] THEN from = last[r] ELSE from = "-"
    <3>1. last[r] \in Sampled \cup {"-"}
      BY <1>1 DEF WatchTypes
    <3>2. CASE seen[r]
      <4>1. lines' = Append(lines, Watch!Line(r, last[r], s))
        BY <1>3, <1>9, <3>2, Zenon
      <4>2. QED
        BY <3>1, <3>2, <4>1, Zenon
    <3>3. CASE ~seen[r]
      <4>1. lines' = Append(lines, Watch!Line(r, "-", s))
        BY <1>3, <1>9, <3>3, Zenon
      <4>2. "-" \in Sampled \cup {"-"}
        OBVIOUS
      <4>3. QED
        BY <3>3, <4>1, <4>2, Zenon
    <3>4. QED
      BY <3>2, <3>3
  <2>2. /\ lines' \in Seq(WatchLine)
        /\ Len(lines) \in Nat /\ DOMAIN lines = 1..Len(lines)
        /\ Watch!LinesOf(r)' = Watch!LinesOf(r) \cup {Len(lines) + 1}
        /\ \A q \in Watch!Ids \ {r} : Watch!LinesOf(q)' = Watch!LinesOf(q)
        /\ \A i \in DOMAIN lines : lines'[i] = lines[i]
        /\ lines'[Len(lines) + 1].from = from /\ lines'[Len(lines) + 1].to = s
    BY <1>1, <2>1, LineAppended
  <2>3. \A q \in Watch!Ids : \A i \in Watch!LinesOf(q) : i \in DOMAIN lines
    BY DEF Watch!LinesOf
  <2>4. \A q \in Watch!Ids \ {r} : RunTold(q)'
    <3> SUFFICES ASSUME NEW q \in Watch!Ids \ {r} PROVE RunTold(q)'
      OBVIOUS
    <3>1. RunTold(q) /\ Watch!LinesOf(q)' = Watch!LinesOf(q)
      BY <1>1, <2>2
    <3>2. \A i \in Watch!LinesOf(q) : lines'[i] = lines[i]
      BY <2>2, <2>3
    <3>3. seen'[q] = seen[q] /\ last'[q] = last[q]
      BY <1>5
    <3>4. QED
      BY <3>1, <3>2, <3>3 DEF RunTold
  <2>5. RunTold(r)'
    <3> DEFINE L == Watch!LinesOf(r)  n == Len(lines)
    <3>1. RunTold(r) /\ seen'[r] /\ last'[r] = s
      BY <1>1, <1>5
    <3>2. \A i \in L : i \in Nat /\ i <= n /\ lines'[i] = lines[i]
      BY <2>2, <2>3
    <3>3. Watch!LinesOf(r)' = L \cup {n + 1} /\ n \in Nat
      BY <2>2
    <3>4. \A i \in L \cup {n + 1} : (\A k \in L \cup {n + 1} : k <= i) => lines'[i].to = s
      BY <2>2, <3>2
    <3>5. ASSUME NEW i \in L \cup {n + 1}, NEW j \in L \cup {n + 1}, i < j,
                 \A k \in L \cup {n + 1} : k <= i \/ j <= k
          PROVE  lines'[j].from = lines'[i].to
      <4>1. i \in L
        BY <2>2, <3>2, <3>5
      <4>2. CASE j \in L
        BY <3>1, <3>2, <3>5, <4>1, <4>2 DEF RunTold
      <4>3. CASE j = n + 1
        <5>1. \A k \in L : k <= i
          BY <3>2, <3>3, <3>5, <4>3
        <5>2. lines[i].to = last[r] /\ seen[r]
          BY <3>1, <4>1, <5>1 DEF RunTold
        <5>3. QED
          BY <2>1, <2>2, <3>2, <4>1, <4>3, <5>2
      <4>4. QED
        BY <4>2, <4>3
    <3>6. L \cup {n + 1} # {}
      OBVIOUS
    <3> HIDE DEF L, n
    <3>7. QED
      BY <3>1, <3>3, <3>4, <3>5, <3>6 DEF RunTold
  <2>6. QED
    BY <1>1, <1>4, <1>6, <1>7, <2>2, <2>4, <2>5 DEF WatchTypes
<1>10. QED
  BY <1>8, <1>9

\* Every step of the watcher and of what it watches keeps the story.
LEMMA WatchStep == WatchInv /\ [Watch!Next]_(Watch!vars) => WatchInv'
<1> SUFFICES ASSUME WatchInv, [Watch!Next]_(Watch!vars) PROVE WatchInv'
  OBVIOUS
<1> DEFINE kept == UNCHANGED <<seen, last, terminal, bad, lines>>
<1>1. /\ Watch!MonitorAssumption /\ WatchTypes
      /\ \A r \in Watch!Ids : RunKept(r) /\ RunTold(r)
  BY DEF WatchInv
<1>2. kept => \A r \in Watch!Ids : RunKept(r)' /\ RunTold(r)'
  BY <1>1, StorySame
<1>3. ASSUME NEW r \in Watch!Ids, Watch!Change(r) PROVE WatchInv'
  <2>1. kept /\ UNCHANGED <<pos, code>> /\ code = "running"
    BY <1>3 DEF Watch!Change, Watch!Watching
  <2>2. sessions' \in [Watch!Ids -> Watch!Terminal \cup {"ongoing", "chat", "absent"}]
    BY <1>1, <1>3 DEF WatchTypes, Watch!Change, Watch!Successors
  <2>3. WatchTypes'
    BY <1>1, <2>1, <2>2 DEF WatchTypes
  <2>4. QED
    BY <1>1, <1>2, <2>1, <2>3 DEF WatchInv
<1>4. CASE Watch!Outage
  <2>1. kept /\ UNCHANGED <<sessions, pos, code>> /\ code = "running"
    BY <1>4 DEF Watch!Outage, Watch!Watching
  <2>2. WatchTypes'
    BY <1>1, <2>1 DEF WatchTypes
  <2>3. QED
    BY <1>1, <1>2, <2>1, <2>2 DEF WatchInv
<1>5. CASE Watch!PollOne
  <2> DEFINE r == Watched[pos]
  <2>1. r \in Watch!Ids
    <3>1. Watched \in Seq(Watch!Ids) /\ pos \in Nat \ {0} /\ pos <= Len(Watched)
      BY <1>1, <1>5 DEF WatchTypes, Watch!MonitorAssumption, Watch!PollOne
    <3>2. QED
      BY <3>1
  <2>2. /\ code = "running" /\ UNCHANGED <<sessions, code>> /\ pos' = pos + 1
        /\ kept \/ (~bad[r] /\ Watch!Observe(r, Watch!Sample(r)))
    BY <1>5, Zenon DEF Watch!PollOne, Watch!Watching
  <2>3. pos' \in Nat \ {0}
    BY <1>1, <2>2 DEF WatchTypes
  <2>4. CASE kept
    <3>1. WatchTypes'
      BY <1>1, <2>2, <2>3, <2>4 DEF WatchTypes
    <3>2. QED
      BY <1>1, <1>2, <2>2, <2>4, <3>1 DEF WatchInv
  <2>5. CASE ~bad[r] /\ Watch!Observe(r, Watch!Sample(r))
    <3>1. sessions[r] \in Watch!Terminal \cup {"ongoing", "chat", "absent"}
      BY <1>1, <2>1 DEF WatchTypes
    <3>2. Watch!Sample(r) \in Sampled
      BY <3>1 DEF Watch!Sample, Sampled, Ended, Unwatchable
    <3> HIDE DEF r
    <3>3. WatchTypes' /\ \A q \in Watch!Ids : RunKept(q)' /\ RunTold(q)'
      BY <2>1, <2>2, <2>3, <2>5, <3>2, Observed
    <3>4. QED
      BY <1>1, <2>2, <3>3 DEF WatchInv
  <2>6. QED
    BY <2>2, <2>4, <2>5
<1>6. CASE Watch!EndPoll
  <2>1. /\ kept /\ UNCHANGED sessions /\ code = "running"
        /\ \/ Watch!Done /\ code' = Watch!ExitCode /\ pos' = pos
           \/ code' = "timeout" /\ pos' = pos
           \/ pos' = 1 /\ code' = code
    BY <1>6 DEF Watch!EndPoll, Watch!Watching
  <2>2. WatchTypes'
    BY <1>1, <2>1 DEF WatchTypes
  <2>3. (Watch!Done <=> Watch!Done') /\ Watch!ExitCode' = Watch!ExitCode
    BY <2>1 DEF Watch!Done, Watch!ExitCode
  <2>4. QED
    BY <1>1, <1>2, <2>1, <2>2, <2>3 DEF WatchInv
<1>7. CASE Watch!Interrupt
  <2>1. kept /\ UNCHANGED <<sessions, pos>> /\ code' = "interrupted"
    BY <1>7 DEF Watch!Interrupt
  <2>2. WatchTypes'
    BY <1>1, <2>1 DEF WatchTypes
  <2>3. QED
    BY <1>1, <1>2, <2>1, <2>2 DEF WatchInv
<1>8. CASE UNCHANGED Watch!vars
  <2>1. kept /\ UNCHANGED <<sessions, pos, code>>
    BY <1>8 DEF Watch!vars
  <2>2. WatchTypes'
    BY <1>1, <2>1 DEF WatchTypes
  <2>3. (Watch!Done <=> Watch!Done') /\ Watch!ExitCode' = Watch!ExitCode
    BY <2>1 DEF Watch!Done, Watch!ExitCode
  <2>4. QED
    BY <1>1, <1>2, <2>1, <2>2, <2>3 DEF WatchInv
<1>9. QED
  BY <1>3, <1>4, <1>5, <1>6, <1>7, <1>8 DEF Watch!Next

\* At the end the last line of a run tells what is kept of it.
LEMMA ToldIsKept ==
  ASSUME WatchInv, Watch!Done, NEW r \in Watch!Ids
  PROVE  Watch!Told(r) = last[r] /\ last[r] \in Ended \cup Unwatchable
<1>1. WatchTypes /\ RunKept(r) /\ RunTold(r) /\ (terminal[r] \/ bad[r])
  BY DEF WatchInv, Watch!Done
<1>2. last[r] \in Ended \cup Unwatchable
  BY <1>1 DEF RunKept
<1>3. Watch!LinesOf(r) # {}
  BY <1>1, <1>2 DEF RunTold, Ended, Unwatchable, Watch!Terminal
<1>4. Watch!LinesOf(r) \in SUBSET (1..Len(lines)) /\ Len(lines) \in Nat
  BY <1>1 DEF WatchTypes, Watch!LinesOf
<1>5. /\ Watch!Max(Watch!LinesOf(r)) \in Watch!LinesOf(r)
      /\ \A k \in Watch!LinesOf(r) : k <= Watch!Max(Watch!LinesOf(r))
  BY <1>3, <1>4, GreatestIndex
<1>6. Watch!Told(r) = lines[Watch!Max(Watch!LinesOf(r))].to
  BY <1>3 DEF Watch!Told
<1>7. QED
  BY <1>1, <1>2, <1>5, <1>6 DEF RunTold

\* `amplio client monitor` tells one story (observe, done, exitErr): for any runs,
\* restarts, deletions, outages and polls, the lines of a run form a chain, and
\* a watch that ends by itself ends with the code its last lines call for.
THEOREM OneStory == Watch!Spec => []LinesTellTheExit
<1>1. Watch!MonitorAssumption /\ Watch!Init => WatchInv
  BY WatchInit
<1>2. WatchInv /\ [Watch!Next]_(Watch!vars) => WatchInv'
  BY WatchStep
<1>3. WatchInv => LinesTellTheExit
  <2> SUFFICES ASSUME WatchInv PROVE Watch!LinesTellTheExit
    BY DEF LinesTellTheExit
  <2>1. \A r \in Watch!Ids : \A i, j \in Watch!LinesOf(r) :
          (i < j /\ \A k \in Watch!LinesOf(r) : k <= i \/ j <= k)
             => lines[j].from = lines[i].to
    BY DEF WatchInv, RunTold
  <2>2. ASSUME code \in {"ok", "crashed", "cancelled", "unwatchable"}
        PROVE  LET told == {Watch!Told(r) : r \in Watch!Ids}
               IN  /\ told \cap {"-", "ongoing"} = {}
                   /\ code = "unwatchable" <=> told \cap {"unsupported", "not_found"} # {}
                   /\ code = "crashed" =>
                        "crashed" \in told /\ told \cap {"unsupported", "not_found"} = {}
                   /\ code = "cancelled" =>
                        /\ "cancelled" \in told
                        /\ told \cap {"crashed", "unsupported", "not_found"} = {}
                   /\ code = "ok" => told \subseteq {"concluded", "deleted"}
    <3> DEFINE told == {Watch!Told(r) : r \in Watch!Ids}
    <3>1. Watch!Done /\ code = Watch!ExitCode
      BY <2>2 DEF WatchInv
    <3>2. \A r \in Watch!Ids : Watch!Told(r) = last[r] /\ last[r] \in Ended \cup Unwatchable
      BY <3>1, ToldIsKept
    <3>3. \A r \in Watch!Ids : bad[r] <=> last[r] \in Unwatchable
      BY DEF WatchInv, RunKept
    <3>4. told = {last[r] : r \in Watch!Ids} /\ told \subseteq Ended \cup Unwatchable
      BY <3>2
    <3>5. (\E r \in Watch!Ids : bad[r]) <=> told \cap Unwatchable # {}
      BY <3>3, <3>4
    <3>6. told \cap {"-", "ongoing"} = {}
      BY <3>4 DEF Ended, Unwatchable, Watch!Terminal
    <3>7. ~(\E r \in Watch!Ids : bad[r])
            => {last[r] : r \in {q \in Watch!Ids : ~bad[q]}} = told
      BY <3>4
    <3> HIDE DEF told
    <3>8. code = IF \E r \in Watch!Ids : bad[r] THEN "unwatchable"
                 ELSE IF "crashed" \in told THEN "crashed"
                      ELSE IF "cancelled" \in told THEN "cancelled" ELSE "ok"
      BY <3>1, <3>7 DEF Watch!ExitCode
    <3>9. QED
      BY <3>4, <3>5, <3>6, <3>8 DEF told, Ended, Unwatchable, Watch!Terminal
  <2>3. QED
    BY <2>1, <2>2 DEF Watch!LinesTellTheExit
<1>4. QED
  BY <1>1, <1>2, <1>3, WatchAssumption, PTL DEF Watch!Spec

(***************************************************************************)
(* The bash tool.  A pid is larger than those of the process's parent and  *)
(* of the leader of its group, so the processes of a sample hang together  *)
(* under its roots; a process that carried the run's mark when a scan      *)
(* began is still to be read, found, or carries it no longer.  An answer   *)
(* is a text whose end the cut leaves alone.                               *)
(***************************************************************************)
\* Min and Max are what they are named for.
LEMMA MinIsLeast ==
  ASSUME NEW S \in SUBSET Nat, S # {}
  PROVE  Bash!Min(S) \in S /\ \A k \in S : Bash!Min(S) <= k
BY LeastNumber DEF Bash!Min

\* The same of Max, in a bounded set.
LEMMA MaxIsGreatest ==
  ASSUME NEW n \in Nat, NEW S \in SUBSET (0..n), S # {}
  PROVE  Bash!Max(S) \in S /\ \A k \in S : k <= Bash!Max(S)
<1>1. \E m \in S : \A k \in S : m >= k
  BY GreatestNumber
<1>2. Bash!Max(S) \in S /\ \A k \in S : Bash!Max(S) >= k
  BY <1>1 DEF Bash!Max
<1>3. QED
  BY <1>2

\* One text behind another.
LEMMA Joined ==
  ASSUME NEW a \in Seq(Int), NEW b \in Seq(Int)
  PROVE  /\ a \o b \in Seq(Int) /\ Len(a \o b) = Len(a) + Len(b)
         /\ Len(a) \in Nat /\ Len(b) \in Nat
         /\ \A i \in 1..(Len(a) + Len(b)) :
              (a \o b)[i] = IF i <= Len(a) THEN a[i] ELSE b[i - Len(a)]
OBVIOUS

\* Two texts end in the same three bytes, a status line's length.
SameEnd(s, t) ==
  /\ Len(t) >= 3
  /\ \A i \in 0..2 : t[Len(t) - i] = s[Len(s) - i]

\* The head that a cut keeps is no longer than it may be.
LEMMA HeadKept ==
  ASSUME NEW s \in Seq(Int), NEW n \in Nat
  PROVE  Bash!truncRunesEnd(s, n) \in Seq(Int) /\ Len(Bash!truncRunesEnd(s, n)) <= n
<1> DEFINE S == {k \in 0..n : k = 0 \/ Bash!RuneStart(s[k + 1])}
<1>1. CASE n >= Len(s)
  BY <1>1 DEF Bash!truncRunesEnd
<1>2. CASE ~(n >= Len(s))
  <2>1. 0 \in S /\ S \in SUBSET (0..n)
    OBVIOUS
  <2>2. Bash!Max(S) \in S
    <3> HIDE DEF S
    <3> QED
      BY <2>1, MaxIsGreatest
  <2>3. Bash!Max(S) \in 0..n
    BY <2>2
  <2>4. Bash!truncRunesEnd(s, n) = SubSeq(s, 1, Bash!Max(S))
    BY <1>2 DEF Bash!truncRunesEnd
  <2> HIDE DEF S
  <2>5. PICK m \in 0..n : Bash!truncRunesEnd(s, n) = SubSeq(s, 1, m)
    BY <2>3, <2>4
  <2>6. \A i \in 1..m : s[i] \in Int
    BY <1>2, ElementOfSeq
  <2>7. SubSeq(s, 1, m) \in Seq(Int) /\ Len(SubSeq(s, 1, m)) = IF 1 <= m THEN m - 1 + 1 ELSE 0
    BY <2>6, SubSeqProperties
  <2>8. QED
    BY <2>5, <2>7
<1>3. QED
  BY <1>1, <1>2

\* Nor is the tail; and it is whole where the status line begins a character.
LEMMA TailKept ==
  ASSUME NEW s \in Seq(Int), NEW n \in Nat
  PROVE  /\ Bash!truncRunesStart(s, n) \in Seq(Int)
         /\ Len(Bash!truncRunesStart(s, n)) <= n
         /\ n >= 3 /\ Len(s) >= 3 /\ s[Len(s) - 2] = 70 => SameEnd(s, Bash!truncRunesStart(s, n))
<1> DEFINE S == {k \in (Len(s) - n + 1)..(Len(s) + 1) : k > Len(s) \/ Bash!RuneStart(s[k])}
<1>0. Len(s) \in Nat
  OBVIOUS
<1>1. CASE n >= Len(s)
  BY <1>1 DEF Bash!truncRunesStart, SameEnd
<1>2. CASE ~(n >= Len(s))
  <2>1. Len(s) + 1 \in S /\ S \in SUBSET Nat
    BY <1>0, <1>2
  <2>2. Bash!Min(S) \in S /\ \A k \in S : Bash!Min(S) <= k
    <3> HIDE DEF S
    <3> QED
      BY <2>1, MinIsLeast
  <2>3. Bash!Min(S) \in (Len(s) - n + 1)..(Len(s) + 1)
    BY <2>2
  <2>4. n >= 3 /\ Len(s) >= 3 /\ s[Len(s) - 2] = 70 => Bash!Min(S) <= Len(s) - 2
    <3> SUFFICES ASSUME n >= 3, Len(s) >= 3, s[Len(s) - 2] = 70 PROVE Bash!Min(S) <= Len(s) - 2
      OBVIOUS
    <3>1. Len(s) - 2 \in S
      BY <1>0 DEF Bash!RuneStart
    <3>2. QED
      BY <2>2, <3>1
  <2>5. Bash!truncRunesStart(s, n) = SubSeq(s, Bash!Min(S), Len(s))
    BY <1>2 DEF Bash!truncRunesStart
  <2> HIDE DEF S
  <2>6. PICK m \in (Len(s) - n + 1)..(Len(s) + 1) :
          /\ Bash!truncRunesStart(s, n) = SubSeq(s, m, Len(s))
          /\ n >= 3 /\ Len(s) >= 3 /\ s[Len(s) - 2] = 70 => m <= Len(s) - 2
    BY <2>3, <2>4, <2>5
  <2>7. m \in Int /\ Len(s) \in Int /\ m >= 1 /\ \A i \in m..Len(s) : s[i] \in Int
    BY <1>0, <1>2, ElementOfSeq
  <2> DEFINE t == SubSeq(s, m, Len(s))
  <2>8. /\ t \in Seq(Int)
        /\ Len(t) = IF m <= Len(s) THEN Len(s) - m + 1 ELSE 0
        /\ \A i \in 1..(Len(s) - m + 1) : t[i] = s[m + i - 1]
    BY <2>7, SubSeqProperties
  <2> HIDE DEF t
  <2>9. Len(t) <= n
    BY <1>0, <2>7, <2>8
  <2>10. ASSUME m <= Len(s) - 2 PROVE SameEnd(s, t)
    <3>1. Len(t) = Len(s) - m + 1 /\ Len(t) >= 3
      BY <1>0, <2>7, <2>8, <2>10
    <3>2. ASSUME NEW i \in 0..2 PROVE t[Len(t) - i] = s[Len(s) - i]
      <4>1. Len(t) - i \in 1..(Len(s) - m + 1) /\ m + (Len(t) - i) - 1 = Len(s) - i
        BY <1>0, <2>7, <3>1
      <4>2. QED
        BY <2>8, <4>1
    <3>3. QED
      BY <3>1, <3>2 DEF SameEnd
  <2>11. QED
    BY <2>6, <2>8, <2>9, <2>10 DEF t
<1>3. QED
  BY <1>1, <1>2

\* What goes before a text does not change its end.
LEMMA EndOfJoined ==
  ASSUME NEW a \in Seq(Int), NEW b \in Seq(Int), NEW s, SameEnd(s, b)
  PROVE  SameEnd(s, a \o b)
<1>1. Len(b) >= 3 /\ \A i \in 0..2 : b[Len(b) - i] = s[Len(s) - i]
  BY DEF SameEnd
<1>2. PICK t \in Seq(Int) : t = a \o b
  BY Joined
<1>3. /\ Len(t) = Len(a) + Len(b) /\ Len(a) \in Nat /\ Len(b) \in Nat
      /\ \A i \in 1..(Len(a) + Len(b)) : t[i] = IF i <= Len(a) THEN a[i] ELSE b[i - Len(a)]
  BY <1>2, Joined
<1>4. ASSUME NEW i \in 0..2 PROVE t[Len(t) - i] = b[Len(b) - i]
  <2>1. PICK x \in Nat, y \in Nat : x = Len(a) /\ y = Len(b) /\ y >= 3 /\ Len(t) = x + y
    BY <1>1, <1>3
  <2>2. (x + y) - i \in 1..(x + y) /\ ~((x + y) - i <= x) /\ ((x + y) - i) - x = y - i
    BY <2>1
  <2>3. t[(x + y) - i] = b[((x + y) - i) - x]
    BY <1>3, <2>1, <2>2
  <2>4. QED
    BY <2>1, <2>2, <2>3
<1>5. \A i \in 0..2 : t[Len(t) - i] = s[Len(s) - i]
  BY <1>1, <1>4
<1>6. Len(t) >= 3
  <2>1. PICK x \in Nat, y \in Nat : x = Len(a) /\ y = Len(b) /\ y >= 3 /\ Len(t) = x + y
    BY <1>1, <1>3
  <2>2. QED
    BY <2>1
<1>7. QED
  BY <1>2, <1>5, <1>6 DEF SameEnd

\* A text that ends like another of three bytes ends in it.
LEMMA EndOfText ==
  ASSUME NEW u \in Seq(Int), Len(u) = 3, NEW t \in Seq(Int), SameEnd(u, t)
  PROVE  SubSeq(t, Len(t) - 3 + 1, Len(t)) = u
<1>1. Len(t) >= 3 /\ Len(t) \in Nat /\ \A i \in 0..2 : t[Len(t) - i] = u[Len(u) - i]
  BY DEF SameEnd
<1>2. PICK m \in Nat : m = Len(t) - 3 + 1 /\ m = Len(t) - 2
  BY <1>1
<1>3. m \in Int /\ Len(t) \in Int /\ \A i \in m..Len(t) : t[i] \in Int
  BY <1>1, <1>2, ElementOfSeq
<1>4. /\ SubSeq(t, m, Len(t)) \in Seq(Int)
      /\ Len(SubSeq(t, m, Len(t))) = IF m <= Len(t) THEN Len(t) - m + 1 ELSE 0
      /\ \A i \in 1..(Len(t) - m + 1) : SubSeq(t, m, Len(t))[i] = t[m + i - 1]
  BY <1>3, SubSeqProperties
<1>5. PICK v \in Seq(Int) : v = SubSeq(t, m, Len(t))
  BY <1>4
<1>6. Len(v) = 3 /\ \A i \in 1..3 : v[i] = t[m + i - 1]
  BY <1>1, <1>2, <1>4, <1>5
<1>7. ASSUME NEW i \in 1..3 PROVE v[i] = u[i]
  <2>1. m + i - 1 = Len(t) - (3 - i) /\ 3 - i \in 0..2 /\ 3 - (3 - i) = i
    BY <1>1, <1>2
  <2>2. t[Len(t) - (3 - i)] = u[3 - (3 - i)]
    BY <1>1, <2>1
  <2>3. QED
    BY <1>6, <2>1, <2>2
<1>8. v = u
  BY <1>6, <1>7, SeqEqual
<1>9. QED
  BY <1>2, <1>5, <1>8

\* truncateText: within the limit, and with the end of the text.
LEMMA TextCut ==
  ASSUME NEW s \in Seq(Int), NEW max \in Nat, Len(s) >= 3, s[Len(s) - 2] = 70
  PROVE  /\ Bash!truncateText(s, max) \in Seq(Int)
         /\ Len(Bash!truncateText(s, max)) <= max
         /\ max >= 9 => SameEnd(s, Bash!truncateText(s, max))
<1>0. PICK mark \in Seq(Int) : mark = Bash!Mark /\ Len(mark) = 2
  <2>1. <<90, 91>> \in Seq(Int) /\ Len(<<90, 91>>) = 2
    OBVIOUS
  <2>2. QED
    BY <2>1 DEF Bash!Mark
<1>1. CASE Len(s) <= max
  <2>1. Bash!truncateText(s, max) = s
    BY <1>1 DEF Bash!truncateText
  <2>2. QED
    BY <1>1, <2>1 DEF SameEnd
<1>2. CASE ~(Len(s) <= max) /\ 2 >= max
  <2>1. Bash!truncateText(s, max) = Bash!truncRunesEnd(mark, max)
    BY <1>0, <1>2 DEF Bash!truncateText
  <2>2. QED
    BY <1>2, <2>1, HeadKept
<1>3. CASE ~(Len(s) <= max) /\ ~(2 >= max)
  <2>1. PICK half \in Nat :
          /\ half = (max - 2) \div 2
          /\ 2 * half + 2 <= max /\ (max >= 9 => half >= 3)
    BY <1>3
  <2>2. Bash!truncateText(s, max) =
          (Bash!truncRunesEnd(s, half) \o mark) \o Bash!truncRunesStart(s, half)
    BY <1>0, <1>3, <2>1 DEF Bash!truncateText
  <2>3. PICK a \in Seq(Int) : a = Bash!truncRunesEnd(s, half) /\ Len(a) <= half
    BY HeadKept
  <2>4. PICK b \in Seq(Int) :
          /\ b = Bash!truncRunesStart(s, half) /\ Len(b) <= half
          /\ half >= 3 => SameEnd(s, b)
    BY TailKept
  <2>5. PICK c \in Seq(Int) : c = a \o mark /\ Len(c) = Len(a) + 2 /\ Len(a) \in Nat
    <3>1. /\ a \o mark \in Seq(Int) /\ Len(a \o mark) = Len(a) + Len(mark)
          /\ Len(a) \in Nat
      BY Joined
    <3>2. Len(a \o mark) = Len(a) + 2
      BY <1>0, <3>1
    <3>3. QED
      BY <3>1, <3>2
  <2>6. PICK t \in Seq(Int) : t = c \o b /\ Len(t) = Len(c) + Len(b) /\ Len(b) \in Nat
    BY Joined
  <2>7. Bash!truncateText(s, max) = t
    BY <2>2, <2>3, <2>4, <2>5, <2>6
  <2>8. Len(t) <= max
    BY <2>1, <2>3, <2>4, <2>5, <2>6
  <2>9. max >= 9 => SameEnd(s, t)
    BY <2>1, <2>4, <2>6, EndOfJoined
  <2>10. QED
    BY <2>7, <2>8, <2>9
<1>4. QED
  BY <1>1, <1>2, <1>3

\* formatOutput: within the limit, and with the status if there is room.
LEMMA Formatted ==
  ASSUME NEW o \in Seq(Int), NEW e \in Seq(Int), NEW n \in Int, NEW max \in Nat
  PROVE  /\ Bash!formatOutput(o, e, n, max) \in Seq(Int)
         /\ Len(Bash!formatOutput(o, e, n, max)) <= max
         /\ max >= 9 => SubSeq(Bash!formatOutput(o, e, n, max),
                               Len(Bash!formatOutput(o, e, n, max)) - 3 + 1,
                               Len(Bash!formatOutput(o, e, n, max))) = Bash!Status(n)
<1> DEFINE Part(head, s) == IF s = <<>> THEN <<>> ELSE <<head>> \o s \o <<10>>
<1>1. ASSUME NEW head \in Int, NEW x \in Seq(Int) PROVE Part(head, x) \in Seq(Int)
  <2>1. <<head>> \in Seq(Int) /\ <<10>> \in Seq(Int)
    OBVIOUS
  <2>2. (<<head>> \o x) \o <<10>> \in Seq(Int)
    BY <2>1, Joined
  <2>3. QED
    BY <2>2
<1>2. Bash!formatOutput(o, e, n, max) =
        Bash!truncateText((Part(60, o) \o Part(61, e)) \o Bash!Status(n), max)
  BY DEF Bash!formatOutput
<1>3. Part(60, o) \in Seq(Int) /\ Part(61, e) \in Seq(Int)
  BY <1>1
<1> HIDE DEF Part
<1>4. PICK front \in Seq(Int) : front = Part(60, o) \o Part(61, e)
  BY <1>3, Joined
<1>5. PICK status \in Seq(Int) :
        /\ status = Bash!Status(n) /\ Len(status) = 3
        /\ status[1] = 70 /\ status[2] = 71 /\ status[3] = n
  <2>1. /\ <<70, 71, n>> \in Seq(Int) /\ Len(<<70, 71, n>>) = 3
        /\ <<70, 71, n>>[1] = 70 /\ <<70, 71, n>>[2] = 71 /\ <<70, 71, n>>[3] = n
    OBVIOUS
  <2>2. QED
    BY <2>1 DEF Bash!Status
<1>6. PICK s \in Seq(Int) : s = front \o status
  BY Joined
<1>7. SameEnd(status, s)
  <2>1. SameEnd(status, status)
    BY <1>5 DEF SameEnd
  <2>2. QED
    BY <1>6, <2>1, EndOfJoined
<1>8. Len(s) >= 3 /\ s[Len(s) - 2] = 70
  <2>1. Len(s) >= 3 /\ \A i \in 0..2 : s[Len(s) - i] = status[3 - i]
    BY <1>5, <1>7 DEF SameEnd
  <2>2. s[Len(s) - 2] = status[3 - 2] /\ 3 - 2 = 1
    BY <2>1
  <2>3. QED
    BY <1>5, <2>1, <2>2
<1>9. Bash!formatOutput(o, e, n, max) = Bash!truncateText(s, max)
  BY <1>2, <1>4, <1>5, <1>6
<1>10. PICK text \in Seq(Int) :
         /\ text = Bash!formatOutput(o, e, n, max) /\ Len(text) <= max
         /\ max >= 9 => SameEnd(s, text)
  BY <1>8, <1>9, TextCut
<1>11. max >= 9 => SameEnd(status, text)
  BY <1>7, <1>10 DEF SameEnd
<1>12. max >= 9 => SubSeq(text, Len(text) - 3 + 1, Len(text)) = status
  BY <1>5, <1>11, EndOfText
<1>13. QED
  BY <1>5, <1>10, <1>12

\* What is read of a stream is a text.
LEMMA Capped ==
  ASSUME NEW s \in Seq(Int), NEW more, NEW max \in Nat
  PROVE  Bash!readCapped(s, more, max) \in Seq(Int)
<1>1. PICK n \in 0..Len(s) : n = IF max < Len(s) THEN max ELSE Len(s)
  OBVIOUS
<1>2. \A i \in 1..n : s[i] \in Int
  BY ElementOfSeq
<1>3. SubSeq(s, 1, n) \in Seq(Int)
  BY <1>2, SubSeqProperties
<1>4. PICK note \in Seq(Int) :
        note = IF Len(s) + more > max /\ (max < Len(s) \/ more > 0) THEN Bash!Note ELSE <<>>
  <2>1. <<80>> \in Seq(Int) /\ <<>> \in Seq(Int)
    OBVIOUS
  <2>2. QED
    BY <2>1 DEF Bash!Note
<1>5. Bash!readCapped(s, more, max) = SubSeq(s, 1, n) \o note
  BY <1>1, <1>4 DEF Bash!readCapped
<1>6. QED
  BY <1>3, <1>5, Joined

\* What the variables hold.
Fates == {"unborn", "live", "zombie", "gone"}
Stages == {"idle", "running", "reaped", "waited", "returned"}
MarksKnown == {""} \cup {CallerRun[c] : c \in Commands}
ProcRow == [at : Fates, ppid : Nat, group : Pids, run : MarksKnown, call : Commands]
CallRow == [pc : Stages, shell : Pids \cup {1}, due : BOOLEAN, killed : BOOLEAN,
            code : Int, status : Int, text : Seq(Int), max : Nat]
SampleRow == [roots : SUBSET Pids, taken : Nat]
ViewerRow == [pc : {"idle", "answered", "scanning", "scanned"}, asks : Nat,
              todo : SUBSET Pids, found : SUBSET [pid : Pids, ppid : Nat],
              before : SUBSET Pids, answer : SampleRow]
Cached == {<<>>} \cup {<<sample>> : sample \in SampleRow}

BashTypes ==
  /\ procs \in [Pids -> ProcRow] /\ toolCalls \in [Commands -> CallRow]
  /\ viewers \in [Viewers -> ViewerRow]
  /\ toolCache \in [{ViewOf[v] : v \in Viewers} -> Cached]
  /\ clock \in Nat /\ slain \in SUBSET Pids

\* A process has been forked.
Begun(p) == procs[p].at # "unborn"

\* Pids ascend: a parent is older than its children, and a group than its members.
Ascending ==
  /\ \A p, q \in Pids : Begun(p) /\ ~Begun(q) => p < q
  /\ \A p \in Pids : Begun(p) => procs[p].ppid < p /\ Begun(procs[p].group)

\* A shell leads its group, which holds processes of its call alone.
ShellsLead ==
  \A c \in Commands :
    /\ toolCalls[c].pc \in {"running", "reaped"} => toolCalls[c].shell \in Pids
    /\ toolCalls[c].shell \in Pids =>
         LET shell == toolCalls[c].shell IN
         /\ Begun(shell) /\ procs[shell].group = shell /\ procs[shell].call = c
         /\ \A p \in Pids : Begun(p) /\ procs[p].group = shell => procs[p].call = c

\* What was killed stays so, and whose deadline it was is known.
KillsFit ==
  /\ \A c \in Commands :
       /\ toolCalls[c].pc = "idle" => ~toolCalls[c].killed
       /\ toolCalls[c].killed =>
            /\ toolCalls[c].shell \in Pids
            /\ \A p \in Pids : procs[p].at = "live" => procs[p].group # toolCalls[c].shell
  /\ \A p \in slain :
       LET call == toolCalls[procs[p].call] IN
       Begun(p) /\ call.due /\ (call.pc = "returned" => call.status = 1)

\* A process runs and has the mark of a run.
Carries(p, whose) == procs[p].at = "live" /\ procs[p].run = whose

\* Whoever carried the mark before the scan is still to be read, was found, or
\* carries it no more.
ScanFits ==
  \A v \in Viewers :
    LET view == viewers[v] IN
    /\ \A e \in view.found : e.ppid < e.pid
    /\ \A p \in view.before : Begun(p)
    /\ view.pc = "scanning" =>
         \A p \in view.before :
           p \in view.todo \/ (\E e \in view.found : e.pid = p) \/ ~Carries(p, ViewOf[v])
    /\ view.pc = "scanned" =>
         \A p \in view.before : p \in view.answer.roots \/ ~Carries(p, ViewOf[v])

\* The answer of a call is formatted.
AnswersFit ==
  \A c \in Commands : toolCalls[c].pc = "returned" =>
    LET text == toolCalls[c].text IN
    /\ Len(text) <= toolCalls[c].max
    /\ toolCalls[c].max >= 9 =>
         SubSeq(text, Len(text) - 3 + 1, Len(text)) = Bash!Status(toolCalls[c].status)

\* All of it.
BashInv ==
  /\ Bash!BashAssumption
  /\ BashTypes /\ Ascending /\ ShellsLead /\ KillsFit /\ ScanFits /\ AnswersFit

\* The next pid is larger than any in use.
LEMMA FirstUnborn ==
  ASSUME BashInv, Bash!Unborn # {}
  PROVE  /\ Bash!Min(Bash!Unborn) \in Pids /\ ~Begun(Bash!Min(Bash!Unborn))
         /\ \A p \in Pids : ~Begun(p) => Bash!Min(Bash!Unborn) <= p
         /\ \A p \in Pids : Begun(p) => p < Bash!Min(Bash!Unborn)
<1>1. Pids \subseteq Nat
  BY DEF BashInv, Bash!BashAssumption
<1>2. Bash!Unborn \in SUBSET Nat /\ \A p \in Pids : p \in Bash!Unborn <=> ~Begun(p)
  BY <1>1 DEF Bash!Unborn, Begun
<1>3. Bash!Min(Bash!Unborn) \in Bash!Unborn /\ \A p \in Bash!Unborn : Bash!Min(Bash!Unborn) <= p
  BY <1>2, MinIsLeast
<1>4. Bash!Min(Bash!Unborn) \in Pids
  BY <1>3 DEF Bash!Unborn
<1>5. QED
  BY <1>2, <1>3, <1>4 DEF BashInv, Ascending

\* When processes end, nobody's group, mark or call changes, no pid comes into
\* use, and who lost its parent has init for one.
LEMMA WithoutFits ==
  ASSUME BashInv, NEW set \in SUBSET Bash!Live
  PROVE  /\ Bash!Without(set) \in [Pids -> ProcRow]
         /\ \A p \in Pids :
              LET after == Bash!Without(set)[p] IN
              /\ after.group = procs[p].group /\ after.run = procs[p].run
              /\ after.call = procs[p].call
              /\ after.ppid \in {1, procs[p].ppid}
              /\ (after.at = "unborn") = (procs[p].at = "unborn")
              /\ after.at = "live" => procs[p].at = "live" /\ p \notin set
<1>1. procs \in [Pids -> ProcRow]
  BY DEF BashInv, BashTypes
<1>2. \A p \in set : p \in Pids /\ procs[p].at = "live"
  BY DEF Bash!Live
<1>3. ASSUME NEW p \in Pids
      PROVE  /\ Bash!Without(set)[p] \in ProcRow
             /\ LET after == Bash!Without(set)[p] IN
                /\ after.group = procs[p].group /\ after.run = procs[p].run
                /\ after.call = procs[p].call
                /\ after.ppid \in {1, procs[p].ppid}
                /\ (after.at = "unborn") = (procs[p].at = "unborn")
                /\ after.at = "live" => procs[p].at = "live" /\ p \notin set
  <2>0. procs[p] \in ProcRow
    BY <1>1
  <2>1. CASE p \in set
    <3>1. PICK at \in {"zombie", "gone"} : Bash!Without(set)[p] = [procs[p] EXCEPT !.at = at]
      BY <2>1 DEF Bash!Without
    <3>2. QED
      BY <1>2, <2>0, <2>1, <3>1 DEF ProcRow, Fates
  <2>2. CASE p \notin set /\ procs[p].ppid \in set
    <3>1. Bash!Without(set)[p] = [procs[p] EXCEPT !.ppid = 1]
      BY <2>2 DEF Bash!Without, Bash!init
    <3>2. QED
      BY <2>0, <2>2, <3>1 DEF ProcRow
  <2>3. CASE p \notin set /\ procs[p].ppid \notin set
    <3>1. Bash!Without(set)[p] = procs[p]
      BY <2>3 DEF Bash!Without
    <3>2. QED
      BY <2>0, <2>3, <3>1
  <2>4. QED
    BY <2>1, <2>2, <2>3
<1>4. Bash!Without(set) = [p \in Pids |-> Bash!Without(set)[p]]
  BY DEF Bash!Without
<1>5. QED
  BY <1>3, <1>4

\* No mark comes back and no pid is used twice.
Fades ==
  \A p \in Pids : Begun(p) =>
    /\ Begun(p)'
    /\ \A v \in Viewers : Carries(p, ViewOf[v])' => Carries(p, ViewOf[v])

\* What a scan has found stays found while the processes go on.
LEMMA ScanStands ==
  ASSUME BashInv, Fades, viewers' = viewers
  PROVE  ScanFits'
<1> SUFFICES ASSUME NEW v \in Viewers
             PROVE  LET view == viewers[v] IN
                    /\ \A e \in view.found : e.ppid < e.pid
                    /\ \A p \in view.before : Begun(p)'
                    /\ view.pc = "scanning" =>
                         \A p \in view.before :
                           \/ p \in view.todo \/ (\E e \in view.found : e.pid = p)
                           \/ ~Carries(p, ViewOf[v])'
                    /\ view.pc = "scanned" =>
                         \A p \in view.before :
                           p \in view.answer.roots \/ ~Carries(p, ViewOf[v])'
  BY DEF ScanFits
<1>1. viewers[v].before \subseteq Pids
  BY DEF BashInv, BashTypes, ViewerRow
<1>2. QED
  BY <1>1 DEF BashInv, ScanFits, Fades

\* A process is born: pids still ascend.
LEMMA Birth ==
  ASSUME BashInv, Bash!Unborn # {}, NEW row \in ProcRow,
         row.at = "live", row.ppid < Bash!Min(Bash!Unborn),
         row.group = Bash!Min(Bash!Unborn) \/ Begun(row.group),
         procs' = [procs EXCEPT ![Bash!Min(Bash!Unborn)] = row]
  PROVE  /\ procs' \in [Pids -> ProcRow] /\ Ascending' /\ Fades
         /\ procs'[Bash!Min(Bash!Unborn)] = row
         /\ \A p \in Pids : p # Bash!Min(Bash!Unborn) => procs'[p] = procs[p]
<1>1. PICK m \in Pids :
        /\ m = Bash!Min(Bash!Unborn) /\ ~Begun(m)
        /\ \A p \in Pids : ~Begun(p) => m <= p
        /\ \A p \in Pids : Begun(p) => p < m
  BY FirstUnborn
<1>2. procs \in [Pids -> ProcRow] /\ Pids \subseteq Nat
  BY DEF BashInv, BashTypes, Bash!BashAssumption
<1>3. /\ procs' \in [Pids -> ProcRow] /\ procs'[m] = row
      /\ \A p \in Pids : p # m => procs'[p] = procs[p]
  BY <1>1, <1>2
<1>4. \A p \in Pids : Begun(p)' <=> Begun(p) \/ p = m
  BY <1>3 DEF Begun
<1>5. Ascending'
  <2>1. ASSUME NEW p \in Pids, NEW q \in Pids, Begun(p)', ~Begun(q)' PROVE p < q
    BY <1>1, <1>2, <1>4, <2>1
  <2>2. ASSUME NEW p \in Pids, Begun(p)'
        PROVE  procs'[p].ppid < p /\ procs'[procs'[p].group].at # "unborn"
    <3>1. CASE p = m
      <4>1. row.group \in Pids
        BY DEF ProcRow
      <4>2. QED
        BY <1>1, <1>3, <1>4, <3>1, <4>1 DEF Begun
    <3>2. CASE p # m
      <4>1. Begun(p) /\ procs'[p] = procs[p]
        BY <1>3, <1>4, <2>2, <3>2
      <4>2. procs[p].ppid < p /\ Begun(procs[p].group) /\ procs[p].group \in Pids
        BY <1>2, <4>1 DEF BashInv, Ascending, ProcRow
      <4>3. QED
        BY <1>4, <4>1, <4>2 DEF Begun
    <3>3. QED
      BY <3>1, <3>2
  <2>3. QED
    BY <2>1, <2>2 DEF Ascending, Begun
<1>6. Fades
  BY <1>1, <1>3, <1>4 DEF Fades, Carries
<1>7. QED
  BY <1>1, <1>3, <1>5, <1>6

\* Init and the server are there before any process is started.
LEMMA PidsAbove == BashInv => \A p \in Pids : p \in Nat /\ 1 < p
<1> SUFFICES ASSUME BashInv, NEW p \in Pids PROVE p \in Nat /\ 1 < p
  OBVIOUS
<1>1. p \in Nat /\ p > 2
  BY DEF BashInv, Bash!BashAssumption, Bash!server
<1>2. QED
  BY <1>1

\* Processes end, or drop their marks.
LEMMA Decline ==
  ASSUME BashInv, procs' \in [Pids -> ProcRow],
         \A p \in Pids :
           /\ Begun(p)' <=> Begun(p)
           /\ procs'[p].ppid \in {1, procs[p].ppid} /\ procs'[p].run \in {"", procs[p].run}
           /\ procs'[p].group = procs[p].group /\ procs'[p].call = procs[p].call
           /\ procs'[p].at = "live" => procs[p].at = "live"
  PROVE  Ascending' /\ Fades
<1>0. \A p \in Pids : 1 < p
  BY PidsAbove
<1>1. /\ procs \in [Pids -> ProcRow]
      /\ \A v \in Viewers : ViewOf[v] # ""
  BY DEF BashInv, BashTypes, Bash!BashAssumption, Bash!server
<1>2. Ascending'
  <2>1. ASSUME NEW p \in Pids, NEW q \in Pids, Begun(p)', ~Begun(q)' PROVE p < q
    BY <2>1 DEF BashInv, Ascending
  <2>2. ASSUME NEW p \in Pids, Begun(p)'
        PROVE  procs'[p].ppid < p /\ procs'[procs'[p].group].at # "unborn"
    <3>1. procs[p].ppid < p /\ Begun(procs[p].group) /\ procs[p].group \in Pids
      BY <1>1, <2>2 DEF BashInv, Ascending, ProcRow
    <3>2. 1 < p
      BY <1>0, Zenon
    <3>3. procs'[p].ppid = 1 \/ procs'[p].ppid = procs[p].ppid
      OBVIOUS
    <3>4. QED
      BY <3>1, <3>2, <3>3 DEF Begun
  <2>3. QED
    BY <2>1, <2>2 DEF Ascending, Begun
<1>3. Fades
  BY <1>1 DEF Fades, Carries
<1>4. QED
  BY <1>2, <1>3

\* A process forks or leaves its group, drops its mark or ends.
LEMMA ProcessStep ==
  ASSUME BashInv, NEW p \in Pids,
         Bash!Fork(p) \/ Bash!Leave(p) \/ Bash!Forget(p) \/ Bash!Exit(p)
  PROVE  BashInv'
<1>1. /\ procs \in [Pids -> ProcRow] /\ Pids \subseteq Nat
      /\ toolCalls \in [Commands -> CallRow]
  BY DEF BashInv, BashTypes, Bash!BashAssumption
<1>2. /\ UNCHANGED <<toolCalls, viewers, toolCache, clock, slain>>
      /\ procs[p].at = "live" /\ Begun(p)
  BY DEF Bash!Fork, Bash!Leave, Bash!Forget, Bash!Exit, Bash!Live, Begun
<1>3. SUFFICES procs' \in [Pids -> ProcRow] /\ Ascending' /\ Fades /\ ShellsLead' /\ KillsFit'
  <2>1. ScanFits'
    BY <1>2, <1>3, ScanStands
  <2>2. AnswersFit' /\ BashTypes' /\ Bash!BashAssumption'
    BY <1>2, <1>3 DEF BashInv, BashTypes, AnswersFit, Bash!BashAssumption
  <2>3. QED
    BY <1>3, <2>1, <2>2 DEF BashInv
<1>4. CASE Bash!Fork(p)
  <2>1. PICK m \in Pids :
          /\ m = Bash!Min(Bash!Unborn) /\ ~Begun(m)
          /\ \A q \in Pids : Begun(q) => q < m
    BY <1>4, FirstUnborn DEF Bash!Fork
  <2>2. PICK row \in ProcRow :
          /\ row = [procs[p] EXCEPT !.ppid = p] /\ row.at = "live" /\ row.ppid = p
          /\ row.group = procs[p].group /\ row.call = procs[p].call
    <3>1. procs[p] \in ProcRow /\ p \in Nat
      BY <1>1
    <3>2. [procs[p] EXCEPT !.ppid = p] \in ProcRow
      BY <3>1 DEF ProcRow
    <3>3. QED
      BY <1>2, <3>1, <3>2 DEF ProcRow
  <2>3. row.ppid < m /\ Begun(row.group) /\ row.group \in Pids
    BY <1>1, <1>2, <2>1, <2>2 DEF BashInv, Ascending, ProcRow
  <2>4. /\ procs' \in [Pids -> ProcRow] /\ Ascending' /\ Fades /\ procs'[m] = row
        /\ \A q \in Pids : q # m => procs'[q] = procs[q]
    BY <1>4, <2>1, <2>2, <2>3, Birth DEF Bash!Fork
  <2>5. ShellsLead'
    <3>1. ASSUME NEW c \in Commands, toolCalls[c].shell \in Pids
          PROVE  LET shell == toolCalls[c].shell IN
                 /\ Begun(shell)' /\ procs'[shell].group = shell /\ procs'[shell].call = c
                 /\ \A q \in Pids : Begun(q)' /\ procs'[q].group = shell => procs'[q].call = c
      <4>1. /\ Begun(toolCalls[c].shell) /\ procs[toolCalls[c].shell].group = toolCalls[c].shell
            /\ procs[toolCalls[c].shell].call = c
            /\ \A q \in Pids :
                 Begun(q) /\ procs[q].group = toolCalls[c].shell => procs[q].call = c
        BY <3>1 DEF BashInv, ShellsLead
      <4>2. \A q \in Pids : Begun(q)' <=> Begun(q) \/ q = m
        BY <2>1, <2>2, <2>4 DEF Begun
      <4>3. toolCalls[c].shell # m
        BY <2>1, <4>1
      <4>4. QED
        BY <1>2, <2>2, <2>4, <3>1, <4>1, <4>2, <4>3
    <3>2. QED
      BY <1>2, <3>1 DEF BashInv, ShellsLead
  <2>6. KillsFit'
    <3>1. ASSUME NEW c \in Commands, toolCalls[c].killed
          PROVE  \A q \in Pids : procs'[q].at = "live" => procs'[q].group # toolCalls[c].shell
      <4>1. \A q \in Pids : procs[q].at = "live" => procs[q].group # toolCalls[c].shell
        BY <3>1 DEF BashInv, KillsFit
      <4>2. procs[p].group # toolCalls[c].shell
        BY <1>2, <4>1
      <4>3. QED
        BY <2>2, <2>4, <4>1, <4>2
    <3>2. ASSUME NEW q \in slain PROVE q \in Pids /\ Begun(q) /\ procs'[q] = procs[q]
      BY <2>1, <2>4, <3>2 DEF BashInv, KillsFit, BashTypes
    <3>3. QED
      BY <1>2, <3>1, <3>2 DEF BashInv, KillsFit, Begun
  <2>7. QED
    BY <2>4, <2>5, <2>6
<1>5. CASE Bash!Leave(p)
  <2>1. /\ procs[p].group # p /\ procs' = [procs EXCEPT ![p].group = p]
    BY <1>5 DEF Bash!Leave
  <2>2. /\ procs' \in [Pids -> ProcRow] /\ \A q \in Pids : q # p => procs'[q] = procs[q]
        /\ procs'[p].at = procs[p].at /\ procs'[p].ppid = procs[p].ppid
        /\ procs'[p].group = p /\ procs'[p].run = procs[p].run /\ procs'[p].call = procs[p].call
    BY <1>1, <2>1 DEF ProcRow
  <2>3. \A q \in Pids : Begun(q)' <=> Begun(q)
    BY <2>2 DEF Begun
  <2>4. Ascending'
    <3>1. ASSUME NEW q \in Pids, NEW r \in Pids, Begun(q)', ~Begun(r)' PROVE q < r
      BY <2>3, <3>1 DEF BashInv, Ascending
    <3>2. ASSUME NEW q \in Pids, Begun(q)'
          PROVE  procs'[q].ppid < q /\ procs'[procs'[q].group].at # "unborn"
      <4>1. procs[q].ppid < q /\ Begun(procs[q].group) /\ procs[q].group \in Pids
        BY <1>1, <2>3, <3>2 DEF BashInv, Ascending, ProcRow
      <4>2. CASE q = p
        BY <1>2, <2>2, <2>3, <4>1, <4>2 DEF Begun
      <4>3. CASE q # p
        BY <2>2, <2>3, <4>1, <4>3 DEF Begun
      <4>4. QED
        BY <4>2, <4>3
    <3>3. QED
      BY <3>1, <3>2 DEF Ascending, Begun
  <2>5. Fades
    BY <2>2, <2>3 DEF Fades, Carries
  <2>6. ShellsLead'
    <3>1. \A c \in Commands : toolCalls[c].shell # p
      BY <2>1 DEF BashInv, ShellsLead
    <3>2. QED
      BY <1>2, <2>2, <2>3, <3>1 DEF BashInv, ShellsLead
  <2>7. KillsFit'
    <3>1. \A c \in Commands : toolCalls[c].shell # p
      BY <2>1 DEF BashInv, ShellsLead
    <3>2. \A q \in Pids : /\ procs'[q].at = procs[q].at /\ procs'[q].call = procs[q].call
                          /\ procs'[q].group \in {p, procs[q].group}
      BY <2>2
    <3>3. slain \subseteq Pids
      BY DEF BashInv, BashTypes
    <3>4. QED
      BY <1>2, <2>3, <3>1, <3>2, <3>3 DEF BashInv, KillsFit
  <2>8. QED
    BY <2>2, <2>4, <2>5, <2>6, <2>7
<1>6. CASE Bash!Forget(p) \/ Bash!Exit(p)
  <2>1. /\ procs' \in [Pids -> ProcRow]
        /\ \A q \in Pids :
             /\ Begun(q)' <=> Begun(q)
             /\ procs'[q].ppid \in {1, procs[q].ppid} /\ procs'[q].run \in {"", procs[q].run}
             /\ procs'[q].group = procs[q].group /\ procs'[q].call = procs[q].call
             /\ procs'[q].at = "live" => procs[q].at = "live"
    <3>1. CASE Bash!Forget(p)
      <4>1. procs' = [procs EXCEPT ![p].run = ""] /\ "" \in MarksKnown
        BY <3>1 DEF Bash!Forget, MarksKnown
      <4>2. procs' \in [Pids -> ProcRow] /\ procs'[p] = [procs[p] EXCEPT !.run = ""]
        <5>1. procs[p] \in ProcRow
          BY <1>1
        <5>2. [procs[p] EXCEPT !.run = ""] \in ProcRow
          BY <4>1, <5>1 DEF ProcRow
        <5>3. QED
          BY <1>1, <4>1, <5>2
      <4>3. \A q \in Pids : q # p => procs'[q] = procs[q]
        BY <1>1, <4>1
      <4>4. /\ procs'[p].at = procs[p].at /\ procs'[p].ppid = procs[p].ppid
            /\ procs'[p].group = procs[p].group /\ procs'[p].run = ""
            /\ procs'[p].call = procs[p].call
        BY <1>1, <4>2 DEF ProcRow
      <4>5. QED
        BY <4>2, <4>3, <4>4 DEF Begun
    <3>2. CASE Bash!Exit(p)
      <4>1. procs' = Bash!Without({p}) /\ {p} \in SUBSET Bash!Live
        BY <3>2 DEF Bash!Exit
      <4>2. QED
        <5>1. \A q \in Pids :
                /\ procs'[q].group = procs[q].group /\ procs'[q].run = procs[q].run
                /\ procs'[q].call = procs[q].call /\ procs'[q].ppid \in {1, procs[q].ppid}
                /\ (procs'[q].at = "unborn") = (procs[q].at = "unborn")
                /\ procs'[q].at = "live" => procs[q].at = "live"
          BY <4>1, WithoutFits
        <5>2. procs' \in [Pids -> ProcRow]
          BY <4>1, WithoutFits
        <5>3. QED
          BY <5>1, <5>2 DEF Begun
    <3>3. QED
      BY <1>6, <3>1, <3>2
  <2>2. Ascending' /\ Fades
    BY <2>1, Decline
  <2>3. ShellsLead'
    <3>1. ShellsLead
      BY DEF BashInv
    <3>2. ASSUME NEW c \in Commands, toolCalls[c].shell \in Pids
          PROVE  LET shell == toolCalls[c].shell IN
                 /\ Begun(shell) /\ procs'[shell].group = shell /\ procs'[shell].call = c
                 /\ \A q \in Pids : Begun(q) /\ procs'[q].group = shell => procs'[q].call = c
      <4>1. PICK shell \in Pids : shell = toolCalls[c].shell
        BY <3>2
      <4>2. /\ Begun(shell) /\ procs[shell].group = shell /\ procs[shell].call = c
            /\ \A q \in Pids : Begun(q) /\ procs[q].group = shell => procs[q].call = c
        BY <3>1, <3>2, <4>1 DEF ShellsLead
      <4>3. QED
        BY <2>1, <4>1, <4>2
    <3>3. \A q \in Pids : Begun(q) <=> procs'[q].at # "unborn"
      BY <2>1 DEF Begun
    <3>4. QED
      BY <1>2, <3>1, <3>2, <3>3 DEF ShellsLead, Begun
  <2>4. KillsFit'
    <3>1. slain \subseteq Pids
      BY DEF BashInv, BashTypes
    <3>2. QED
      BY <1>2, <2>1, <3>1 DEF BashInv, KillsFit
  <2>5. QED
    BY <2>1, <2>2, <2>3, <2>4
<1>7. QED
  BY <1>4, <1>5, <1>6

\* A call moves on: nobody else's does.
LEMMA CallMoves ==
  ASSUME NEW c \in Commands, NEW row \in CallRow, BashInv,
         toolCalls' = [toolCalls EXCEPT ![c] = row]
  PROVE  /\ toolCalls' \in [Commands -> CallRow] /\ toolCalls'[c] = row
         /\ \A d \in Commands : d # c => toolCalls'[d] = toolCalls[d]
BY DEF BashInv, BashTypes

\* A step of a call that touches no process: its answer fits, and it stays
\* with its shell, or has none.
LEMMA CallAlone ==
  ASSUME BashInv, NEW c \in Commands, NEW row \in CallRow,
         toolCalls' = [toolCalls EXCEPT ![c] = row],
         UNCHANGED <<procs, viewers, toolCache, clock, slain>>,
         row.shell = toolCalls[c].shell, row.killed = toolCalls[c].killed,
         row.pc # "idle", row.pc \in {"running", "reaped"} => row.pc = toolCalls[c].pc,
         toolCalls[c].due => row.due,
         row.pc = "returned" =>
           /\ row.due => row.status = 1
           /\ Len(row.text) <= row.max
           /\ row.max >= 9 =>
                SubSeq(row.text, Len(row.text) - 3 + 1, Len(row.text)) = Bash!Status(row.status)
  PROVE  BashInv'
<1>1. /\ toolCalls' \in [Commands -> CallRow] /\ toolCalls'[c] = row
      /\ \A d \in Commands : d # c => toolCalls'[d] = toolCalls[d]
  BY CallMoves
<1>2. procs \in [Pids -> ProcRow] /\ slain \subseteq Pids
  BY DEF BashInv, BashTypes
<1>3. BashTypes' /\ Bash!BashAssumption' /\ Ascending' /\ Fades
  BY <1>1 DEF BashInv, BashTypes, Bash!BashAssumption, Ascending, Begun, Fades, Carries
<1>4. ShellsLead'
  <2>1. \A d \in Commands :
          /\ toolCalls'[d].shell = toolCalls[d].shell
          /\ toolCalls'[d].pc \in {"running", "reaped"} =>
               toolCalls[d].pc \in {"running", "reaped"}
    BY <1>1
  <2>2. QED
    BY <2>1 DEF BashInv, ShellsLead, Begun
<1>5. KillsFit'
  <2>1. ASSUME NEW d \in Commands
        PROVE  /\ toolCalls'[d].pc = "idle" => ~toolCalls'[d].killed
               /\ toolCalls'[d].killed =>
                    /\ toolCalls'[d].shell \in Pids
                    /\ \A p \in Pids : procs'[p].at = "live" =>
                         procs'[p].group # toolCalls'[d].shell
    BY <1>1 DEF BashInv, KillsFit
  <2>2. ASSUME NEW p \in slain
        PROVE  LET call == toolCalls'[procs[p].call] IN
               Begun(p) /\ call.due /\ (call.pc = "returned" => call.status = 1)
    <3>1. /\ Begun(p) /\ toolCalls[procs[p].call].due /\ procs[p].call \in Commands
          /\ toolCalls[procs[p].call].pc = "returned" => toolCalls[procs[p].call].status = 1
      BY <1>2, <2>2 DEF BashInv, KillsFit, ProcRow
    <3>2. CASE procs[p].call = c
      BY <1>1, <3>1, <3>2
    <3>3. CASE procs[p].call # c
      BY <1>1, <3>1, <3>3
    <3>4. QED
      BY <3>2, <3>3
  <2>3. QED
    BY <2>1, <2>2 DEF KillsFit, Begun
<1>6. AnswersFit'
  BY <1>1 DEF BashInv, AnswersFit
<1>7. ScanFits'
  BY <1>3, ScanStands
<1>8. QED
  BY <1>3, <1>4, <1>5, <1>6, <1>7 DEF BashInv

\* A shell is started, in a group of its own.
LEMMA StartStep ==
  ASSUME BashInv, NEW c \in Commands, NEW max \in MaxOutputs, Bash!Start(c, max)
  PROVE  BashInv'
<1>1. /\ procs \in [Pids -> ProcRow] /\ toolCalls \in [Commands -> CallRow]
      /\ slain \subseteq Pids /\ MaxOutputs \subseteq Nat /\ \A p \in Pids : p \in Nat
  BY DEF BashInv, BashTypes, Bash!BashAssumption
<1>2. PICK m \in Pids :
        /\ m = Bash!Min(Bash!Unborn) /\ ~Begun(m) /\ \A q \in Pids : Begun(q) => q < m
  BY FirstUnborn DEF Bash!Start
<1>3. PICK row \in ProcRow :
        row = [at |-> "live", ppid |-> 2, group |-> m, run |-> CallerRun[c], call |-> c]
  BY DEF ProcRow, Fates, MarksKnown
<1>4. m > 2
  BY DEF BashInv, Bash!BashAssumption, Bash!server
<1>5. procs' = [procs EXCEPT ![m] = row]
  BY <1>2, <1>3 DEF Bash!Start, Bash!server
<1>6. row.at = "live" /\ row.ppid = 2 /\ row.group = m /\ row.call = c
  BY <1>3
<1>7. row.ppid < m
  BY <1>4, <1>6
<1>8. /\ procs' \in [Pids -> ProcRow] /\ Ascending' /\ Fades /\ procs'[m] = row
      /\ \A q \in Pids : q # m => procs'[q] = procs[q]
  BY <1>2, <1>5, <1>6, <1>7, Birth DEF Bash!Start
<1>9. PICK call \in CallRow :
        /\ call = [toolCalls[c] EXCEPT !.pc = "running", !.shell = m, !.max = max]
        /\ call.pc = "running" /\ call.shell = m /\ call.killed = toolCalls[c].killed
        /\ call.due = toolCalls[c].due
  <2>1. toolCalls[c] \in CallRow /\ max \in Nat
    BY <1>1
  <2>2. [toolCalls[c] EXCEPT !.pc = "running", !.shell = m, !.max = max] \in CallRow
    BY <2>1 DEF CallRow, Stages
  <2>3. QED
    BY <2>1, <2>2 DEF CallRow
<1>10. toolCalls' = [toolCalls EXCEPT ![c] = call]
  BY <1>2, <1>9 DEF Bash!Start
<1>11. /\ toolCalls' \in [Commands -> CallRow] /\ toolCalls'[c] = call
       /\ \A d \in Commands : d # c => toolCalls'[d] = toolCalls[d]
  BY <1>10, CallMoves
<1>12. toolCalls[c].pc = "idle" /\ UNCHANGED <<viewers, toolCache, clock, slain>>
  BY DEF Bash!Start
<1>13. ~toolCalls[c].killed
  BY <1>12 DEF BashInv, KillsFit
<1>14. BashTypes' /\ Bash!BashAssumption'
  BY <1>8, <1>11, <1>12 DEF BashInv, BashTypes, Bash!BashAssumption
<1>15. \A q \in Pids : procs'[q].at # "unborn" <=> Begun(q) \/ q = m
  BY <1>2, <1>6, <1>8 DEF Begun
<1>16. ShellsLead'
  <2>1. ASSUME NEW d \in Commands
        PROVE  /\ toolCalls'[d].pc \in {"running", "reaped"} => toolCalls'[d].shell \in Pids
               /\ toolCalls'[d].shell \in Pids =>
                    LET shell == toolCalls'[d].shell IN
                    /\ procs'[shell].at # "unborn"
                    /\ procs'[shell].group = shell /\ procs'[shell].call = d
                    /\ \A q \in Pids :
                         procs'[q].at # "unborn" /\ procs'[q].group = shell => procs'[q].call = d
    <3>1. CASE d = c
      <4>1. toolCalls'[d].shell = m
        BY <1>9, <1>11, <3>1
      <4>2. ASSUME NEW q \in Pids, procs'[q].at # "unborn", procs'[q].group = m
            PROVE  q = m
        <5>1. SUFFICES ASSUME q # m PROVE FALSE
          OBVIOUS
        <5>2. Begun(q) /\ procs[q].group = m
          BY <1>8, <1>15, <4>2, <5>1
        <5>3. QED
          BY <1>2, <5>2 DEF BashInv, Ascending, Begun
      <4>3. QED
        BY <1>6, <1>8, <1>15, <3>1, <4>1, <4>2
    <3>2. CASE d # c
      <4>1. toolCalls'[d] = toolCalls[d]
        BY <1>11, <3>2
      <4>2. SUFFICES ASSUME toolCalls[d].shell \in Pids
                     PROVE  LET shell == toolCalls[d].shell IN
                    /\ procs'[shell].at # "unborn"
                    /\ procs'[shell].group = shell /\ procs'[shell].call = d
                    /\ \A q \in Pids :
                         procs'[q].at # "unborn" /\ procs'[q].group = shell => procs'[q].call = d
        BY <4>1 DEF BashInv, ShellsLead
      <4>3. PICK shell \in Pids : shell = toolCalls[d].shell
        BY <4>2
      <4>4. /\ Begun(shell) /\ procs[shell].group = shell /\ procs[shell].call = d
            /\ \A q \in Pids : Begun(q) /\ procs[q].group = shell => procs[q].call = d
        BY <4>2, <4>3 DEF BashInv, ShellsLead
      <4>5. shell # m
        BY <1>2, <4>4
      <4>6. QED
        BY <1>6, <1>8, <1>15, <4>3, <4>4, <4>5
    <3>3. QED
      BY <3>1, <3>2
  <2>2. QED
    BY <2>1 DEF ShellsLead, Begun
<1>17. KillsFit'
  <2>1. ASSUME NEW d \in Commands
        PROVE  /\ toolCalls'[d].pc = "idle" => ~toolCalls'[d].killed
               /\ toolCalls'[d].killed =>
                    /\ toolCalls'[d].shell \in Pids
                    /\ \A p \in Pids : procs'[p].at = "live" =>
                         procs'[p].group # toolCalls'[d].shell
    <3>1. CASE d = c
      BY <1>9, <1>11, <1>13, <3>1
    <3>2. CASE d # c
      <4>1. toolCalls'[d] = toolCalls[d]
        BY <1>11, <3>2
      <4>2. SUFFICES ASSUME toolCalls[d].killed
                     PROVE  /\ toolCalls[d].shell \in Pids
                            /\ \A p \in Pids : procs'[p].at = "live" =>
                                 procs'[p].group # toolCalls[d].shell
        BY <4>1 DEF BashInv, KillsFit
      <4>3. /\ toolCalls[d].shell \in Pids
            /\ \A p \in Pids : procs[p].at = "live" => procs[p].group # toolCalls[d].shell
        BY <4>2 DEF BashInv, KillsFit
      <4>4. toolCalls[d].shell # m
        BY <1>2, <4>3 DEF BashInv, ShellsLead
      <4>5. QED
        BY <1>6, <1>8, <4>3, <4>4
    <3>3. QED
      BY <3>1, <3>2
  <2>2. ASSUME NEW p \in slain
        PROVE  LET call2 == toolCalls'[procs'[p].call] IN
               procs'[p].at # "unborn" /\ call2.due /\ (call2.pc = "returned" => call2.status = 1)
    <3>1. /\ p \in Pids /\ Begun(p) /\ toolCalls[procs[p].call].due
          /\ procs[p].call \in Commands
          /\ toolCalls[procs[p].call].pc = "returned" => toolCalls[procs[p].call].status = 1
      BY <1>1, <2>2 DEF BashInv, KillsFit, ProcRow
    <3>2. procs'[p] = procs[p]
      BY <1>2, <1>8, <3>1
    <3>3. CASE procs[p].call = c
      BY <1>9, <1>11, <1>15, <3>1, <3>2, <3>3
    <3>4. CASE procs[p].call # c
      BY <1>11, <1>15, <3>1, <3>2, <3>4
    <3>5. QED
      BY <3>3, <3>4
  <2>3. QED
    BY <1>12, <2>1, <2>2 DEF KillsFit, Begun
<1>18. AnswersFit'
  BY <1>9, <1>11 DEF BashInv, AnswersFit
<1>19. ScanFits'
  BY <1>8, <1>12, ScanStands
<1>20. QED
  BY <1>8, <1>14, <1>16, <1>17, <1>18, <1>19 DEF BashInv

\* A call that cannot start its shell, is due, or has been waited for.
LEMMA QuietCallStep ==
  ASSUME BashInv, NEW c \in Commands,
         \/ \E max \in MaxOutputs : Bash!StartFails(c, max)
         \/ Bash!Due(c) \/ Bash!Waited(c)
  PROVE  BashInv'
<1>1. toolCalls[c] \in CallRow /\ MaxOutputs \subseteq Nat
  BY DEF BashInv, BashTypes, Bash!BashAssumption
<1>2. PICK row \in CallRow :
        /\ toolCalls' = [toolCalls EXCEPT ![c] = row]
        /\ row.shell = toolCalls[c].shell /\ row.killed = toolCalls[c].killed
        /\ row.pc \notin {"idle", "returned"}
        /\ row.pc \in {"running", "reaped"} => row.pc = toolCalls[c].pc
        /\ toolCalls[c].due => row.due
  <2>1. CASE \E max \in MaxOutputs : Bash!StartFails(c, max)
    <3>0. PICK exitCode \in Int : exitCode = -1
      OBVIOUS
    <3>1. PICK max \in Nat :
            toolCalls' = [toolCalls EXCEPT ![c] = [@ EXCEPT !.pc = "waited", !.code = exitCode, !.max = max]]
      BY <1>1, <2>1, <3>0 DEF Bash!StartFails
    <3>2. PICK row : row = [toolCalls[c] EXCEPT !.pc = "waited", !.code = exitCode, !.max = max]
      OBVIOUS
    <3>3. row \in CallRow
      BY <1>1, <3>2 DEF CallRow, Stages
    <3>4. /\ row.pc = "waited" /\ row.shell = toolCalls[c].shell
          /\ row.killed = toolCalls[c].killed /\ row.due = toolCalls[c].due
      BY <1>1, <3>2 DEF CallRow
    <3>5. toolCalls' = [toolCalls EXCEPT ![c] = row]
      BY <3>1, <3>2
    <3>6. QED
      BY <3>3, <3>4, <3>5
  <2>2. CASE Bash!Due(c)
    <3>1. /\ toolCalls' = [toolCalls EXCEPT ![c].due = TRUE]
          /\ toolCalls[c].pc \in {"running", "reaped", "waited"}
      BY <2>2 DEF Bash!Due
    <3>2. PICK row : row = [toolCalls[c] EXCEPT !.due = TRUE]
      OBVIOUS
    <3>3. row \in CallRow
      BY <1>1, <3>2 DEF CallRow
    <3>4. /\ row.pc = toolCalls[c].pc /\ row.shell = toolCalls[c].shell
          /\ row.killed = toolCalls[c].killed /\ row.due
      BY <1>1, <3>2 DEF CallRow
    <3>5. toolCalls' = [toolCalls EXCEPT ![c] = row]
      BY <3>1, <3>2
    <3>6. QED
      BY <3>1, <3>3, <3>4, <3>5
  <2>3. CASE Bash!Waited(c)
    <3>1. toolCalls' = [toolCalls EXCEPT ![c].pc = "waited"]
      BY <2>3 DEF Bash!Waited
    <3>2. PICK row : row = [toolCalls[c] EXCEPT !.pc = "waited"]
      OBVIOUS
    <3>3. row \in CallRow
      BY <1>1, <3>2 DEF CallRow, Stages
    <3>4. /\ row.pc = "waited" /\ row.shell = toolCalls[c].shell
          /\ row.killed = toolCalls[c].killed /\ row.due = toolCalls[c].due
      BY <1>1, <3>2 DEF CallRow
    <3>5. toolCalls' = [toolCalls EXCEPT ![c] = row]
      BY <3>1, <3>2
    <3>6. QED
      BY <3>3, <3>4, <3>5
  <2>4. QED
    BY <2>1, <2>2, <2>3
<1>3. UNCHANGED <<procs, viewers, toolCache, clock, slain>>
  BY DEF Bash!StartFails, Bash!Due, Bash!Waited
<1>4. QED
  BY <1>2, <1>3, CallAlone

\* The answer is made of what is left of the output.
LEMMA ReturnStep ==
  ASSUME BashInv, NEW c \in Commands, NEW out \in Outputs, NEW more \in {0, 1},
         Bash!Return(c, out, more)
  PROVE  BashInv'
<1>1. /\ toolCalls[c] \in CallRow /\ out.stdout \in Seq(Int) /\ out.stderr \in Seq(Int)
  BY DEF BashInv, BashTypes, Bash!BashAssumption
<1>2. PICK n \in Int :
        n = Bash!statusLine(c) /\ (toolCalls[c].due => n = 1)
  BY DEF Bash!statusLine, Bash!timedOut, Bash!failed, Bash!finished, Bash!returned
<1>3. PICK max \in Nat : max = toolCalls[c].max
  BY <1>1 DEF CallRow
<1>4. PICK o \in Seq(Int), e \in Seq(Int) :
        /\ o = Bash!readCapped(out.stdout, more, max)
        /\ e = Bash!readCapped(out.stderr, 0, max)
  BY <1>1, Capped
<1>5. PICK text \in Seq(Int) :
        /\ text = Bash!formatOutput(o, e, n, max)
        /\ Len(text) <= max
        /\ max >= 9 => SubSeq(text, Len(text) - 3 + 1, Len(text)) = Bash!Status(n)
  BY Formatted
<1>6. PICK row : row = [toolCalls[c] EXCEPT !.pc = "returned", !.status = n, !.text = text]
  OBVIOUS
<1>7. row \in CallRow
  BY <1>1, <1>6 DEF CallRow, Stages
<1>8. /\ row.pc = "returned" /\ row.shell = toolCalls[c].shell
      /\ row.killed = toolCalls[c].killed /\ row.due = toolCalls[c].due
      /\ row.status = n /\ row.text = text /\ row.max = max
  BY <1>1, <1>3, <1>6 DEF CallRow
<1>9. toolCalls' = [toolCalls EXCEPT ![c] = row]
  BY <1>2, <1>3, <1>4, <1>5, <1>6 DEF Bash!Return
<1>10. UNCHANGED <<procs, viewers, toolCache, clock, slain>>
  BY DEF Bash!Return
<1>11. QED
  BY <1>2, <1>5, <1>7, <1>8, <1>9, <1>10, CallAlone

\* The group is killed, or its shell waited for.
LEMMA EndStep ==
  ASSUME BashInv, NEW c \in Commands,
         Bash!Cancel(c) \/ \E exitCode \in {-1, 0, 1} : Bash!Reap(c, exitCode)
  PROVE  BashInv'
<1>1. /\ procs \in [Pids -> ProcRow] /\ toolCalls \in [Commands -> CallRow]
      /\ slain \subseteq Pids
  BY DEF BashInv, BashTypes
<1>2. /\ toolCalls[c].pc \in {"running", "reaped"} /\ toolCalls[c].shell \in Pids
      /\ UNCHANGED <<viewers, toolCache, clock>>
  BY DEF Bash!Cancel, Bash!Reap, BashInv, ShellsLead
<1>3. \A q \in Pids : Begun(q) /\ procs[q].group = toolCalls[c].shell => procs[q].call = c
  BY <1>2 DEF BashInv, ShellsLead
<1>4. PICK row \in CallRow :
        /\ toolCalls' = [toolCalls EXCEPT ![c] = row]
        /\ row.shell = toolCalls[c].shell /\ row.due = toolCalls[c].due
        /\ row.pc \in {"running", "reaped"}
        /\ row.killed => toolCalls[c].killed \/ Bash!Cancel(c)
  <2>1. CASE Bash!Cancel(c)
    <3>1. PICK row : row = [toolCalls[c] EXCEPT !.killed = TRUE]
      OBVIOUS
    <3>2. row \in CallRow
      BY <1>1, <3>1 DEF CallRow
    <3>3. row.shell = toolCalls[c].shell /\ row.due = toolCalls[c].due /\ row.pc = toolCalls[c].pc
      BY <1>1, <3>1 DEF CallRow
    <3>4. toolCalls' = [toolCalls EXCEPT ![c] = row]
      BY <2>1, <3>1 DEF Bash!Cancel
    <3>5. QED
      BY <1>2, <2>1, <3>2, <3>3, <3>4
  <2>2. CASE \E exitCode \in {-1, 0, 1} : Bash!Reap(c, exitCode)
    <3>0. PICK exitCode \in {-1, 0, 1} : Bash!Reap(c, exitCode)
      BY <2>2
    <3>1. /\ toolCalls' = [toolCalls EXCEPT ![c] = [@ EXCEPT !.pc = "reaped", !.code = exitCode]]
          /\ exitCode \in Int
      BY <3>0 DEF Bash!Reap
    <3>2. PICK row : row = [toolCalls[c] EXCEPT !.pc = "reaped", !.code = exitCode]
      OBVIOUS
    <3>3. row \in CallRow
      BY <1>1, <3>1, <3>2 DEF CallRow, Stages
    <3>4. /\ row.shell = toolCalls[c].shell /\ row.due = toolCalls[c].due /\ row.pc = "reaped"
          /\ row.killed = toolCalls[c].killed
      BY <1>1, <3>2 DEF CallRow
    <3>5. toolCalls' = [toolCalls EXCEPT ![c] = row]
      BY <3>1, <3>2
    <3>6. QED
      BY <3>3, <3>4, <3>5
  <2>3. QED
    BY <2>1, <2>2
<1>5. /\ toolCalls' \in [Commands -> CallRow] /\ toolCalls'[c] = row
      /\ \A d \in Commands : d # c => toolCalls'[d] = toolCalls[d]
  BY <1>4, CallMoves
<1>6. /\ procs' \in [Pids -> ProcRow]
      /\ \A q \in Pids :
           /\ Begun(q)' <=> Begun(q)
           /\ procs'[q].ppid \in {1, procs[q].ppid} /\ procs'[q].run \in {"", procs[q].run}
           /\ procs'[q].group = procs[q].group /\ procs'[q].call = procs[q].call
           /\ procs'[q].at = "live" => procs[q].at = "live"
      /\ Bash!Cancel(c) => \A q \in Pids :
           procs'[q].at = "live" => procs[q].group # toolCalls[c].shell
  <2>1. CASE Bash!Cancel(c)
    <3>1. procs' = Bash!Without(Bash!killGroup(c)) /\ Bash!killGroup(c) \in SUBSET Bash!Live
      BY <2>1 DEF Bash!Cancel, Bash!killGroup
    <3>2. \A q \in Pids :
            /\ procs'[q].group = procs[q].group /\ procs'[q].run = procs[q].run
            /\ procs'[q].call = procs[q].call /\ procs'[q].ppid \in {1, procs[q].ppid}
            /\ (procs'[q].at = "unborn") = (procs[q].at = "unborn")
            /\ procs'[q].at = "live" => procs[q].at = "live" /\ q \notin Bash!killGroup(c)
      BY <3>1, WithoutFits
    <3>3. procs' \in [Pids -> ProcRow]
      BY <3>1, WithoutFits
    <3>4. \A q \in Pids : procs[q].at = "live" /\ procs[q].group = toolCalls[c].shell =>
            q \in Bash!killGroup(c)
      BY DEF Bash!killGroup, Bash!Live
    <3>5. QED
      BY <3>2, <3>3, <3>4 DEF Begun
  <2>2. CASE ~Bash!Cancel(c)
    <3>1. PICK shell \in Pids : shell = toolCalls[c].shell
      BY <1>2
    <3>2. procs' = [procs EXCEPT ![shell].at = "gone"] /\ procs[shell].at = "zombie"
      BY <2>2, <3>1 DEF Bash!Reap
    <3>3. procs[shell] \in ProcRow
      BY <1>1
    <3>4. [procs[shell] EXCEPT !.at = "gone"] \in ProcRow
      BY <3>3 DEF ProcRow, Fates
    <3>5. /\ procs' \in [Pids -> ProcRow] /\ procs'[shell] = [procs[shell] EXCEPT !.at = "gone"]
          /\ \A q \in Pids : q # shell => procs'[q] = procs[q]
      BY <1>1, <3>2, <3>4
    <3>6. /\ procs'[shell].at = "gone" /\ procs'[shell].ppid = procs[shell].ppid
          /\ procs'[shell].group = procs[shell].group /\ procs'[shell].run = procs[shell].run
          /\ procs'[shell].call = procs[shell].call
      BY <3>3, <3>5 DEF ProcRow
    <3>7. QED
      BY <2>2, <3>2, <3>5, <3>6 DEF Begun
  <2>3. QED
    BY <2>1, <2>2
<1>7. Ascending' /\ Fades
  BY <1>6, Decline
<1>8. slain' \subseteq Pids /\ \A p \in slain' : p \in slain \/ (Begun(p) /\ procs[p].call = c /\ toolCalls[c].due)
  <2>1. CASE Bash!Cancel(c)
    <3>1. slain' = slain \cup Bash!killGroup(c) /\ toolCalls[c].due
      BY <2>1 DEF Bash!Cancel
    <3>2. \A p \in Bash!killGroup(c) : p \in Pids /\ Begun(p) /\ procs[p].group = toolCalls[c].shell
      BY DEF Bash!killGroup, Bash!Live, Begun
    <3>3. QED
      BY <1>1, <1>3, <3>1, <3>2
  <2>2. CASE ~Bash!Cancel(c)
    BY <1>1, <2>2 DEF Bash!Reap
  <2>3. QED
    BY <2>1, <2>2
<1>9. BashTypes' /\ Bash!BashAssumption'
  BY <1>2, <1>5, <1>6, <1>8 DEF BashInv, BashTypes, Bash!BashAssumption
<1>10. ShellsLead'
  <2>1. ASSUME NEW d \in Commands
        PROVE  /\ toolCalls'[d].pc \in {"running", "reaped"} => toolCalls'[d].shell \in Pids
               /\ toolCalls'[d].shell = toolCalls[d].shell
    BY <1>2, <1>4, <1>5 DEF BashInv, ShellsLead
  <2>2. ASSUME NEW d \in Commands, toolCalls[d].shell \in Pids
        PROVE  LET shell == toolCalls[d].shell IN
               /\ procs'[shell].at # "unborn" /\ procs'[shell].group = shell /\ procs'[shell].call = d
               /\ \A q \in Pids :
                    procs'[q].at # "unborn" /\ procs'[q].group = shell => procs'[q].call = d
    <3>1. PICK shell \in Pids : shell = toolCalls[d].shell
      BY <2>2
    <3>2. /\ Begun(shell) /\ procs[shell].group = shell /\ procs[shell].call = d
          /\ \A q \in Pids : Begun(q) /\ procs[q].group = shell => procs[q].call = d
      BY <2>2, <3>1 DEF BashInv, ShellsLead
    <3>3. QED
      BY <1>6, <3>1, <3>2 DEF Begun
  <2>3. QED
    BY <2>1, <2>2 DEF ShellsLead, Begun
<1>11. KillsFit'
  <2>1. ASSUME NEW d \in Commands
        PROVE  /\ toolCalls'[d].pc = "idle" => ~toolCalls'[d].killed
               /\ toolCalls'[d].killed =>
                    /\ toolCalls'[d].shell \in Pids
                    /\ \A p \in Pids : procs'[p].at = "live" =>
                         procs'[p].group # toolCalls'[d].shell
    <3>1. CASE d = c /\ Bash!Cancel(c)
      BY <1>2, <1>4, <1>5, <1>6, <3>1
    <3>2. CASE d = c /\ ~Bash!Cancel(c)
      <4>1. row.killed => toolCalls[c].killed
        BY <1>4, <3>2
      <4>2. toolCalls[c].killed => \A p \in Pids : procs[p].at = "live" =>
                                     procs[p].group # toolCalls[c].shell
        BY DEF BashInv, KillsFit
      <4>3. QED
        BY <1>2, <1>4, <1>5, <1>6, <3>2, <4>1, <4>2
    <3>3. CASE d # c
      <4>1. toolCalls'[d] = toolCalls[d]
        BY <1>5, <3>3
      <4>2. /\ toolCalls[d].pc = "idle" => ~toolCalls[d].killed
            /\ toolCalls[d].killed =>
                 /\ toolCalls[d].shell \in Pids
                 /\ \A p \in Pids : procs[p].at = "live" => procs[p].group # toolCalls[d].shell
        BY DEF BashInv, KillsFit
      <4>3. QED
        BY <1>6, <4>1, <4>2
    <3>4. QED
      BY <3>1, <3>2, <3>3
  <2>2. ASSUME NEW p \in slain'
        PROVE  LET call == toolCalls'[procs'[p].call] IN
               procs'[p].at # "unborn" /\ call.due /\ (call.pc = "returned" => call.status = 1)
    <3>1. p \in Pids
      BY <1>8, <2>2
    <3>2. Begun(p) /\ procs'[p].call = procs[p].call /\ procs'[p].at # "unborn"
      BY <1>6, <1>8, <2>2, <3>1 DEF BashInv, KillsFit, Begun
    <3>3. CASE procs[p].call = c
      <4>1. toolCalls[c].due
        BY <1>8, <2>2, <3>3 DEF BashInv, KillsFit
      <4>2. QED
        BY <1>4, <1>5, <3>2, <3>3, <4>1
    <3>4. CASE procs[p].call # c
      <4>1. p \in slain
        BY <1>8, <2>2, <3>4
      <4>2. /\ toolCalls[procs[p].call].due /\ procs[p].call \in Commands
            /\ toolCalls[procs[p].call].pc = "returned" => toolCalls[procs[p].call].status = 1
        BY <1>1, <3>1, <4>1 DEF BashInv, KillsFit, ProcRow
      <4>3. QED
        BY <1>5, <3>2, <3>4, <4>2
    <3>5. QED
      BY <3>3, <3>4
  <2>3. QED
    BY <2>1, <2>2 DEF KillsFit, Begun
<1>12. AnswersFit'
  BY <1>4, <1>5 DEF BashInv, AnswersFit
<1>13. ScanFits'
  BY <1>2, <1>7, ScanStands
<1>14. QED
  BY <1>7, <1>9, <1>10, <1>11, <1>12, <1>13 DEF BashInv

\* As parents are older, everything found hangs under a root.
LEMMA ForestIsAll ==
  ASSUME NEW found \in SUBSET [pid : Pids, ppid : Nat], BashInv,
         \A e \in found : e.ppid < e.pid
  PROVE  \A e \in found : e.pid \in Bash!forest(found)
<1> DEFINE known == {e.pid : e \in found}
           roots == {e \in found : e.ppid \notin known \/ e.ppid = e.pid}
           Whole(S) == roots \subseteq S /\ \A e \in S : {d \in found : d.ppid = e.pid} \subseteq S
<1>1. Bash!forest(found) = {e.pid : e \in {d \in found : \A S \in SUBSET found : Whole(S) => d \in S}}
  BY DEF Bash!forest, Bash!Under
<1>2. ASSUME NEW S \in SUBSET found, Whole(S) PROVE found \subseteq S
  <2> DEFINE left == {e.pid : e \in found \ S}
  <2>1. SUFFICES ASSUME found \ S # {} PROVE FALSE
    OBVIOUS
  <2>2. \A p \in Pids : p \in Nat
    BY PidsAbove
  <2>3. \A e \in found : e.pid \in Pids
    OBVIOUS
  <2>4. left \in SUBSET Nat /\ left # {}
    BY <2>1, <2>2, <2>3
  <2>5. PICK n \in left : \A k \in left : n <= k
    <3> HIDE DEF left
    <3> QED
      BY <2>4, LeastNumber
  <2>6. PICK e \in found \ S : e.pid = n
    BY <2>5
  <2>7. e.ppid < e.pid /\ e.ppid # e.pid /\ e.ppid \in Nat /\ e.pid \in Nat
    <3>1. e.ppid < e.pid /\ e.ppid \in Nat
      OBVIOUS
    <3>2. e.pid \in Nat
      BY <2>2, <2>3
    <3>3. QED
      BY <3>1, <3>2
  <2>8. e.ppid \in known
    BY <1>2, <2>6, <2>7
  <2>9. PICK d \in found : d.pid = e.ppid
    BY <2>8
  <2>10. d \in S
    <3>1. SUFFICES ASSUME d \notin S PROVE FALSE
      OBVIOUS
    <3>2. d.pid \in left
      BY <3>1
    <3>3. n <= d.pid
      BY <2>5, <3>2
    <3>4. QED
      BY <2>6, <2>7, <2>9, <3>3
  <2>11. e \in S
    BY <1>2, <2>9, <2>10
  <2>12. QED
    BY <2>6, <2>11
<1>3. ASSUME NEW e \in found PROVE e.pid \in Bash!forest(found)
  <2>1. e \in {d \in found : \A S \in SUBSET found : Whole(S) => d \in S}
    BY <1>2
  <2> HIDE DEF Whole
  <2>2. QED
    BY <1>1, <2>1
<1>4. QED
  BY <1>3

\* A viewer's step: nobody else's view changes, and its own is right.
LEMMA ViewMoves ==
  ASSUME BashInv, NEW v \in Viewers, NEW view \in ViewerRow,
         viewers' = [viewers EXCEPT ![v] = view], UNCHANGED <<procs, toolCalls, clock, slain>>,
         toolCache' \in [{ViewOf[w] : w \in Viewers} -> Cached],
         \A e \in view.found : e.ppid < e.pid,
         \A p \in view.before : Begun(p),
         view.pc = "scanning" =>
           \A p \in view.before :
             p \in view.todo \/ (\E e \in view.found : e.pid = p) \/ ~Carries(p, ViewOf[v]),
         view.pc = "scanned" =>
           \A p \in view.before : p \in view.answer.roots \/ ~Carries(p, ViewOf[v])
  PROVE  BashInv'
<1>1. /\ viewers' \in [Viewers -> ViewerRow] /\ viewers'[v] = view
      /\ \A w \in Viewers : w # v => viewers'[w] = viewers[w]
  BY DEF BashInv, BashTypes
<1>2. BashTypes' /\ Bash!BashAssumption' /\ Ascending' /\ ShellsLead' /\ KillsFit' /\ AnswersFit'
  BY <1>1 DEF BashInv, BashTypes, Bash!BashAssumption, Ascending, ShellsLead, KillsFit,
              AnswersFit, Begun
<1>3. ScanFits'
  <2>1. ASSUME NEW w \in Viewers
        PROVE  LET other == viewers'[w] IN
               /\ \A e \in other.found : e.ppid < e.pid
               /\ \A p \in other.before : Begun(p)
               /\ other.pc = "scanning" =>
                    \A p \in other.before :
                      p \in other.todo \/ (\E e \in other.found : e.pid = p) \/ ~Carries(p, ViewOf[w])
               /\ other.pc = "scanned" =>
                    \A p \in other.before : p \in other.answer.roots \/ ~Carries(p, ViewOf[w])
    <3>1. CASE w = v
      BY <1>1, <3>1
    <3>2. CASE w # v
      BY <1>1, <3>2 DEF BashInv, ScanFits
    <3>3. QED
      BY <3>1, <3>2
  <2>2. QED
    BY <2>1 DEF ScanFits, Begun, Carries
<1>4. QED
  BY <1>2, <1>3 DEF BashInv

\* A page asks, its scan reads a process, or ends.
LEMMA ViewStep ==
  ASSUME BashInv, NEW v \in Viewers,
         \/ Bash!Ask(v) \/ Bash!Answer(v) \/ Bash!AskAgain(v)
         \/ \E p \in Pids : Bash!Inspect(v, p)
  PROVE  BashInv'
<1>1. /\ viewers[v] \in ViewerRow /\ procs \in [Pids -> ProcRow] /\ clock \in Nat
      /\ toolCache \in [{ViewOf[w] : w \in Viewers} -> Cached]
      /\ ViewOf[v] \in {ViewOf[w] : w \in Viewers}
  BY DEF BashInv, BashTypes
<1>2. UNCHANGED <<procs, toolCalls, clock, slain>>
  BY DEF Bash!Ask, Bash!Answer, Bash!AskAgain, Bash!Inspect
<1>3. /\ \A e \in viewers[v].found : e.ppid < e.pid
      /\ \A p \in viewers[v].before : Begun(p)
      /\ viewers[v].pc = "scanning" =>
           \A p \in viewers[v].before :
             \/ p \in viewers[v].todo \/ (\E e \in viewers[v].found : e.pid = p)
             \/ ~Carries(p, ViewOf[v])
  BY DEF BashInv, ScanFits
<1>4. CASE Bash!Ask(v) /\ Bash!Fresh(ViewOf[v])
  <2>1. PICK sample \in SampleRow : sample = toolCache[ViewOf[v]][1]
    <3>1. toolCache[ViewOf[v]] \in Cached /\ toolCache[ViewOf[v]] # <<>>
      BY <1>1, <1>4 DEF Bash!Fresh
    <3>2. QED
      BY <3>1 DEF Cached
  <2>0. PICK asks \in Nat : asks = viewers[v].asks + 1
    BY <1>1 DEF ViewerRow
  <2>2. PICK view : view = [viewers[v] EXCEPT !.pc = "answered", !.asks = asks, !.answer = sample]
    OBVIOUS
  <2>3. view \in ViewerRow
    BY <1>1, <2>2 DEF ViewerRow
  <2>4. view.pc = "answered" /\ view.found = viewers[v].found /\ view.before = viewers[v].before
    BY <1>1, <2>2 DEF ViewerRow
  <2>5. viewers' = [viewers EXCEPT ![v] = view] /\ toolCache' = toolCache
    <3>1. viewers' = [viewers EXCEPT ![v] =
                        [viewers[v] EXCEPT !.pc = "answered", !.asks = viewers[v].asks + 1,
                                           !.answer = toolCache[ViewOf[v]][1]]]
      BY <1>4 DEF Bash!Ask
    <3>2. QED
      BY <1>4, <2>0, <2>1, <2>2, <3>1 DEF Bash!Ask
  <2>6. QED
    BY <1>1, <1>2, <1>3, <2>3, <2>4, <2>5, ViewMoves
<1>5. CASE Bash!Ask(v) /\ ~Bash!Fresh(ViewOf[v])
  <2>1. PICK carry \in SUBSET Pids : carry = {p \in Bash!Live : procs[p].run = ViewOf[v]}
    BY DEF Bash!Live
  <2>0. PICK asks \in Nat : asks = viewers[v].asks + 1
    BY <1>1 DEF ViewerRow
  <2>2. PICK view : view = [viewers[v] EXCEPT !.pc = "scanning", !.asks = asks,
                              !.todo = Bash!Live, !.found = {}, !.before = carry]
    OBVIOUS
  <2>3. Bash!Live \in SUBSET Pids /\ carry \subseteq Bash!Live /\ \A p \in Bash!Live : Begun(p)
    BY <2>1 DEF Bash!Live, Begun
  <2>4. view \in ViewerRow
    BY <1>1, <2>2, <2>3 DEF ViewerRow
  <2>5. view.pc = "scanning" /\ view.found = {} /\ view.before = carry /\ view.todo = Bash!Live
    BY <1>1, <2>2 DEF ViewerRow
  <2>6. viewers' = [viewers EXCEPT ![v] = view] /\ toolCache' = toolCache
    <3>1. viewers' = [viewers EXCEPT ![v] =
                        [viewers[v] EXCEPT !.pc = "scanning", !.asks = viewers[v].asks + 1,
                           !.todo = Bash!Live, !.found = {},
                           !.before = {p \in Bash!Live : procs[p].run = ViewOf[v]}]]
      BY <1>5 DEF Bash!Ask
    <3>2. QED
      BY <1>5, <2>0, <2>1, <2>2, <3>1 DEF Bash!Ask
  <2>7. QED
    BY <1>1, <1>2, <2>3, <2>4, <2>5, <2>6, ViewMoves
<1>6. ASSUME NEW p \in Pids, Bash!Inspect(v, p) PROVE BashInv'
  <2>1. PICK new \in SUBSET [pid : Pids, ppid : Nat] :
          /\ new = IF p \in Bash!Live /\ procs[p].run = ViewOf[v]
                   THEN {[pid |-> p, ppid |-> procs[p].ppid]} ELSE {}
          /\ \A e \in new : e.ppid < e.pid
          /\ (\E e \in new : e.pid = p) \/ ~Carries(p, ViewOf[v])
    <3>1. CASE p \in Bash!Live /\ procs[p].run = ViewOf[v]
      <4>1. PICK e : e = [pid |-> p, ppid |-> procs[p].ppid]
        OBVIOUS
      <4>2. e \in [pid : Pids, ppid : Nat] /\ e.pid = p /\ e.ppid = procs[p].ppid
        BY <1>1, <4>1 DEF ProcRow
      <4>3. procs[p].ppid < p
        BY <3>1 DEF BashInv, Ascending, Begun, Bash!Live
      <4>4. {e} \in SUBSET [pid : Pids, ppid : Nat] /\ \A d \in {e} : d.ppid < d.pid
        BY <4>2, <4>3
      <4>5. QED
        BY <3>1, <4>1, <4>2, <4>4
    <3>2. CASE ~(p \in Bash!Live /\ procs[p].run = ViewOf[v])
      <4>1. ~Carries(p, ViewOf[v])
        BY <3>2 DEF Carries, Bash!Live
      <4>2. {} \in SUBSET [pid : Pids, ppid : Nat]
        OBVIOUS
      <4>3. QED
        BY <3>2, <4>1, <4>2
    <3>3. QED
      BY <3>1, <3>2
  <2>2. PICK view : view = [viewers[v] EXCEPT !.todo = viewers[v].todo \ {p},
                                              !.found = viewers[v].found \cup new]
    OBVIOUS
  <2>3. view \in ViewerRow
    <3>1. /\ viewers[v].todo \ {p} \in SUBSET Pids
          /\ viewers[v].found \cup new \in SUBSET [pid : Pids, ppid : Nat]
      BY <1>1 DEF ViewerRow
    <3>2. QED
      BY <1>1, <2>2, <3>1 DEF ViewerRow
  <2>4. /\ view.pc = viewers[v].pc /\ view.before = viewers[v].before
        /\ view.todo = viewers[v].todo \ {p} /\ view.found = viewers[v].found \cup new
    BY <1>1, <2>2 DEF ViewerRow
  <2>5. viewers' = [viewers EXCEPT ![v] = view] /\ toolCache' = toolCache /\ viewers[v].pc = "scanning"
    <3>1. /\ viewers' = [viewers EXCEPT ![v] =
               [viewers[v] EXCEPT !.todo = viewers[v].todo \ {p},
                  !.found = viewers[v].found \cup
                    (IF p \in Bash!Live /\ procs[p].run = ViewOf[v]
                     THEN {[pid |-> p, ppid |-> procs[p].ppid]} ELSE {})]]
          /\ toolCache' = toolCache /\ viewers[v].pc = "scanning"
      BY <1>6 DEF Bash!Inspect
    <3>2. QED
      BY <2>1, <2>2, <3>1
  <2>6. ASSUME NEW q \in view.before
        PROVE  q \in view.todo \/ (\E e \in view.found : e.pid = q) \/ ~Carries(q, ViewOf[v])
    <3>1. CASE q = p
      BY <2>1, <2>4, <3>1
    <3>2. CASE q # p
      BY <1>3, <2>4, <2>5, <3>2
    <3>3. QED
      BY <3>1, <3>2
  <2>7. \A e \in view.found : e.ppid < e.pid
    BY <1>3, <2>1, <2>4
  <2>8. \A q \in view.before : Begun(q)
    BY <1>3, <2>4
  <2>9. QED
    BY <1>1, <1>2, <2>3, <2>4, <2>5, <2>6, <2>7, <2>8, ViewMoves
<1>7. CASE Bash!Answer(v)
  <2>1. PICK roots \in SUBSET Pids :
          /\ roots = Bash!forest(viewers[v].found)
          /\ \A e \in viewers[v].found : e.pid \in roots
    <3>1. viewers[v].found \in SUBSET [pid : Pids, ppid : Nat]
      BY <1>1 DEF ViewerRow
    <3>2. \A e \in viewers[v].found : e.pid \in Bash!forest(viewers[v].found)
      BY <1>3, <3>1, ForestIsAll
    <3>3. Bash!forest(viewers[v].found) \in SUBSET Pids
      BY <3>1 DEF Bash!forest, Bash!Under
    <3>4. QED
      BY <3>2, <3>3
  <2>2. PICK sample \in SampleRow : sample = [roots |-> roots, taken |-> clock] /\ sample.roots = roots
    <3>1. PICK sample : sample = [roots |-> roots, taken |-> clock]
      OBVIOUS
    <3>2. sample \in SampleRow /\ sample.roots = roots
      BY <1>1, <3>1 DEF SampleRow
    <3>3. QED
      BY <3>1, <3>2
  <2>3. PICK view : view = [viewers[v] EXCEPT !.pc = "scanned", !.answer = sample]
    OBVIOUS
  <2>4. view \in ViewerRow
    BY <1>1, <2>3 DEF ViewerRow
  <2>5. /\ view.pc = "scanned" /\ view.before = viewers[v].before
        /\ view.found = viewers[v].found /\ view.answer = sample
    BY <1>1, <2>3 DEF ViewerRow
  <2>6. /\ viewers' = [viewers EXCEPT ![v] = view]
        /\ toolCache' = [toolCache EXCEPT ![ViewOf[v]] = <<sample>>]
        /\ viewers[v].pc = "scanning" /\ viewers[v].todo = {}
    BY <1>7, <2>1, <2>2, <2>3 DEF Bash!Answer
  <2>7. toolCache' \in [{ViewOf[w] : w \in Viewers} -> Cached]
    <3>1. <<sample>> \in Cached
      BY DEF Cached
    <3>2. QED
      BY <1>1, <2>6, <3>1
  <2>8. \A p \in view.before : p \in view.answer.roots \/ ~Carries(p, ViewOf[v])
    BY <1>3, <2>1, <2>2, <2>5, <2>6
  <2>9. QED
    BY <1>2, <1>3, <2>4, <2>5, <2>6, <2>7, <2>8, ViewMoves
<1>8. CASE Bash!AskAgain(v)
  <2>1. PICK sample \in SampleRow : sample = Bash!NoSample
    BY DEF SampleRow, Bash!NoSample
  <2>2. PICK view : view = [viewers[v] EXCEPT !.pc = "idle", !.found = {}, !.before = {},
                                              !.answer = sample]
    OBVIOUS
  <2>3. view \in ViewerRow
    BY <1>1, <2>2 DEF ViewerRow
  <2>4. view.pc = "idle" /\ view.found = {} /\ view.before = {}
    BY <1>1, <2>2 DEF ViewerRow
  <2>5. viewers' = [viewers EXCEPT ![v] = view] /\ toolCache' = toolCache
    BY <1>8, <2>1, <2>2 DEF Bash!AskAgain
  <2>6. QED
    BY <1>1, <1>2, <2>3, <2>4, <2>5, ViewMoves
<1>9. QED
  BY <1>4, <1>5, <1>6, <1>7, <1>8

\* Nothing has run.
LEMMA BashInit == Bash!BashAssumption /\ Bash!Init => BashInv
<1> SUFFICES ASSUME Bash!BashAssumption, Bash!Init PROVE BashInv
  OBVIOUS
<1>1. PICK c0 \in Commands : c0 = CHOOSE c \in Commands : TRUE
  BY DEF Bash!BashAssumption
<1>2. \A p \in Pids :
        /\ [at |-> "unborn", ppid |-> 1, group |-> p, run |-> "", call |-> c0] \in ProcRow
        /\ procs[p] = [at |-> "unborn", ppid |-> 1, group |-> p, run |-> "", call |-> c0]
  BY <1>1 DEF Bash!Init, Bash!init, ProcRow, Fates, MarksKnown
<1>3. procs \in [Pids -> ProcRow] /\ \A p \in Pids : ~Begun(p)
  BY <1>1, <1>2 DEF Bash!Init, Begun
<1>4. \A c \in Commands :
        toolCalls[c] = [pc |-> "idle", shell |-> 1, due |-> FALSE, killed |-> FALSE,
                        code |-> 0, status |-> 0, text |-> <<>>, max |-> 0]
  BY DEF Bash!Init, Bash!init
<1>5. toolCalls \in [Commands -> CallRow]
  <2>1. [pc |-> "idle", shell |-> 1, due |-> FALSE, killed |-> FALSE,
         code |-> 0, status |-> 0, text |-> <<>>, max |-> 0] \in CallRow
    BY DEF CallRow, Stages
  <2>2. QED
    BY <2>1 DEF Bash!Init, Bash!init
<1>6. \A v \in Viewers :
        viewers[v] = [pc |-> "idle", asks |-> 0, todo |-> {}, found |-> {}, before |-> {},
                      answer |-> Bash!NoSample]
  BY DEF Bash!Init
<1>7. viewers \in [Viewers -> ViewerRow]
  <2>1. Bash!NoSample \in SampleRow
    BY DEF Bash!NoSample, SampleRow
  <2>2. [pc |-> "idle", asks |-> 0, todo |-> {}, found |-> {}, before |-> {},
         answer |-> Bash!NoSample] \in ViewerRow
    BY <2>1 DEF ViewerRow
  <2>3. QED
    BY <2>2 DEF Bash!Init
<1>8. toolCache \in [{ViewOf[w] : w \in Viewers} -> Cached] /\ clock \in Nat /\ slain = {}
  BY DEF Bash!Init, Cached
<1>9. ShellsLead
  <2>1. ASSUME NEW c \in Commands
        PROVE  toolCalls[c].pc = "idle" /\ toolCalls[c].shell \notin Pids
    <3>1. ASSUME NEW p \in Pids PROVE p # 1
      <4>1. p \in Nat /\ p > 2
        BY DEF Bash!BashAssumption, Bash!server
      <4>2. QED
        BY <4>1
    <3>2. toolCalls[c].pc = "idle" /\ toolCalls[c].shell = 1
      BY <1>4
    <3>3. QED
      BY <3>1, <3>2
  <2>2. QED
    BY <2>1 DEF ShellsLead
<1>10. KillsFit /\ AnswersFit
  <2>1. \A c \in Commands : toolCalls[c].pc = "idle" /\ ~toolCalls[c].killed
    BY <1>4
  <2>2. QED
    BY <1>8, <2>1 DEF KillsFit, AnswersFit
<1>11. ScanFits
  BY <1>6 DEF ScanFits
<1>12. QED
  BY <1>3, <1>5, <1>7, <1>8, <1>9, <1>10, <1>11 DEF BashInv, BashTypes, Ascending

\* Every step of a process, a call, a viewer or the clock keeps it.
LEMMA BashStep == BashInv /\ [Bash!Next]_(Bash!vars) => BashInv'
<1> SUFFICES ASSUME BashInv, [Bash!Next]_(Bash!vars) PROVE BashInv'
  OBVIOUS
<1>1. CASE UNCHANGED Bash!vars
  <2>1. UNCHANGED <<procs, toolCalls, viewers, toolCache, clock, slain>>
    BY <1>1 DEF Bash!vars
  <2>2. BashTypes' /\ Bash!BashAssumption' /\ Ascending' /\ ShellsLead' /\ KillsFit'
    BY <2>1 DEF BashInv, BashTypes, Bash!BashAssumption, Ascending, ShellsLead, KillsFit, Begun
  <2>3. ScanFits' /\ AnswersFit'
    BY <2>1 DEF BashInv, ScanFits, AnswersFit, Begun, Carries
  <2>4. QED
    BY <2>2, <2>3 DEF BashInv
<1>2. CASE Bash!Tick
  <2>1. UNCHANGED <<procs, toolCalls, viewers, toolCache, slain>> /\ clock' = clock + 1
    BY <1>2 DEF Bash!Tick
  <2>2. Bash!BashAssumption' /\ Ascending' /\ ShellsLead' /\ KillsFit'
    BY <2>1 DEF BashInv, Bash!BashAssumption, Ascending, ShellsLead, KillsFit, Begun
  <2>3. ScanFits' /\ AnswersFit'
    BY <2>1 DEF BashInv, ScanFits, AnswersFit, Begun, Carries
  <2>5. clock' \in Nat
    BY <2>1 DEF BashInv, BashTypes
  <2>6. BashTypes'
    BY <2>1, <2>5 DEF BashInv, BashTypes
  <2>4. QED
    BY <2>2, <2>3, <2>6 DEF BashInv
<1>3. ASSUME NEW p \in Pids, Bash!Fork(p) \/ Bash!Leave(p) \/ Bash!Forget(p) \/ Bash!Exit(p)
      PROVE  BashInv'
  BY <1>3, ProcessStep
<1>4. ASSUME NEW c \in Commands, NEW max \in MaxOutputs, Bash!Start(c, max) PROVE BashInv'
  BY <1>4, StartStep
<1>5. ASSUME NEW c \in Commands,
             \/ \E max \in MaxOutputs : Bash!StartFails(c, max)
             \/ Bash!Due(c) \/ Bash!Waited(c)
      PROVE  BashInv'
  BY <1>5, QuietCallStep
<1>6. ASSUME NEW c \in Commands,
             Bash!Cancel(c) \/ \E exitCode \in {-1, 0, 1} : Bash!Reap(c, exitCode)
      PROVE  BashInv'
  BY <1>6, EndStep
<1>7. ASSUME NEW c \in Commands, NEW out \in Outputs, NEW more \in {0, 1},
             Bash!Return(c, out, more)
      PROVE  BashInv'
  BY <1>7, ReturnStep
<1>8. ASSUME NEW v \in Viewers,
             \/ Bash!Ask(v) \/ Bash!Answer(v) \/ Bash!AskAgain(v)
             \/ \E p \in Pids : Bash!Inspect(v, p)
      PROVE  BashInv'
  BY <1>8, ViewStep
<1>9. QED
  BY <1>1, <1>2, <1>3, <1>4, <1>5, <1>6, <1>7, <1>8 DEF Bash!Next

\* BashTool, for any commands, processes, viewers and number of forks, exits and
\* scans: a deadline or an interrupt reaches the whole group of a command and is
\* told as such, and what carried the run's mark all through a scan is listed.
THEOREM NobodyHides == Bash!Spec => []NothingHides
<1>1. BashInv => NothingHides
  <2> SUFFICES ASSUME BashInv PROVE Bash!DeadlineKillsTheGroup /\ Bash!ScanFindsSurvivors
    BY DEF NothingHides
  <2>1. Bash!DeadlineKillsTheGroup
    BY DEF BashInv, KillsFit, Bash!DeadlineKillsTheGroup, Bash!Live, Bash!timedOut
  <2>2. Bash!ScanFindsSurvivors
    BY DEF BashInv, ScanFits, Carries, Bash!ScanFindsSurvivors, Bash!Live
  <2>3. QED
    BY <2>1, <2>2
<1>2. Bash!Spec => []BashInv
  BY BashInit, BashStep, ToolAssumption, PTL DEF Bash!Spec
<1>3. QED
  BY <1>1, <1>2, PTL

\* BashTool, for any output and any limit: the answer keeps to the limit, and if
\* the limit has room for it ends with the line that says how the command ended.
THEOREM StatusIsTold == Bash!Spec => []StatusSurvives
<1>1. BashInv => StatusSurvives
  <2> SUFFICES ASSUME BashInv PROVE Bash!StatusSurvives
    BY DEF StatusSurvives
  <2>1. \A s : Len(Bash!Status(s)) = 3
    BY DEF Bash!Status
  <2>2. Len(Bash!Mark) = 2 /\ 2 * 3 + 2 + 1 = 9
    BY DEF Bash!Mark
  <2>3. QED
    BY <2>1, <2>2 DEF BashInv, AnswersFit, Bash!StatusSurvives
<1>2. Bash!Spec => []BashInv
  BY BashInit, BashStep, ToolAssumption, PTL DEF Bash!Spec
<1>3. QED
  BY <1>1, <1>2, PTL

(***************************************************************************)
(* The live feed.  An event of the store, a bulletin a publisher has yet   *)
(* to deliver, a queue, its overflow flag and a request of the page are    *)
(* stages of one way; each step moves the news of a run a stage on.        *)
(***************************************************************************)
CONSTANTS
  Shows, Clients, Dashboards, Workers, StoreDepth, QueueDepth, MaxCommits, MaxNoise,
  MaxBreaks, MaxAnswers
VARIABLES
  version, commits, noise, breaks, storeEvents, storeClosed, lost, worker,
  publishing, stream, epoch, queue, overflow, asks, answers, served, detail

Feed == INSTANCE LiveFeed WITH Runs <- Shows, MaxWrites <- MaxCommits, writes <- commits

\* What the variables hold.
FeedKinds == {"refetch", "payload"}
Bulletin == [kind : FeedKinds, left : SUBSET (Clients \X Nat)]

FeedTypes ==
  /\ storeEvents \in Seq(Shows)
  /\ publishing \in [Feed!Publishers -> {<<>>} \cup Bulletin]
  /\ stream \in [Clients -> {"closed", "registered", "open"}]
  /\ epoch \in [Clients -> Nat] /\ asks \in [Clients -> Nat]
  /\ queue \in [Clients -> Seq(FeedKinds)] /\ overflow \in [Clients -> BOOLEAN]
  /\ version = [r \in Shows |-> version[r]] /\ served = [c \in Clients |-> served[c]]

\* The news of every open stream is on its way.
FeedInv == FeedTypes /\ Feed!NewsIsComing

\* The first and the last of a sequence.
LEMMA Ends ==
  ASSUME NEW S, NEW s \in Seq(S), NEW e \in S
  PROVE  /\ Append(s, e) \in Seq(S)
         /\ \E i \in DOMAIN Append(s, e) : Append(s, e)[i] = e
         /\ \A i \in DOMAIN s : i \in DOMAIN Append(s, e) /\ Append(s, e)[i] = s[i]
         /\ s # <<>> => /\ Head(s) \in S /\ Tail(s) \in Seq(S)
                        /\ \A i \in DOMAIN s : s[i] = Head(s)
                             \/ \E j \in DOMAIN Tail(s) : Tail(s)[j] = s[i]
<1>1. /\ Append(s, e) \in Seq(S)
      /\ \A i \in DOMAIN s : i \in DOMAIN Append(s, e) /\ Append(s, e)[i] = s[i]
  OBVIOUS
<1>2. Len(s) + 1 \in DOMAIN Append(s, e) /\ Append(s, e)[Len(s) + 1] = e
  OBVIOUS
<1>3. ASSUME s # <<>>
      PROVE  /\ Head(s) \in S /\ Tail(s) \in Seq(S)
             /\ \A i \in DOMAIN s : s[i] = Head(s)
                  \/ \E j \in DOMAIN Tail(s) : Tail(s)[j] = s[i]
  <2>1. Head(s) \in S /\ Tail(s) \in Seq(S) /\ Len(s) >= 1 /\ Head(s) = s[1]
    BY <1>3
  <2>2. ASSUME NEW i \in DOMAIN s, i # 1
        PROVE  i - 1 \in DOMAIN Tail(s) /\ Tail(s)[i - 1] = s[i]
    BY <1>3, <2>2
  <2>3. QED
    BY <2>1, <2>2
<1>4. QED
  BY <1>1, <1>2, <1>3

\* When neither what was read nor what is there changes, and no news is dropped,
\* what was told stays told.
LEMMA FeedStands ==
  ASSUME Feed!NewsIsComing, UNCHANGED <<version, served, lost, storeEvents>>,
         \A c \in Clients : stream'[c] = "open" =>
           (stream[c] = "open" /\ (Feed!Due(c) => Feed!Due(c)')) \/ Feed!Due(c)'
  PROVE  Feed!NewsIsComing'
<1>1. ASSUME NEW c \in Clients, stream'[c] = "open", NEW r \in Feed!Shown(c) \ lost, ~Feed!Due(c)'
      PROVE  \/ served[c] # <<>> /\ served[c][r] = version[r]
             \/ \E i \in DOMAIN storeEvents : storeEvents[i] = r
  BY <1>1 DEF Feed!NewsIsComing, Feed!None
<1>2. QED
  BY <1>1 DEF Feed!NewsIsComing, Feed!None, Feed!Shown

\* A commit, and the end of the store.
LEMMA StoreStep ==
  ASSUME FeedInv, (\E r \in Shows : Feed!Commit(r)) \/ Feed!CloseStore
  PROVE  FeedInv'
<1>1. CASE Feed!CloseStore
  <2>1. /\ UNCHANGED <<version, storeEvents, lost, publishing, stream, epoch, queue, overflow,
                       asks, served>>
    BY <1>1 DEF Feed!CloseStore, Feed!conn, Feed!page
  <2>2. FeedTypes'
    BY <2>1 DEF FeedInv, FeedTypes
  <2>3. \A c \in Clients : Feed!Due(c) => Feed!Due(c)'
    BY <2>1 DEF Feed!Due
  <2>4. QED
    BY <2>1, <2>2, <2>3, FeedStands DEF FeedInv
<1>2. ASSUME NEW r \in Shows, Feed!Commit(r) PROVE FeedInv'
  <2>1. /\ UNCHANGED <<publishing, stream, epoch, queue, overflow, asks, served>>
        /\ version' = [version EXCEPT ![r] = @ + 1]
        /\ \/ lost' = lost \cup {r} /\ storeEvents' = storeEvents
           \/ lost' = lost \ {r} /\ storeEvents' = Append(storeEvents, r)
    BY <1>2 DEF Feed!Commit, Feed!conn, Feed!page, Feed!emit
  <2>2. storeEvents \in Seq(Shows)
    BY DEF FeedInv, FeedTypes
  <2>3. FeedTypes'
    <3>1. storeEvents' \in Seq(Shows)
      BY <2>1, <2>2, Ends
    <3>2. version' = [q \in Shows |-> version'[q]]
      BY <2>1 DEF FeedInv, FeedTypes
    <3>3. QED
      BY <2>1, <3>1, <3>2 DEF FeedInv, FeedTypes
  <2>4. ASSUME NEW c \in Clients, stream'[c] = "open", NEW q \in Feed!Shown(c) \ lost'
        PROVE  \/ served'[c] # <<>> /\ served'[c][q] = version'[q]
               \/ \E i \in DOMAIN storeEvents' : storeEvents'[i] = q
               \/ Feed!Due(c)'
    <3>1. CASE q = r
      BY <2>1, <2>2, <2>4, <3>1, Ends
    <3>2. CASE q # r
      <4>1. q \notin lost /\ q \in Feed!Shown(c)
        BY <2>1, <2>4, <3>2
      <4>2. \/ served[c] # <<>> /\ served[c][q] = version[q]
            \/ \E i \in DOMAIN storeEvents : storeEvents[i] = q
            \/ Feed!Due(c)
        BY <2>1, <2>4, <4>1 DEF FeedInv, Feed!NewsIsComing, Feed!None
      <4>3. version'[q] = version[q]
        <5>1. (CHOOSE x \in Shows : TRUE) \in Shows
          OBVIOUS
        <5>2. q \in Shows
          BY <4>1, <5>1 DEF Feed!Shown
        <5>3. QED
          BY <2>1, <3>2, <5>2 DEF FeedInv, FeedTypes
      <4>4. Feed!Due(c) => Feed!Due(c)'
        BY <2>1 DEF Feed!Due
      <4>5. (\E i \in DOMAIN storeEvents : storeEvents[i] = q)
              => \E i \in DOMAIN storeEvents' : storeEvents'[i] = q
        BY <2>1, <2>2, Ends
      <4>6. QED
        BY <2>1, <4>2, <4>3, <4>4, <4>5
    <3>3. QED
      BY <3>1, <3>2
  <2>5. QED
    BY <2>3, <2>4 DEF FeedInv, Feed!NewsIsComing, Feed!None, Feed!Shown
<1>3. QED
  BY <1>1, <1>2

\* A bulletin with somebody left is one.
LEMMA Bulletins ==
  ASSUME NEW kind \in FeedKinds, NEW left \in SUBSET (Clients \X Nat)
  PROVE  /\ Feed!toDeliver(kind, left) \in {<<>>} \cup Bulletin
         /\ \A t \in left : /\ Feed!toDeliver(kind, left) # <<>>
                           /\ Feed!toDeliver(kind, left).kind = kind
                           /\ Feed!toDeliver(kind, left).left = left
<1>1. PICK news : news = [kind |-> kind, left |-> left]
  OBVIOUS
<1>2. news \in Bulletin /\ news.kind = kind /\ news.left = left /\ "kind" \in DOMAIN news
  BY <1>1 DEF Bulletin
<1>3. news # <<>>
  <2>1. "kind" \notin DOMAIN <<>>
    OBVIOUS
  <2>2. QED
    BY <1>2, <2>1
<1>4. Feed!toDeliver(kind, left) = IF left = {} THEN <<>> ELSE news
  BY <1>1 DEF Feed!toDeliver, Feed!None
<1>5. QED
  BY <1>2, <1>3, <1>4

\* Bus.Publish, first half: nobody whose stream is open and shows the run is
\* left out, and nothing that another publisher has to deliver is lost.
LEMMA Published ==
  ASSUME FeedInv, NEW p \in Feed!Publishers, NEW kind \in FeedKinds, NEW r,
         Feed!publish(p, Feed!Event(kind, r)),
         UNCHANGED <<stream, epoch, queue, overflow, asks>>
  PROVE  /\ publishing' \in [Feed!Publishers -> {<<>>} \cup Bulletin]
         /\ \A c \in Clients :
              /\ Feed!Due(c) => Feed!Due(c)'
              /\ kind = "refetch" /\ stream[c] = "open" /\ (r = "" \/ r \in Feed!Shown(c))
                   => Feed!Due(c)'
<1>0. /\ publishing \in [Feed!Publishers -> {<<>>} \cup Bulletin] /\ epoch \in [Clients -> Nat]
  BY DEF FeedInv, FeedTypes
<1>1. PICK left \in SUBSET (Clients \X Nat) :
        left = {<<c, epoch[c]>> : c \in {x \in Clients : stream[x] # "closed"
                                            /\ (r = "" \/ r \in Feed!Shown(x))}}
  <2>1. \A c \in Clients : <<c, epoch[c]>> \in Clients \X Nat
    BY <1>0
  <2>2. QED
    BY <2>1
<1>2. PICK news \in {<<>>} \cup Bulletin :
        /\ news = Feed!toDeliver(kind, left)
        /\ \A t \in left : news # <<>> /\ news.kind = kind /\ news.left = left
  BY Bulletins
<1>3. publishing[p] = <<>> /\ publishing' = [publishing EXCEPT ![p] = news]
  <2>1. PICK ev : ev = [kind |-> kind, run |-> r]
    OBVIOUS
  <2>2. Feed!Event(kind, r) = ev /\ ev.kind = kind /\ ev.run = r
    BY <2>1 DEF Feed!Event
  <2>3. left = Feed!Targets(r)
    BY <1>1 DEF Feed!Targets
  <2>4. QED
    BY <1>2, <2>1, <2>2, <2>3 DEF Feed!publish, Feed!None
<1>4. publishing'[p] = news /\ \A q \in Feed!Publishers : q # p => publishing'[q] = publishing[q]
  BY <1>0, <1>3
<1>5. ASSUME NEW c \in Clients, Feed!Due(c) PROVE Feed!Due(c)'
  BY <1>3, <1>4, <1>5 DEF Feed!Due, Feed!None
<1>6. ASSUME NEW c \in Clients, kind = "refetch", stream[c] = "open", r = "" \/ r \in Feed!Shown(c)
      PROVE  Feed!Due(c)'
  <2>1. <<c, epoch[c]>> \in left
    BY <1>1, <1>6
  <2>2. news # <<>> /\ news.kind = "refetch" /\ <<c, epoch'[c]>> \in news.left
    BY <1>2, <1>6, <2>1
  <2>3. QED
    BY <1>4, <2>2 DEF Feed!Due, Feed!None
<1>7. QED
  BY <1>0, <1>3, <1>5, <1>6

\* The bridge, an ephemeral agent that starts or ends, and noise.
LEMMA PublishStart ==
  ASSUME FeedInv, Feed!BridgeTakes \/ (\E w \in Workers : Feed!WorkerChanges(w)) \/ Feed!Noise
  PROVE  FeedInv'
<1>1. CASE Feed!BridgeTakes
  <2>1. PICK r : r = Head(storeEvents)
    OBVIOUS
  <2>2. /\ UNCHANGED <<version, lost, stream, epoch, queue, overflow, asks, served>>
        /\ storeEvents # <<>> /\ storeEvents' = Tail(storeEvents)
        /\ Feed!publish("bridge", Feed!Event("refetch", r))
    BY <1>1, <2>1 DEF Feed!BridgeTakes, Feed!conn, Feed!page
  <2>3. storeEvents \in Seq(Shows)
    BY DEF FeedInv, FeedTypes
  <2>4. /\ storeEvents' \in Seq(Shows) /\ r \in Shows
        /\ \A i \in DOMAIN storeEvents :
             storeEvents[i] = r \/ \E j \in DOMAIN storeEvents' : storeEvents'[j] = storeEvents[i]
    BY <2>1, <2>2, <2>3, Ends
  <2>5. /\ publishing' \in [Feed!Publishers -> {<<>>} \cup Bulletin]
        /\ \A c \in Clients :
             /\ Feed!Due(c) => Feed!Due(c)'
             /\ stream[c] = "open" /\ r \in Feed!Shown(c) => Feed!Due(c)'
    <3>1. "bridge" \in Feed!Publishers /\ "refetch" \in FeedKinds
      BY DEF Feed!Publishers, FeedKinds
    <3>2. QED
      BY <2>2, <3>1, Published
  <2>6. FeedTypes'
    BY <2>2, <2>4, <2>5 DEF FeedInv, FeedTypes
  <2>7. ASSUME NEW c \in Clients, stream[c] = "open", NEW q \in Feed!Shown(c) \ lost
        PROVE  \/ served[c] # <<>> /\ served[c][q] = version[q]
               \/ \E i \in DOMAIN storeEvents' : storeEvents'[i] = q
               \/ Feed!Due(c)'
    <3>1. \/ served[c] # <<>> /\ served[c][q] = version[q]
          \/ \E i \in DOMAIN storeEvents : storeEvents[i] = q
          \/ Feed!Due(c)
      BY <2>7 DEF FeedInv, Feed!NewsIsComing, Feed!None
    <3>2. QED
      BY <2>4, <2>5, <2>7, <3>1
  <2>8. Feed!NewsIsComing'
    BY <2>2, <2>7 DEF Feed!NewsIsComing, Feed!None, Feed!Shown
  <2>9. QED
    BY <2>6, <2>8 DEF FeedInv
<1>2. ASSUME NEW w \in Workers, Feed!WorkerChanges(w) PROVE FeedInv'
  <2>1. PICK r : r = Feed!RunOf(w)
    OBVIOUS
  <2>2. /\ UNCHANGED <<lost, storeEvents, stream, epoch, queue, overflow, asks, served>>
        /\ version' = [version EXCEPT ![r] = @ + 1]
        /\ Feed!publish(w, Feed!Event("refetch", r))
    BY <1>2, <2>1 DEF Feed!WorkerChanges, Feed!conn, Feed!page
  <2>3. /\ publishing' \in [Feed!Publishers -> {<<>>} \cup Bulletin]
        /\ \A c \in Clients : stream[c] = "open" /\ r \in Feed!Shown(c) => Feed!Due(c)'
    <3>1. w \in Feed!Publishers /\ "refetch" \in FeedKinds
      BY DEF Feed!Publishers, FeedKinds
    <3>2. QED
      BY <2>2, <3>1, Published
  <2>4. version' = [q \in Shows |-> version'[q]]
    BY <2>2 DEF FeedInv, FeedTypes
  <2>5. FeedTypes'
    BY <2>2, <2>3, <2>4 DEF FeedInv, FeedTypes
  <2>6. \A c \in Clients : \A q \in Feed!Shown(c) : r \in Feed!Shown(c)
    <3>1. \A q \in Shows : (CHOOSE x \in Shows : TRUE) \in Shows
      OBVIOUS
    <3>2. r = CHOOSE x \in Shows : TRUE
      BY <2>1 DEF Feed!RunOf
    <3>3. QED
      BY <3>1, <3>2 DEF Feed!Shown
  <2>7. \A c \in Clients : stream'[c] = "open" => \A q \in Feed!Shown(c) : Feed!Due(c)'
    BY <2>2, <2>3, <2>6
  <2>8. Feed!NewsIsComing'
    BY <2>7 DEF Feed!NewsIsComing, Feed!Shown
  <2>9. QED
    BY <2>5, <2>8 DEF FeedInv
<1>3. CASE Feed!Noise
  <2>1. /\ UNCHANGED <<version, lost, storeEvents, stream, epoch, queue, overflow, asks, served>>
        /\ \E r \in Shows \cup {""} : Feed!publish("noise", Feed!Event("payload", r))
    BY <1>3 DEF Feed!Noise, Feed!conn, Feed!page
  <2>2. /\ publishing' \in [Feed!Publishers -> {<<>>} \cup Bulletin]
        /\ \A c \in Clients : Feed!Due(c) => Feed!Due(c)'
    <3>1. "noise" \in Feed!Publishers /\ "payload" \in FeedKinds
      BY DEF Feed!Publishers, FeedKinds
    <3>2. QED
      BY <2>1, <3>1, Published
  <2>3. FeedTypes'
    BY <2>1, <2>2 DEF FeedInv, FeedTypes
  <2>4. QED
    BY <2>1, <2>2, <2>3, FeedStands DEF FeedInv
<1>4. QED
  BY <1>1, <1>2, <1>3

\* Subscription.deliver: what is delivered is queued or flagged, and stays due
\* until it is.
LEMMA DeliverStep ==
  ASSUME FeedInv, NEW p \in Feed!Publishers, Feed!PublishStep(p)
  PROVE  FeedInv'
<1>0. /\ publishing \in [Feed!Publishers -> {<<>>} \cup Bulletin] /\ epoch \in [Clients -> Nat]
      /\ queue \in [Clients -> Seq(FeedKinds)] /\ overflow \in [Clients -> BOOLEAN]
  BY DEF FeedInv, FeedTypes
<1>1. UNCHANGED <<version, lost, storeEvents, stream, epoch, asks, served>> /\ publishing[p] # <<>>
  BY DEF Feed!PublishStep, Feed!feed, Feed!page, Feed!None
<1>2. PICK kind \in FeedKinds, left \in SUBSET (Clients \X Nat) :
        kind = publishing[p].kind /\ left = publishing[p].left
  BY <1>0, <1>1 DEF Bulletin
<1>3. PICK t \in left :
        /\ publishing' = [publishing EXCEPT ![p] = Feed!toDeliver(kind, publishing[p].left \ {t})]
        /\ IF stream[t[1]] # "closed" /\ epoch[t[1]] = t[2]
           THEN Feed!deliver(t[1], kind) ELSE UNCHANGED <<queue, overflow>>
  BY <1>2 DEF Feed!PublishStep
<1>4. PICK d \in Clients, e \in Nat : t = <<d, e>> /\ t[1] = d /\ t[2] = e
  BY <1>2
<1>12. PICK rest \in SUBSET (Clients \X Nat) : rest = left \ {t}
  OBVIOUS
<1>5. PICK news \in {<<>>} \cup Bulletin :
        /\ news = Feed!toDeliver(kind, rest)
        /\ \A u \in rest : news # <<>> /\ news.kind = kind /\ news.left = rest
  BY Bulletins
<1>6. /\ publishing' \in [Feed!Publishers -> {<<>>} \cup Bulletin] /\ publishing'[p] = news
      /\ \A q \in Feed!Publishers : q # p => publishing'[q] = publishing[q]
  BY <1>0, <1>2, <1>3, <1>5, <1>12
<1>7. /\ queue' \in [Clients -> Seq(FeedKinds)] /\ overflow' \in [Clients -> BOOLEAN]
      /\ \A c \in Clients :
           /\ (\E i \in DOMAIN queue[c] : queue[c][i] = "refetch")
                => \E i \in DOMAIN queue'[c] : queue'[c][i] = "refetch"
           /\ overflow[c] => overflow'[c]
      /\ stream[d] # "closed" /\ epoch[d] = e /\ kind = "refetch" =>
           overflow'[d] \/ \E i \in DOMAIN queue'[d] : queue'[d][i] = "refetch"
  <2>1. CASE stream[d] # "closed" /\ epoch[d] = e /\ Len(queue[d]) < QueueDepth
    <3>1. queue' = [queue EXCEPT ![d] = Append(queue[d], kind)] /\ overflow' = overflow
      BY <1>3, <1>4, <2>1 DEF Feed!deliver
    <3>2. queue[d] \in Seq(FeedKinds)
      BY <1>0
    <3>3. PICK more \in Seq(FeedKinds) : more = Append(queue[d], kind)
      BY <3>2, Ends
    <3>4. /\ \E i \in DOMAIN more : more[i] = kind
          /\ \A i \in DOMAIN queue[d] : i \in DOMAIN more /\ more[i] = queue[d][i]
      BY <3>2, <3>3, Ends
    <3>5. /\ queue' \in [Clients -> Seq(FeedKinds)] /\ queue'[d] = more
          /\ \A c \in Clients : c # d => queue'[c] = queue[c]
      BY <1>0, <3>1, <3>3
    <3>6. QED
      BY <1>0, <3>1, <3>4, <3>5
  <2>2. CASE stream[d] # "closed" /\ epoch[d] = e /\ ~(Len(queue[d]) < QueueDepth)
    <3>1. queue' = queue /\ overflow' = [overflow EXCEPT ![d] = TRUE]
      BY <1>3, <1>4, <2>2 DEF Feed!deliver
    <3>2. QED
      BY <1>0, <3>1
  <2>3. CASE ~(stream[d] # "closed" /\ epoch[d] = e)
    BY <1>0, <1>3, <1>4, <2>3
  <2>4. QED
    BY <2>1, <2>2, <2>3
<1>8. FeedTypes'
  BY <1>1, <1>6, <1>7 DEF FeedInv, FeedTypes
<1>9. ASSUME NEW c \in Clients, stream[c] = "open", Feed!Due(c) PROVE Feed!Due(c)'
  <2>1. CASE \E q \in Feed!Publishers :
               q # p /\ publishing[q] # <<>> /\ publishing[q].kind = "refetch"
                 /\ <<c, epoch[c]>> \in publishing[q].left
    BY <1>1, <1>6, <2>1 DEF Feed!Due, Feed!None
  <2>2. CASE kind = "refetch" /\ <<c, epoch[c]>> \in left
    <3>1. CASE <<c, epoch[c]>> = t
      <4>1. c = d /\ epoch[d] = e
        BY <1>4, <3>1
      <4>2. QED
        BY <1>7, <1>9, <2>2, <4>1 DEF Feed!Due
    <3>2. CASE <<c, epoch[c]>> # t
      <4>1. news # <<>> /\ news.kind = "refetch" /\ <<c, epoch'[c]>> \in news.left
        <5>1. <<c, epoch[c]>> \in rest /\ epoch' = epoch
          BY <1>1, <1>12, <2>2, <3>2
        <5>2. QED
          BY <1>5, <2>2, <5>1
      <4>2. QED
        BY <1>6, <4>1 DEF Feed!Due, Feed!None
    <3>3. QED
      BY <3>1, <3>2
  <2>3. CASE (\E i \in DOMAIN queue[c] : queue[c][i] = "refetch") \/ overflow[c] \/ asks[c] > 0
    BY <1>1, <1>7, <2>3 DEF Feed!Due
  <2>4. QED
    BY <1>2, <1>9, <2>1, <2>2, <2>3 DEF Feed!Due, Feed!None
<1>10. Feed!NewsIsComing'
  BY <1>1, <1>9, FeedStands DEF FeedInv
<1>11. QED
  BY <1>8, <1>10 DEF FeedInv

\* Server.stream: connecting, priming, writing, ticking and breaking off.
LEMMA StreamStep ==
  ASSUME FeedInv, NEW c \in Clients,
         Feed!Connect(c) \/ Feed!Prime(c) \/ Feed!StreamEvent(c) \/ Feed!StreamTick(c)
           \/ Feed!Break(c)
  PROVE  FeedInv'
<1>0. /\ stream \in [Clients -> {"closed", "registered", "open"}] /\ epoch \in [Clients -> Nat]
      /\ queue \in [Clients -> Seq(FeedKinds)] /\ overflow \in [Clients -> BOOLEAN]
      /\ asks \in [Clients -> Nat]
  BY DEF FeedInv, FeedTypes
<1>1. UNCHANGED <<version, lost, storeEvents, publishing, served>>
  BY DEF Feed!Connect, Feed!Prime, Feed!StreamEvent, Feed!StreamTick, Feed!Break, Feed!feed, Feed!page
<1>2. CASE Feed!Connect(c) \/ Feed!Break(c)
  <2>1. PICK to \in {"closed", "registered"} : stream' = [stream EXCEPT ![c] = to]
    BY <1>2 DEF Feed!Connect, Feed!Break
  <2>2. PICK next \in [Clients -> Nat] :
          epoch' = next /\ \A d \in Clients : d # c => next[d] = epoch[d]
    <3>1. epoch' = epoch \/ epoch' = [epoch EXCEPT ![c] = epoch[c] + 1]
      BY <1>2 DEF Feed!Connect, Feed!Break
    <3>2. QED
      BY <1>0, <3>1
  <2>3. /\ queue' = [queue EXCEPT ![c] = <<>>] /\ overflow' = [overflow EXCEPT ![c] = FALSE]
        /\ asks' = asks
    BY <1>2 DEF Feed!Connect, Feed!Break, Feed!page
  <2>4. FeedTypes'
    BY <1>0, <1>1, <2>1, <2>2, <2>3 DEF FeedInv, FeedTypes
  <2>5. ASSUME NEW d \in Clients, stream'[d] = "open"
        PROVE  stream[d] = "open" /\ (Feed!Due(d) => Feed!Due(d)')
    <3>1. d # c /\ stream[d] = "open"
      BY <1>0, <2>1, <2>5
    <3>2. /\ queue'[d] = queue[d] /\ overflow'[d] = overflow[d] /\ asks'[d] = asks[d]
          /\ epoch'[d] = epoch[d]
      BY <1>0, <2>2, <2>3, <3>1
    <3>3. QED
      BY <1>1, <3>1, <3>2 DEF Feed!Due
  <2>6. QED
    BY <1>1, <2>4, <2>5, FeedStands DEF FeedInv
<1>3. CASE Feed!Prime(c)
  <2>1. /\ stream' = [stream EXCEPT ![c] = "open"]
        /\ queue' = [queue EXCEPT ![c] = Append(queue[c], "refetch")]
        /\ UNCHANGED <<epoch, overflow, asks>>
    BY <1>3 DEF Feed!Prime, Feed!RefetchAll, Feed!page
  <2>2. "refetch" \in FeedKinds /\ queue[c] \in Seq(FeedKinds)
    BY <1>0 DEF FeedKinds
  <2>3. PICK more \in Seq(FeedKinds) : more = Append(queue[c], "refetch")
    BY <2>2, Ends
  <2>4. \E i \in DOMAIN more : more[i] = "refetch"
    BY <2>2, <2>3, Ends
  <2>5. /\ queue' \in [Clients -> Seq(FeedKinds)] /\ queue'[c] = more
        /\ stream' \in [Clients -> {"closed", "registered", "open"}]
        /\ \A d \in Clients : d # c => queue'[d] = queue[d] /\ stream'[d] = stream[d]
    BY <1>0, <2>1, <2>3
  <2>6. FeedTypes'
    BY <1>1, <2>1, <2>5 DEF FeedInv, FeedTypes
  <2>7. ASSUME NEW d \in Clients, stream'[d] = "open"
        PROVE  (stream[d] = "open" /\ (Feed!Due(d) => Feed!Due(d)')) \/ Feed!Due(d)'
    <3>1. CASE d = c
      BY <2>4, <2>5, <3>1 DEF Feed!Due
    <3>2. CASE d # c
      BY <1>1, <2>1, <2>5, <2>7, <3>2 DEF Feed!Due
    <3>3. QED
      BY <3>1, <3>2
  <2>8. QED
    BY <1>1, <2>6, <2>7, FeedStands DEF FeedInv
<1>4. CASE Feed!StreamEvent(c)
  <2>1. PICK first : first = Head(queue[c])
    OBVIOUS
  <2>2. /\ queue[c] # <<>> /\ queue' = [queue EXCEPT ![c] = Tail(queue[c])]
        /\ asks' = [asks EXCEPT ![c] = IF first = "refetch" THEN asks[c] + 1 ELSE asks[c]]
        /\ UNCHANGED <<stream, epoch, overflow>>
    BY <1>4, <2>1 DEF Feed!StreamEvent, Feed!receives
  <2>3. queue[c] \in Seq(FeedKinds) /\ asks[c] \in Nat
    BY <1>0
  <2>4. PICK fewer \in Seq(FeedKinds) :
          /\ fewer = Tail(queue[c])
          /\ \A i \in DOMAIN queue[c] :
               queue[c][i] = first \/ \E j \in DOMAIN fewer : fewer[j] = queue[c][i]
    <3>1. "refetch" \in FeedKinds
      BY DEF FeedKinds
    <3>2. PICK old \in Seq(FeedKinds) : old = queue[c] /\ old # <<>>
      BY <2>2, <2>3
    <3>3. /\ Tail(old) \in Seq(FeedKinds)
          /\ \A i \in DOMAIN old : old[i] = Head(old) \/ \E j \in DOMAIN Tail(old) : Tail(old)[j] = old[i]
      BY <3>1, <3>2, Ends
    <3>4. first = Head(old)
      BY <2>1, <3>2
    <3>5. QED
      BY <3>2, <3>3, <3>4
  <2>5. PICK asked \in Nat :
          /\ asked = IF first = "refetch" THEN asks[c] + 1 ELSE asks[c]
          /\ asks[c] > 0 \/ first = "refetch" => asked > 0
    BY <2>3
  <2>6. /\ queue' \in [Clients -> Seq(FeedKinds)] /\ queue'[c] = fewer
        /\ asks' \in [Clients -> Nat] /\ asks'[c] = asked
        /\ \A d \in Clients : d # c => queue'[d] = queue[d] /\ asks'[d] = asks[d]
    BY <1>0, <2>2, <2>4, <2>5
  <2>7. FeedTypes'
    BY <1>1, <2>2, <2>6 DEF FeedInv, FeedTypes
  <2>8. ASSUME NEW d \in Clients, Feed!Due(d) PROVE Feed!Due(d)'
    <3>1. CASE d # c
      BY <1>1, <2>2, <2>6, <2>8, <3>1 DEF Feed!Due
    <3>2. CASE d = c /\ \E i \in DOMAIN queue[c] : queue[c][i] = "refetch"
      BY <2>4, <2>5, <2>6, <3>2 DEF Feed!Due
    <3>3. CASE d = c /\ (overflow[c] \/ asks[c] > 0)
      BY <2>2, <2>5, <2>6, <3>3 DEF Feed!Due
    <3>4. CASE d = c /\ \E p \in Feed!Publishers :
                 /\ publishing[p] # <<>> /\ publishing[p].kind = "refetch"
                 /\ <<c, epoch[c]>> \in publishing[p].left
      BY <1>1, <2>2, <3>4 DEF Feed!Due, Feed!None
    <3>5. QED
      BY <2>8, <3>1, <3>2, <3>3, <3>4 DEF Feed!Due, Feed!None
  <2>9. QED
    BY <1>1, <2>2, <2>7, <2>8, FeedStands DEF FeedInv
<1>5. CASE Feed!StreamTick(c)
  <2>1. /\ overflow' = [overflow EXCEPT ![c] = FALSE] /\ asks' = [asks EXCEPT ![c] = asks[c] + 1]
        /\ UNCHANGED <<stream, epoch, queue>>
    BY <1>5 DEF Feed!StreamTick, Feed!receives, Feed!RefetchAll
  <2>2. PICK asked \in Nat : asked = asks[c] + 1 /\ asked > 0
    BY <1>0
  <2>3. /\ overflow' \in [Clients -> BOOLEAN] /\ asks' \in [Clients -> Nat] /\ asks'[c] = asked
        /\ \A d \in Clients : d # c => overflow'[d] = overflow[d] /\ asks'[d] = asks[d]
    BY <1>0, <2>1, <2>2
  <2>4. FeedTypes'
    BY <1>1, <2>1, <2>3 DEF FeedInv, FeedTypes
  <2>5. ASSUME NEW d \in Clients, Feed!Due(d) PROVE Feed!Due(d)'
    <3>1. CASE d = c
      BY <2>2, <2>3, <3>1 DEF Feed!Due
    <3>2. CASE d # c
      BY <1>1, <2>1, <2>3, <2>5, <3>2 DEF Feed!Due
    <3>3. QED
      BY <3>1, <3>2
  <2>6. QED
    BY <1>1, <2>1, <2>4, <2>5, FeedStands DEF FeedInv
<1>6. QED
  BY <1>2, <1>3, <1>4, <1>5

\* RunStore.refresh: what is served is what the store holds.
LEMMA PageStep ==
  ASSUME FeedInv, NEW c \in Clients, Feed!Serve(c) \/ Feed!Answer(c)
  PROVE  FeedInv'
<1>0. /\ asks \in [Clients -> Nat] /\ served = [d \in Clients |-> served[d]]
  BY DEF FeedInv, FeedTypes
<1>1. UNCHANGED <<version, lost, storeEvents, publishing, stream, epoch, queue, overflow>>
  BY DEF Feed!Serve, Feed!Answer, Feed!feed, Feed!conn
<1>2. CASE Feed!Answer(c)
  <2>1. UNCHANGED <<asks, served>>
    BY <1>2 DEF Feed!Answer
  <2>2. FeedTypes' /\ \A d \in Clients : Feed!Due(d) => Feed!Due(d)'
    BY <1>1, <2>1 DEF FeedInv, FeedTypes, Feed!Due
  <2>3. QED
    BY <1>1, <2>1, <2>2, FeedStands DEF FeedInv
<1>3. CASE Feed!Serve(c)
  <2>1. PICK row : row = [r \in Feed!Shown(c) |-> version[r]]
    OBVIOUS
  <2>2. /\ asks[c] > 0 /\ asks' = [asks EXCEPT ![c] = asks[c] - 1]
        /\ served' = [served EXCEPT ![c] = row]
    BY <1>3, <2>1 DEF Feed!Serve
  <2>3. /\ asks' \in [Clients -> Nat] /\ served' = [d \in Clients |-> served'[d]]
        /\ served'[c] = row
        /\ \A d \in Clients : d # c => asks'[d] = asks[d] /\ served'[d] = served[d]
    <3>1. asks[c] - 1 \in Nat
      BY <1>0, <2>2
    <3>2. QED
      BY <1>0, <2>2, <3>1
  <2>4. FeedTypes'
    BY <1>1, <2>3 DEF FeedInv, FeedTypes
  <2>5. ASSUME NEW d \in Clients, stream'[d] = "open", NEW r \in Feed!Shown(d) \ lost
        PROVE  \/ served'[d] # <<>> /\ served'[d][r] = version[r]
               \/ \E i \in DOMAIN storeEvents : storeEvents[i] = r
               \/ Feed!Due(d)'
    <3>1. CASE d = c
      <4>1. r \in DOMAIN row /\ row[r] = version[r]
        BY <2>1, <2>5, <3>1
      <4>2. row # <<>>
        <5>1. CASE row = <<>>
          <6>1. DOMAIN row = {} \/ FALSE
            BY <5>1
          <6>2. QED
            BY <4>1, <6>1
        <5>2. QED
          BY <5>1
      <4>3. QED
        BY <2>3, <3>1, <4>1, <4>2
    <3>2. CASE d # c
      <4>1. \/ served[d] # <<>> /\ served[d][r] = version[r]
            \/ \E i \in DOMAIN storeEvents : storeEvents[i] = r
            \/ Feed!Due(d)
        BY <1>1, <2>5 DEF FeedInv, Feed!NewsIsComing, Feed!None
      <4>2. Feed!Due(d) => Feed!Due(d)'
        BY <1>1, <2>3, <3>2 DEF Feed!Due
      <4>3. QED
        BY <2>3, <3>2, <4>1, <4>2
    <3>3. QED
      BY <3>1, <3>2
  <2>6. Feed!NewsIsComing'
    BY <1>1, <2>5 DEF Feed!NewsIsComing, Feed!None, Feed!Shown
  <2>7. QED
    BY <2>4, <2>6 DEF FeedInv
<1>4. QED
  BY <1>2, <1>3

\* LiveFeed, for any runs, pages, dashboards, agents, capacities and numbers of
\* writes, breaks and reads: what an open stream shows is what the store holds, or
\* the news is on its way, however queues overflow and streams break.
THEOREM NewsArrives == Feed!Spec => []Feed!NewsIsComing
<1>1. Feed!Init => FeedInv
  <2> SUFFICES ASSUME Feed!Init PROVE FeedInv
    OBVIOUS
  <2>1. storeEvents \in Seq(Shows) /\ queue \in [Clients -> Seq(FeedKinds)]
    <3>1. <<>> \in Seq(Shows) /\ <<>> \in Seq(FeedKinds)
      OBVIOUS
    <3>2. QED
      BY <3>1 DEF Feed!Init
  <2>2. FeedTypes
    BY <2>1 DEF Feed!Init, FeedTypes, Feed!None
  <2>3. \A c \in Clients : stream[c] # "open"
    BY DEF Feed!Init
  <2>4. QED
    BY <2>2, <2>3 DEF FeedInv, Feed!NewsIsComing
<1>2. FeedInv /\ [Feed!Next]_(Feed!vars) => FeedInv'
  <2> SUFFICES ASSUME FeedInv, [Feed!Next]_(Feed!vars) PROVE FeedInv'
    OBVIOUS
  <2>1. CASE UNCHANGED Feed!vars
    <3>1. UNCHANGED <<version, lost, storeEvents, publishing, stream, epoch, queue, overflow,
                      asks, served>>
      BY <2>1 DEF Feed!vars, Feed!feed, Feed!conn, Feed!page
    <3>2. FeedTypes' /\ \A c \in Clients : Feed!Due(c) => Feed!Due(c)'
      BY <3>1 DEF FeedInv, FeedTypes, Feed!Due
    <3>3. QED
      BY <3>1, <3>2, FeedStands DEF FeedInv
  <2>2. CASE (\E r \in Shows : Feed!Commit(r)) \/ Feed!CloseStore
    BY <2>2, StoreStep
  <2>3. CASE Feed!BridgeTakes \/ (\E w \in Workers : Feed!WorkerChanges(w)) \/ Feed!Noise
    BY <2>3, PublishStart
  <2>4. CASE \E p \in Feed!Publishers : Feed!PublishStep(p)
    BY <2>4, DeliverStep
  <2>5. CASE \E c \in Clients : \/ Feed!Connect(c) \/ Feed!Prime(c) \/ Feed!StreamEvent(c)
                               \/ Feed!StreamTick(c) \/ Feed!Break(c)
    BY <2>5, StreamStep
  <2>6. CASE \E c \in Clients : Feed!Serve(c) \/ Feed!Answer(c)
    BY <2>6, PageStep
  <2>7. QED
    BY <2>1, <2>2, <2>3, <2>4, <2>5, <2>6 DEF Feed!Next
<1>3. FeedInv => Feed!NewsIsComing
  BY DEF FeedInv
<1>4. QED
  BY <1>1, <1>2, <1>3, PTL DEF Feed!Spec

(***************************************************************************)
(* The skill index.  Between an edit of the disk and the next scan nothing *)
(* is said; within a scan, what was merged is what the sources so far are  *)
(* due, and what was read of the next is what its directories hold.  A     *)
(* vector, cached, known, built or served, is of the content it ranks; no  *)
(* name is twice; and a query holds one snapshot until it is answered.     *)
(***************************************************************************)
\* What a scan finds, what an index and the cache keep.
Found == [name : SkillNames, ver : SkillVersions, source : Guide!Roots, dir : Guide!Dirs]
Vectors == {Guide!NoVec} \cup [model : Guide!Models, name : SkillNames, ver : SkillVersions]
Kept == [name : SkillNames, ver : SkillVersions, source : Guide!Roots, dir : Guide!Dirs,
         vec : Vectors]
Snapshots == [built : BOOLEAN, rows : Seq(Kept), pinned : SUBSET SkillNames]

Els(q) == {q[i] : i \in DOMAIN q}
NamesOf(q) == {q[i].name : i \in DOMAIN q}
EachOnce(q) == \A i, j \in DOMAIN q : i # j => q[i].name # q[j].name

GuideTyped ==
  /\ disk \in [Guide!Roots \X Guide!Dirs -> Guide!Guides \cup {Guide!NoGuide}]
  /\ guideConf \in Recall \cup {Guide!Down}
  /\ cache \in [Guide!Models -> SUBSET Kept] /\ guideIndex \in Snapshots
  /\ guidePc \in {"idle", "scan", "embed", "save", "swap"}
  /\ guideAt \in 1..(Len(SkillSources) + 1)
  /\ DOMAIN parsed \subseteq Guide!Dirs
  /\ parsed \in [DOMAIN parsed -> Guide!Guides \cup {Guide!NoGuide}]
  /\ scanned \in Seq(Found) /\ guideKnown \subseteq Kept /\ guideRows \in Seq(Kept)
  /\ moved \in BOOLEAN
  /\ \A m \in Guide!Models : IsFiniteSet(cache[m])

\* A vector is of the content it ranks, by the model in use.
Ranks(m, e) ==
  e.vec = IF m = "lexical" THEN Guide!NoVec ELSE [model |-> m, name |-> e.name, ver |-> e.ver]

VectorsFit ==
  /\ \A m \in Guide!Models : \A e \in cache[m] :
       Ranks(m, e) /\ \A f \in cache[m] : f.name = e.name => f = e
  /\ \A q \in {guideIndex.rows, guideRows} : \A e \in Els(q) : Ranks(guideConf.model, e)
  /\ \A e \in guideKnown : Ranks(guideConf.model, e)

\* No name is twice in what was merged, built and served.
NamesOnce ==
  /\ EachOnce(scanned) /\ EachOnce(guideRows) /\ EachOnce(guideIndex.rows)
  /\ guideIndex.pinned \subseteq NamesOf(guideIndex.rows)

\* The entry that the first k sources give a name, the last of them first.
Leads(s, n, k) ==
  /\ s \in 1..k /\ Guide!Has(SkillSources[s], n)
  /\ \A t \in 1..k : t > s => ~Guide!Has(SkillSources[t], n)
Due(k) == {e \in Found : \E s \in 1..k : Leads(s, e.name, k) /\ e = Guide!Offer(s, e.name)}

\* The rows of Build are the index.
Served == guidePc = "idle" /\ guideIndex.built /\ guideIndex.rows = guideRows

\* How far Build has got: without an edit since its scan began, it holds what is due.
BuildFits ==
  /\ guideConf = Guide!Down =>
       /\ guidePc = "idle" /\ guideIndex = Guide!Empty /\ guideRows = <<>> /\ guideKnown = {}
       /\ guideQuery.pc = "none"
  /\ guidePc \in {"scan", "embed"} => guideRows = <<>>
  /\ guidePc # "idle" /\ guideIndex.built => guideIndex.rows # <<>>
  /\ guidePc = "scan" /\ ~moved =>
       /\ Els(scanned) = Due(guideAt - 1)
       /\ \A d \in DOMAIN parsed : parsed[d] = disk[<<SkillSources[guideAt], d>>]
  /\ guidePc = "embed" /\ ~moved => Els(scanned) = Due(Len(SkillSources))
  /\ (guidePc \in {"save", "swap"} \/ Served) /\ ~moved =>
       {Guide!Plain(e) : e \in Els(guideRows)} = Due(Len(SkillSources))

\* What a query returned is of its snapshot, as Guide!SeedIsOneSnapshot says.
SeedFits(q, s) ==
  q.pc = "done" =>
    LET all == s.pinned \o s.relevant
    IN  /\ {s.pinned[i].entry.name : i \in DOMAIN s.pinned} = q.snap.pinned
        /\ Len(s.relevant) <= SeedLimit
        /\ \A i, j \in DOMAIN all : i # j => all[i].entry.name # all[j].entry.name
        /\ \A i \in DOMAIN all : all[i].vec = all[i].entry.vec

\* An agent ranks one snapshot.
QueryFits ==
  /\ guideQuery = [pc |-> guideQuery.pc, snap |-> guideQuery.snap, task |-> guideQuery.task]
  /\ guideQuery.pc \in {"none", "rank", "done"}
  /\ guideQuery.pc # "none" =>
       /\ guideQuery.snap \in Snapshots /\ EachOnce(guideQuery.snap.rows)
       /\ guideQuery.snap.pinned \subseteq NamesOf(guideQuery.snap.rows)
  /\ SeedFits(guideQuery, seed)

GuideInv ==
  /\ Guide!SkillsAssumption
  /\ GuideTyped /\ VectorsFit /\ NamesOnce /\ BuildFits /\ QueryFits

\* The sources are a sequence of roots.
LEMMA SourcesAre ==
  ASSUME Guide!SkillsAssumption
  PROVE  /\ Len(SkillSources) \in Nat /\ DOMAIN SkillSources = 1..Len(SkillSources)
         /\ \A s \in 1..Len(SkillSources) : SkillSources[s] \in Guide!Roots
<1>1. SkillSources \in Seq(Guide!Roots)
  BY DEF Guide!SkillsAssumption
<1>2. PICK sources \in Seq(Guide!Roots) : sources = SkillSources
  BY <1>1
<1>3. Len(sources) \in Nat /\ DOMAIN sources = 1..Len(sources)
  BY LenProperties
<1>4. \A s \in 1..Len(sources) : sources[s] \in Guide!Roots
  BY ElementOfSeq
<1> QED  BY <1>2, <1>3, <1>4

\* What is read of the source being scanned.
LEMMA EntryFits ==
  ASSUME Guide!SkillsAssumption, GuideTyped, guideAt <= Len(SkillSources),
         DOMAIN parsed = Guide!Dirs, NEW d \in Guide!Dirs, ~Guide!Dropped(d)
  PROVE  /\ Guide!Entry(d) \in Found /\ Guide!Entry(d).name = parsed[d].name
         /\ parsed[d].name \in SkillNames
<1>1. guideAt \in 1..Len(SkillSources)
  BY SourcesAre DEF GuideTyped
<1>2. SkillSources[guideAt] \in Guide!Roots
  BY <1>1, SourcesAre
<1>3. parsed[d] \in Guide!Guides \cup {Guide!NoGuide}
  BY DEF GuideTyped
<1>4. parsed[d].name # 0
  BY DEF Guide!Dropped
<1>5. parsed[d] \in Guide!Guides
  BY <1>3, <1>4 DEF Guide!NoGuide
<1>6. parsed[d].name \in SkillNames /\ parsed[d].ver \in SkillVersions
  BY <1>5 DEF Guide!Guides
<1> QED  BY <1>2, <1>6 DEF Guide!Entry, Found

\* Merging one directory replaces the entry of its name, or appends it.
LEMMA PutFits ==
  ASSUME Guide!SkillsAssumption, GuideTyped, guideAt <= Len(SkillSources),
         DOMAIN parsed = Guide!Dirs, NEW d \in Guide!Dirs,
         NEW es \in Seq(Found), EachOnce(es)
  PROVE  /\ Guide!Put(es, d) \in Seq(Found) /\ EachOnce(Guide!Put(es, d))
         /\ Els(Guide!Put(es, d)) =
              IF Guide!Dropped(d) THEN Els(es)
              ELSE {e \in Els(es) : e.name # parsed[d].name} \cup {Guide!Entry(d)}
<1>1. CASE Guide!Dropped(d)
  BY <1>1 DEF Guide!Put
<1>2. CASE ~Guide!Dropped(d)
  <2>1. PICK e \in Found : e = Guide!Entry(d) /\ e.name = parsed[d].name
    BY <1>2, EntryFits
  <2>2. PICK n \in Nat : n = Len(es) /\ DOMAIN es = 1..n
    BY LenProperties
  <2>3. \A i \in 1..n : es[i] \in Found
    BY <2>2, ElementOfSeq
  <2>4. CASE \E i \in DOMAIN es : es[i].name = e.name
    <3>1. PICK new : new = [i \in DOMAIN es |-> IF es[i].name = e.name THEN e ELSE es[i]]
      OBVIOUS
    <3>2. Guide!Put(es, d) = new
      BY <1>2, <2>1, <2>4, <3>1 DEF Guide!Put
    <3>3. DOMAIN new = 1..n
          /\ \A i \in 1..n : new[i] = IF es[i].name = e.name THEN e ELSE es[i]
      BY <2>2, <3>1
    <3>4. new \in [1..n -> Found]
      BY <2>2, <2>3, <3>1, <3>3
    <3>5. new \in Seq(Found)
      BY <3>4
    <3>6. EachOnce(new)
      BY <2>2, <3>3 DEF EachOnce
    <3>7. Els(new) = {x \in Els(es) : x.name # e.name} \cup {e}
      BY <2>2, <2>4, <3>3 DEF Els
    <3> QED  BY <1>2, <2>1, <3>2, <3>5, <3>6, <3>7
  <2>5. CASE ~ \E i \in DOMAIN es : es[i].name = e.name
    <3>1. PICK new \in Seq(Found) : new = Append(es, e)
      BY AppendProperties
    <3>2. Guide!Put(es, d) = new
      BY <1>2, <2>1, <2>5, <3>1 DEF Guide!Put
    <3>3. /\ DOMAIN new = 1..(n + 1) /\ new[n + 1] = e
          /\ \A i \in 1..n : new[i] = es[i]
      <4>1. /\ Len(new) = n + 1 /\ new[n + 1] = e
            /\ \A i \in 1..n : new[i] = es[i]
        BY <2>2, <3>1, AppendProperties
      <4> QED  BY <4>1, LenProperties
    <3>4. EachOnce(new)
      <4>1. ASSUME NEW i \in 1..(n + 1), NEW j \in 1..(n + 1), i # j
            PROVE  new[i].name # new[j].name
        <5>1. \A x \in 1..(n + 1) : x \in 1..n \/ x = n + 1
          BY <2>2
        <5>2. \A x \in 1..n : x # n + 1 /\ new[x] = es[x] /\ es[x].name # e.name
          BY <2>2, <2>5, <3>3
        <5> QED  BY <2>2, <3>3, <4>1, <5>1, <5>2 DEF EachOnce
      <4> QED  BY <3>3, <4>1 DEF EachOnce
    <3>5. Els(new) = {x \in Els(es) : x.name # e.name} \cup {e}
      <4>1. 1..(n + 1) = 1..n \cup {n + 1}
        BY <2>2
      <4>2. Els(new) = {new[i] : i \in 1..n} \cup {e}
        BY <3>3, <4>1 DEF Els
      <4>3. {new[i] : i \in 1..n} = Els(es)
        BY <2>2, <3>3 DEF Els
      <4>4. Els(es) = {x \in Els(es) : x.name # e.name}
        BY <2>5 DEF Els
      <4> QED  BY <4>2, <4>3, <4>4
    <3> QED  BY <1>2, <2>1, <3>2, <3>4, <3>5
  <2> QED  BY <2>4, <2>5
<1> QED  BY <1>1, <1>2

\* A source has a name exactly when a directory of it is kept that gives it,
\* and the entry of that directory is what the source offers.
LEMMA KeptOffers ==
  ASSUME Guide!SkillsAssumption, GuideTyped, guideAt <= Len(SkillSources),
         DOMAIN parsed = Guide!Dirs,
         \A d \in Guide!Dirs : parsed[d] = disk[<<SkillSources[guideAt], d>>]
  PROVE  /\ \A n \in SkillNames :
              Guide!Has(SkillSources[guideAt], n)
                <=> \E d \in Guide!Dirs : ~Guide!Dropped(d) /\ parsed[d].name = n
         /\ \A d \in Guide!Dirs :
              ~Guide!Dropped(d) => Guide!Entry(d) = Guide!Offer(guideAt, parsed[d].name)
<1>1. PICK s : s = SkillSources[guideAt]
  OBVIOUS
<1>2. PICK a, b : a = parsed["a"] /\ b = parsed["b"]
  OBVIOUS
<1>3. Guide!Dirs = {"a", "b"}
  BY DEF Guide!Dirs
<1>4. disk[<<s, "a">>] = a /\ disk[<<s, "b">>] = b
  BY <1>1, <1>2, <1>3
<1>5. PICK blocked : blocked = guideConf.blocked[s]
  OBVIOUS
<1>6. Guide!Dropped("a") <=> a.name = 0 \/ a.name \in blocked
  BY <1>1, <1>2, <1>5 DEF Guide!Dropped
<1>7. Guide!Dropped("b") <=> b.name = 0 \/ b.name \in blocked \/ a.name = b.name
  BY <1>1, <1>2, <1>5 DEF Guide!Dropped
<1>8. ASSUME NEW n \in SkillNames
      PROVE  Guide!Has(SkillSources[guideAt], n)
               <=> \E d \in Guide!Dirs : ~Guide!Dropped(d) /\ parsed[d].name = n
  <2>1. n # 0
    BY DEF Guide!SkillsAssumption
  <2>2. Guide!Has(SkillSources[guideAt], n) <=> n \notin blocked /\ (a.name = n \/ b.name = n)
    BY <1>1, <1>3, <1>4, <1>5 DEF Guide!Has
  <2>3. (\E d \in Guide!Dirs : ~Guide!Dropped(d) /\ parsed[d].name = n)
          <=> (~Guide!Dropped("a") /\ a.name = n) \/ (~Guide!Dropped("b") /\ b.name = n)
    BY <1>2, <1>3
  <2> QED  BY <1>6, <1>7, <2>1, <2>2, <2>3
<1>9. Guide!Entry("a") = Guide!Offer(guideAt, a.name)
  <2>1. Guide!FirstDir(s, a.name) = "a"
    BY <1>4 DEF Guide!FirstDir
  <2> QED  BY <1>1, <1>2, <1>4, <2>1 DEF Guide!Entry, Guide!Offer
<1>10. ASSUME ~Guide!Dropped("b")
       PROVE  Guide!Entry("b") = Guide!Offer(guideAt, b.name)
  <2>1. Guide!FirstDir(s, b.name) = "b"
    BY <1>4, <1>7, <1>10 DEF Guide!FirstDir
  <2> QED  BY <1>1, <1>2, <1>4, <2>1 DEF Guide!Entry, Guide!Offer
<1> QED  BY <1>2, <1>3, <1>8, <1>9, <1>10

\* One source more: what it offers, and of the others what it does not have.
LEMMA DueGrows ==
  ASSUME Guide!SkillsAssumption, NEW s \in 1..Len(SkillSources)
  PROVE  Due(s) = {e \in Due(s - 1) : ~Guide!Has(SkillSources[s], e.name)}
                    \cup {e \in Found : /\ Guide!Has(SkillSources[s], e.name)
                                        /\ e = Guide!Offer(s, e.name)}
<1>1. s \in Nat /\ s - 1 \in Nat /\ s \in 1..s
  BY SourcesAre
<1>2. ASSUME NEW n PROVE Leads(s, n, s) <=> Guide!Has(SkillSources[s], n)
  BY <1>1 DEF Leads
<1>3. ASSUME NEW n, NEW k, k # s
      PROVE  Leads(k, n, s) <=> Leads(k, n, s - 1) /\ ~Guide!Has(SkillSources[s], n)
  <2>1. k \in 1..s <=> k \in 1..(s - 1)
    BY <1>1, <1>3
  <2>2. \A t : t \in 1..s <=> t = s \/ t \in 1..(s - 1)
    BY <1>1
  <2>3. k \in 1..s => s > k
    BY <1>1, <1>3
  <2> QED  BY <2>1, <2>2, <2>3 DEF Leads
<1>4. \A n, k : Leads(k, n, s) => k \in 1..s
  BY DEF Leads
<1>5. \A n, k : Leads(k, n, s - 1) => k \in 1..(s - 1)
  BY DEF Leads
<1>6. s \notin 1..(s - 1) /\ \A k \in 1..(s - 1) : k \in 1..s /\ k # s
  BY <1>1
<1>7. ASSUME NEW e \in Found
      PROVE  e \in Due(s) <=>
               \/ e \in Due(s - 1) /\ ~Guide!Has(SkillSources[s], e.name)
               \/ Guide!Has(SkillSources[s], e.name) /\ e = Guide!Offer(s, e.name)
  <2>1. PICK n : n = e.name
    OBVIOUS
  <2>2. e \in Due(s) <=> \E k \in 1..s : Leads(k, n, s) /\ e = Guide!Offer(k, n)
    BY <2>1 DEF Due
  <2>3. e \in Due(s - 1) <=> \E k \in 1..(s - 1) : Leads(k, n, s - 1) /\ e = Guide!Offer(k, n)
    BY <2>1 DEF Due
  <2> QED  BY <1>1, <1>2, <1>3, <1>6, <2>1, <2>2, <2>3
<1>8. Due(s) \subseteq Found /\ Due(s - 1) \subseteq Found
  BY DEF Due
<1> QED  BY <1>7, <1>8

\* Nothing is due of no source; what is due of all is what is promised.
LEMMA DueOfNone == Due(0) = {}
BY DEF Due, Leads

LEMMA DueOfAll ==
  ASSUME Guide!SkillsAssumption, GuideTyped
  PROVE  Due(Len(SkillSources)) = Guide!Promised
<1>1. PICK all \in Nat : all = Len(SkillSources) /\ DOMAIN SkillSources = 1..all
  BY SourcesAre
<1>2. ASSUME NEW s \in 1..all, NEW n PROVE Leads(s, n, all) <=> Guide!Wins(s, n)
  BY <1>1 DEF Leads, Guide!Wins
<1>3. ASSUME NEW s \in 1..all, NEW n \in SkillNames, Guide!Has(SkillSources[s], n)
      PROVE  Guide!Offer(s, n) \in Found /\ Guide!Offer(s, n).name = n
  <2>1. PICK r \in Guide!Roots : r = SkillSources[s]
    BY <1>1, SourcesAre
  <2>2. PICK d \in Guide!Dirs : d = Guide!FirstDir(r, n) /\ disk[<<r, d>>].name = n
    BY <1>3, <2>1 DEF Guide!FirstDir, Guide!Has, Guide!Dirs
  <2>3. <<r, d>> \in Guide!Roots \X Guide!Dirs
    OBVIOUS
  <2>4. disk[<<r, d>>] \in Guide!Guides \cup {Guide!NoGuide}
    BY <2>3 DEF GuideTyped
  <2>5. n # 0
    BY DEF Guide!SkillsAssumption
  <2>6. disk[<<r, d>>].ver \in SkillVersions
    BY <2>2, <2>4, <2>5 DEF Guide!Guides, Guide!NoGuide
  <2> QED  BY <2>1, <2>2, <2>6 DEF Guide!Offer, Found
<1>4. ASSUME NEW e PROVE e \in Due(all) <=> e \in Guide!Promised
  <2>1. e \in Due(all) <=>
          e \in Found /\ \E s \in 1..all : Guide!Wins(s, e.name) /\ e = Guide!Offer(s, e.name)
    BY <1>2 DEF Due, Leads
  <2>2. e \in Guide!Promised <=>
          \E s \in 1..all, n \in SkillNames : Guide!Wins(s, n) /\ e = Guide!Offer(s, n)
    <3>1. PICK wins : wins = {p \in (1..all) \X SkillNames : Guide!Wins(p[1], p[2])}
      OBVIOUS
    <3>2. e \in Guide!Promised <=> \E p \in wins : e = Guide!Offer(p[1], p[2])
      BY <1>1, <3>1 DEF Guide!Promised
    <3>3. ASSUME NEW s \in 1..all, NEW n \in SkillNames
          PROVE  <<s, n>> \in wins <=> Guide!Wins(s, n)
      BY <3>1
    <3>4. \A p \in wins : p[1] \in 1..all /\ p[2] \in SkillNames /\ Guide!Wins(p[1], p[2])
      BY <3>1
    <3>5. ASSUME NEW s \in 1..all, NEW n \in SkillNames, Guide!Wins(s, n), e = Guide!Offer(s, n)
          PROVE  e \in Guide!Promised
      <4>1. PICK p : p = <<s, n>> /\ p \in wins
        BY <3>3, <3>5
      <4> QED  BY <3>2, <3>5, <4>1
    <3> QED  BY <3>2, <3>4, <3>5
  <2>3. \A s \in 1..all : \A n : Guide!Wins(s, n) => Guide!Has(SkillSources[s], n)
    BY DEF Guide!Wins
  <2>4. \A f \in Found : f.name \in SkillNames
    BY DEF Found
  <2> QED  BY <1>3, <2>1, <2>2, <2>3, <2>4
<1> QED  BY <1>1, <1>4

\* Merging a source, as it was read, leaves what is due of one source more.
LEMMA MergeFits ==
  ASSUME Guide!SkillsAssumption, GuideTyped, guideAt <= Len(SkillSources),
         DOMAIN parsed = Guide!Dirs, EachOnce(scanned)
  PROVE  LET merged == Guide!Put(Guide!Put(scanned, "a"), "b")
         IN  /\ merged \in Seq(Found) /\ EachOnce(merged)
             /\ /\ Els(scanned) = Due(guideAt - 1)
                /\ \A d \in Guide!Dirs : parsed[d] = disk[<<SkillSources[guideAt], d>>]
                => Els(merged) = Due(guideAt)
<1>1. "a" \in Guide!Dirs /\ "b" \in Guide!Dirs /\ \A d \in Guide!Dirs : d \in {"a", "b"}
  BY DEF Guide!Dirs
<1>2. PICK first \in Seq(Found) :
        /\ first = Guide!Put(scanned, "a") /\ EachOnce(first)
        /\ Els(first) = IF Guide!Dropped("a") THEN Els(scanned)
                        ELSE {e \in Els(scanned) : e.name # parsed["a"].name} \cup {Guide!Entry("a")}
  BY <1>1, PutFits DEF GuideTyped
<1>3. PICK merged \in Seq(Found) :
        /\ merged = Guide!Put(first, "b") /\ EachOnce(merged)
        /\ Els(merged) = IF Guide!Dropped("b") THEN Els(first)
                         ELSE {e \in Els(first) : e.name # parsed["b"].name} \cup {Guide!Entry("b")}
  BY <1>1, <1>2, PutFits
<1>4. ASSUME Els(scanned) = Due(guideAt - 1),
             \A d \in Guide!Dirs : parsed[d] = disk[<<SkillSources[guideAt], d>>]
      PROVE  Els(merged) = Due(guideAt)
  <2>1. PICK A, B, a, b : /\ A = Guide!Entry("a") /\ B = Guide!Entry("b")
                          /\ a = parsed["a"].name /\ b = parsed["b"].name
    OBVIOUS
  <2>2. PICK before : before = Due(guideAt - 1)
    OBVIOUS
  <2>3. /\ ~Guide!Dropped("a") => A \in Found /\ A.name = a
        /\ ~Guide!Dropped("b") => B \in Found /\ B.name = b
    BY <1>1, <2>1, EntryFits
  <2>4. ~Guide!Dropped("b") => a # b
    BY <2>1 DEF Guide!Dropped
  <2>5. ASSUME NEW n \in SkillNames
        PROVE  Guide!Has(SkillSources[guideAt], n)
                 <=> (~Guide!Dropped("a") /\ a = n) \/ (~Guide!Dropped("b") /\ b = n)
    <3>1. Guide!Has(SkillSources[guideAt], n)
            <=> \E d \in Guide!Dirs : ~Guide!Dropped(d) /\ parsed[d].name = n
      BY <1>4, KeptOffers
    <3> QED  BY <1>1, <2>1, <3>1
  <2>6. /\ ~Guide!Dropped("a") => A = Guide!Offer(guideAt, a)
        /\ ~Guide!Dropped("b") => B = Guide!Offer(guideAt, b)
    BY <1>1, <1>4, <2>1, KeptOffers
  <2>7. guideAt \in 1..Len(SkillSources)
    BY SourcesAre DEF GuideTyped
  <2>8. Due(guideAt) = {e \in before : ~Guide!Has(SkillSources[guideAt], e.name)}
                         \cup {e \in Found : /\ Guide!Has(SkillSources[guideAt], e.name)
                                             /\ e = Guide!Offer(guideAt, e.name)}
    BY <2>2, <2>7, DueGrows
  <2>9. before \subseteq Found
    BY <2>2 DEF Due
  <2>10. \A e \in Found : e.name \in SkillNames
    BY DEF Found
  <2>11. Els(first) = IF Guide!Dropped("a") THEN before
                      ELSE {e \in before : e.name # a} \cup {A}
    BY <1>2, <1>4, <2>1, <2>2
  <2>12. Els(merged) = IF Guide!Dropped("b") THEN Els(first)
                       ELSE {e \in Els(first) : e.name # b} \cup {B}
    BY <1>3, <2>1
  <2>13. ASSUME NEW e PROVE e \in Els(merged) <=> e \in Due(guideAt)
    <3>1. CASE e \notin Found
      BY <2>3, <2>8, <2>9, <2>11, <2>12, <3>1
    <3>2. CASE e \in Found
      <4>1. e \in Due(guideAt) <=>
              \/ e \in before /\ ~Guide!Has(SkillSources[guideAt], e.name)
              \/ Guide!Has(SkillSources[guideAt], e.name) /\ e = Guide!Offer(guideAt, e.name)
        BY <2>8, <3>2
      <4>2. e \in Els(merged) <=>
              \/ /\ e \in before
                 /\ Guide!Dropped("a") \/ e.name # a
                 /\ Guide!Dropped("b") \/ e.name # b
              \/ ~Guide!Dropped("a") /\ e = A
              \/ ~Guide!Dropped("b") /\ e = B
        BY <2>3, <2>4, <2>11, <2>12
      <4> QED  BY <2>3, <2>5, <2>6, <2>10, <3>2, <4>1, <4>2
    <3> QED  BY <3>1, <3>2
  <2> QED  BY <2>13
<1> QED  BY <1>2, <1>3, <1>4

\* What is due depends on the disk and the configuration alone.
LEMMA DueStays ==
  ASSUME UNCHANGED <<disk, guideConf>>, NEW k
  PROVE  Due(k)' = Due(k)
BY DEF Due, Leads, Guide!Has, Guide!Offer, Guide!FirstDir

\* The number of a finite set, as the module of the index counts it.
LEMMA GuideCounts ==
  ASSUME NEW S, IsFiniteSet(S)
  PROVE  Guide!Cardinality(S) \in Nat
<1>1. Guide!Cardinality(S) = Cardinality(S)
  BY DEF Guide!Cardinality, Cardinality
<1> QED  BY <1>1, FS_CardinalityType

\* What an agent ranks is its own.
LEMMA QueryStays ==
  ASSUME QueryFits, UNCHANGED <<guideQuery, seed>>
  PROVE  QueryFits'
BY DEF QueryFits

\* The disk moves: what Build holds is not due any more.
LEMMA EditKeeps == GuideInv /\ Guide!Edit => GuideInv'
<1> SUFFICES ASSUME GuideInv, Guide!Edit PROVE GuideInv'
  OBVIOUS
<1> USE DEF GuideInv
<1>1. /\ moved' = TRUE
      /\ UNCHANGED <<guideConf, cache, guideIndex, guidePc, guideAt, parsed, scanned, guideKnown,
                     guideRows, guideQuery, seed>>
  BY DEF Guide!Edit, Guide!scan, Guide!seeding
<1>2. disk' \in [Guide!Roots \X Guide!Dirs -> Guide!Guides \cup {Guide!NoGuide}]
  BY DEF Guide!Edit, GuideTyped
<1>3. GuideTyped'
  BY <1>1, <1>2 DEF GuideTyped
<1>4. VectorsFit' /\ NamesOnce'
  BY <1>1 DEF VectorsFit, NamesOnce
<1>5. BuildFits'
  BY <1>1 DEF BuildFits
<1>6. QueryFits'
  BY <1>1, QueryStays
<1> QED  BY <1>3, <1>4, <1>5, <1>6

\* A directory is read: what is kept of it is what the disk holds.
LEMMA ReadKeeps ==
  ASSUME NEW d \in Guide!Dirs
  PROVE  GuideInv /\ Guide!ReadGuide(d) => GuideInv'
<1> SUFFICES ASSUME GuideInv, Guide!ReadGuide(d) PROVE GuideInv'
  OBVIOUS
<1> USE DEF GuideInv
<1>1. /\ guidePc = "scan" /\ guideAt <= Len(SkillSources)
      /\ parsed' = [x \in DOMAIN parsed \cup {d} |->
                      IF x = d THEN disk[<<SkillSources[guideAt], d>>] ELSE parsed[x]]
      /\ UNCHANGED <<disk, guideConf, cache, guideIndex, guidePc, guideAt, scanned, guideKnown,
                     guideRows, moved, guideQuery, seed>>
  BY DEF Guide!ReadGuide, Guide!disks, Guide!seeding
<1>2. PICK g : g = disk[<<SkillSources[guideAt], d>>]
  OBVIOUS
<1>3. /\ DOMAIN parsed' = DOMAIN parsed \cup {d}
      /\ \A x \in DOMAIN parsed' : parsed'[x] = IF x = d THEN g ELSE parsed[x]
      /\ parsed' = [x \in DOMAIN parsed' |-> parsed'[x]]
  BY <1>1, <1>2
<1>4. g \in Guide!Guides \cup {Guide!NoGuide}
  <2>1. guideAt \in 1..Len(SkillSources)
    BY <1>1, SourcesAre DEF GuideTyped
  <2>2. PICK s \in Guide!Roots : s = SkillSources[guideAt]
    BY <2>1, SourcesAre
  <2>3. <<s, d>> \in Guide!Roots \X Guide!Dirs
    OBVIOUS
  <2> QED  BY <1>2, <2>2, <2>3 DEF GuideTyped
<1>5. /\ DOMAIN parsed' \subseteq Guide!Dirs
      /\ parsed' \in [DOMAIN parsed' -> Guide!Guides \cup {Guide!NoGuide}]
  <2>1. \A x \in DOMAIN parsed : parsed[x] \in Guide!Guides \cup {Guide!NoGuide}
    BY DEF GuideTyped
  <2>2. DOMAIN parsed' \subseteq Guide!Dirs
    BY <1>3 DEF GuideTyped
  <2>3. \A x \in DOMAIN parsed' : parsed'[x] \in Guide!Guides \cup {Guide!NoGuide}
    BY <1>3, <1>4, <2>1
  <2> QED  BY <1>3, <2>2, <2>3
<1>6. GuideTyped'
  BY <1>1, <1>5 DEF GuideTyped
<1>7. VectorsFit' /\ NamesOnce'
  BY <1>1 DEF VectorsFit, NamesOnce
<1>8. BuildFits'
  <2>1. \A k : Due(k)' = Due(k)
    BY <1>1, DueStays
  <2>2. ~moved => \A x \in DOMAIN parsed' : parsed'[x] = disk[<<SkillSources[guideAt], x>>]
    BY <1>1, <1>2, <1>3 DEF BuildFits
  <2>3. ~moved => Els(scanned) = Due(guideAt - 1)
    BY <1>1 DEF BuildFits
  <2>4. ~moved' => Els(scanned)' = Due(guideAt - 1)'
    BY <1>1, <2>1, <2>3 DEF Els
  <2> QED  BY <1>1, <2>2, <2>4 DEF BuildFits, Served
<1>9. QueryFits'
  BY <1>1, QueryStays
<1> QED  BY <1>6, <1>7, <1>8, <1>9

\* A source is merged: what is due of one source more.
LEMMA MergeKeeps == GuideInv /\ Guide!MergeSource => GuideInv'
<1> SUFFICES ASSUME GuideInv, Guide!MergeSource PROVE GuideInv'
  OBVIOUS
<1> USE DEF GuideInv
<1>1. /\ guidePc = "scan" /\ guideAt <= Len(SkillSources) /\ DOMAIN parsed = Guide!Dirs
      /\ scanned' = Guide!Put(Guide!Put(scanned, "a"), "b")
      /\ guideAt' = guideAt + 1 /\ parsed' = Guide!NothingRead
      /\ UNCHANGED <<disk, guideConf, cache, guideIndex, guidePc, guideKnown,
                     guideRows, moved, guideQuery, seed>>
  BY DEF Guide!MergeSource, Guide!disks, Guide!seeding
<1>2. /\ scanned' \in Seq(Found) /\ EachOnce(scanned')
      /\ /\ Els(scanned) = Due(guideAt - 1)
         /\ \A d \in Guide!Dirs : parsed[d] = disk[<<SkillSources[guideAt], d>>]
         => Els(scanned') = Due(guideAt)
  BY <1>1, MergeFits DEF NamesOnce
<1>3. guideAt' \in 1..(Len(SkillSources) + 1) /\ guideAt' - 1 = guideAt
  BY <1>1, SourcesAre DEF GuideTyped
<1>4. DOMAIN parsed' = {} /\ parsed' \in [{} -> Guide!Guides \cup {Guide!NoGuide}]
  BY <1>1 DEF Guide!NothingRead
<1>5. GuideTyped'
  BY <1>1, <1>2, <1>3, <1>4 DEF GuideTyped
<1>6. VectorsFit'
  BY <1>1 DEF VectorsFit
<1>7. NamesOnce'
  BY <1>1, <1>2 DEF NamesOnce
<1>8. BuildFits'
  <2>1. ~moved' => Els(scanned') = Due(guideAt)
    BY <1>1, <1>2 DEF BuildFits
  <2>2. PICK k : k = guideAt
    OBVIOUS
  <2>3. Due(guideAt - 1)' = Due(k)'
    BY <1>3, <2>2 DEF Due, Leads
  <2>4. Due(k)' = Due(k)
    BY <1>1, DueStays
  <2> QED  BY <1>1, <1>4, <2>1, <2>2, <2>3, <2>4 DEF BuildFits, Served
<1>9. QueryFits'
  BY <1>1, QueryStays
<1> QED  BY <1>5, <1>6, <1>7, <1>8, <1>9

\* The cache of the model is loaded: its vectors are of what they rank.
LEMMA LoadKeeps == GuideInv /\ Guide!LoadKnown => GuideInv'
<1> SUFFICES ASSUME GuideInv, Guide!LoadKnown PROVE GuideInv'
  OBVIOUS
<1> USE DEF GuideInv
<1>1. /\ guidePc = "scan" /\ guideAt > Len(SkillSources)
      /\ guideKnown' \in {cache[guideConf.model], {}} /\ guidePc' = "embed"
      /\ UNCHANGED <<disk, guideConf, cache, guideIndex, guideAt, parsed, scanned,
                     guideRows, moved, guideQuery, seed>>
  BY DEF Guide!LoadKnown, Guide!disks, Guide!scan, Guide!seeding
<1>2. guideConf \in Recall /\ guideConf.model \in Guide!Models
  BY <1>1 DEF GuideTyped, BuildFits, Guide!Models
<1>3. /\ guideKnown' \subseteq Kept
      /\ \A e \in guideKnown' : Ranks(guideConf.model, e)
  BY <1>1, <1>2 DEF GuideTyped, VectorsFit
<1>4. guideAt - 1 = Len(SkillSources)
  BY <1>1, SourcesAre DEF GuideTyped
<1>5. GuideTyped'
  BY <1>1, <1>3 DEF GuideTyped
<1>6. VectorsFit'
  BY <1>1, <1>3 DEF VectorsFit
<1>7. NamesOnce'
  BY <1>1 DEF NamesOnce
<1>8. BuildFits'
  <2>1. ~moved => Els(scanned) = Due(Len(SkillSources))
    BY <1>1, <1>4 DEF BuildFits
  <2>2. \A k : Due(k)' = Due(k)
    BY <1>1, DueStays
  <2>3. guideConf # Guide!Down
    BY <1>1 DEF BuildFits
  <2> QED  BY <1>1, <2>1, <2>2, <2>3 DEF BuildFits, Served, Els
<1>9. QueryFits'
  BY <1>1, QueryStays
<1> QED  BY <1>5, <1>6, <1>7, <1>8, <1>9

\* A row is the entry with a vector of its content, embedded or from the cache.
LEMMA RowFits ==
  ASSUME GuideInv, guideConf \in Recall, NEW e \in Found
  PROVE  /\ Guide!Row(e) \in Kept /\ Ranks(guideConf.model, Guide!Row(e))
         /\ Guide!Plain(Guide!Row(e)) = e /\ Guide!Row(e).name = e.name
<1> USE DEF GuideInv
<1>1. PICK m \in Guide!Models : m = guideConf.model
  BY DEF Guide!Models
<1>2. PICK n \in SkillNames, v \in SkillVersions, s \in Guide!Roots, d \in Guide!Dirs :
        e = [name |-> n, ver |-> v, source |-> s, dir |-> d]
  BY DEF Found
<1>3. PICK w : w = IF m = "lexical" \/ Guide!Reuse(e) = {} THEN Guide!Fresh(e)
                   ELSE (CHOOSE k \in Guide!Reuse(e) : TRUE).vec
  OBVIOUS
<1>4. Guide!Row(e) = [name |-> n, ver |-> v, source |-> s, dir |-> d, vec |-> w]
  BY <1>1, <1>2, <1>3 DEF Guide!Row
<1>5. w = IF m = "lexical" THEN Guide!NoVec ELSE [model |-> m, name |-> n, ver |-> v]
  <2>1. Guide!Fresh(e) = IF m = "lexical" THEN Guide!NoVec ELSE [model |-> m, name |-> n, ver |-> v]
    BY <1>1, <1>2 DEF Guide!Fresh
  <2>2. CASE m = "lexical" \/ Guide!Reuse(e) = {}
    BY <1>3, <2>1, <2>2
  <2>3. CASE ~(m = "lexical" \/ Guide!Reuse(e) = {})
    <3>1. PICK k \in Guide!Reuse(e) : w = k.vec
      BY <1>3, <2>3
    <3>2. k \in guideKnown /\ k.name = n /\ k.ver = v
      BY <1>2, <3>1 DEF Guide!Reuse
    <3>3. Ranks(m, k)
      BY <1>1, <3>2 DEF VectorsFit
    <3> QED  BY <2>3, <3>1, <3>2, <3>3 DEF Ranks
  <2> QED  BY <2>2, <2>3
<1>6. w \in Vectors
  BY <1>5 DEF Vectors
<1>7. Guide!Row(e) \in Kept
  BY <1>4, <1>6 DEF Kept
<1>8. Ranks(m, Guide!Row(e))
  BY <1>4, <1>5 DEF Ranks
<1>9. Guide!Plain(Guide!Row(e)) = e /\ Guide!Row(e).name = e.name
  BY <1>2, <1>4 DEF Guide!Plain
<1> QED  BY <1>1, <1>7, <1>8, <1>9

\* The rows of a build are the entries scanned.
LEMMA EmbedKeeps == GuideInv /\ Guide!Embed => GuideInv'
<1> SUFFICES ASSUME GuideInv, Guide!Embed PROVE GuideInv'
  OBVIOUS
<1> USE DEF GuideInv
<1>1. /\ guidePc = "embed" /\ guidePc' = "save"
      /\ guideRows' = [i \in DOMAIN scanned |-> Guide!Row(scanned[i])]
      /\ UNCHANGED <<disk, guideConf, cache, guideIndex, guideAt, parsed, scanned, guideKnown,
                     moved, guideQuery, seed>>
  BY DEF Guide!Embed, Guide!disks, Guide!scan, Guide!seeding
<1>2. guideConf \in Recall /\ guideConf # Guide!Down
  BY <1>1 DEF GuideTyped, BuildFits
<1>3. PICK es \in Seq(Found), k \in Nat :
        es = scanned /\ k = Len(es) /\ DOMAIN es = 1..k /\ \A i \in 1..k : es[i] \in Found
  <2>1. PICK es \in Seq(Found) : es = scanned
    BY DEF GuideTyped
  <2> QED  BY <2>1, LenProperties, ElementOfSeq
<1>4. PICK new : new = guideRows'
  OBVIOUS
<1>5. /\ DOMAIN new = 1..k /\ \A i \in 1..k : new[i] = Guide!Row(es[i])
      /\ new = [i \in 1..k |-> new[i]]
  BY <1>1, <1>3, <1>4
<1>6. \A i \in 1..k : /\ new[i] \in Kept /\ Ranks(guideConf.model, new[i])
                      /\ Guide!Plain(new[i]) = es[i] /\ new[i].name = es[i].name
  BY <1>2, <1>3, <1>5, RowFits
<1>7. new \in Seq(Kept)
  <2>1. new \in [1..k -> Kept]
    BY <1>5, <1>6
  <2> QED  BY <2>1
<1>8. EachOnce(new)
  BY <1>3, <1>5, <1>6 DEF EachOnce, NamesOnce
<1>9. {Guide!Plain(e) : e \in Els(new)} = Els(es)
  <2>1. \A x : x \in Els(new) <=> \E i \in 1..k : x = new[i]
    BY <1>5 DEF Els
  <2>2. \A x : x \in Els(es) <=> \E i \in 1..k : x = es[i]
    BY <1>3 DEF Els
  <2> QED  BY <1>6, <2>1, <2>2
<1>10. GuideTyped'
  BY <1>1, <1>4, <1>7 DEF GuideTyped
<1>11. VectorsFit'
  <2>1. \A e \in Els(new) : Ranks(guideConf.model, e)
    BY <1>5, <1>6 DEF Els
  <2> QED  BY <1>1, <1>4, <2>1 DEF VectorsFit
<1>12. NamesOnce'
  BY <1>1, <1>4, <1>8 DEF NamesOnce
<1>13. BuildFits'
  <2>1. ~moved => Els(es) = Due(Len(SkillSources))
    BY <1>1, <1>3 DEF BuildFits
  <2>2. \A n : Due(n)' = Due(n)
    BY <1>1, DueStays
  <2>3. ~moved => {Guide!Plain(e) : e \in Els(guideRows')} = Due(Len(SkillSources))
    BY <1>4, <1>9, <2>1
  <2> QED  BY <1>1, <1>2, <2>2, <2>3 DEF BuildFits, Served
<1>14. QueryFits'
  BY <1>1, QueryStays
<1> QED  BY <1>10, <1>11, <1>12, <1>13, <1>14

\* A scan begins with nothing, which is due of no source.
LEMMA ScanBegins ==
  ASSUME GuideInv, Guide!NewScan, UNCHANGED <<disk, guideKnown>>,
         guideConf' \in Recall, cache' = cache, guideRows' = <<>>,
         guideIndex' \in Snapshots, guideIndex'.built => guideIndex'.rows # <<>>
  PROVE  GuideTyped' /\ BuildFits' /\ EachOnce(scanned')
<1>1. /\ guidePc' = "scan" /\ guideAt' = 1 /\ scanned' = <<>> /\ moved' = FALSE
      /\ DOMAIN parsed' = {} /\ parsed' \in [{} -> Guide!Guides \cup {Guide!NoGuide}]
  BY DEF Guide!NewScan, Guide!NothingRead
<1>2. 1 \in 1..(Len(SkillSources) + 1)
  BY SourcesAre DEF GuideInv
<1>3. <<>> \in Seq(Found) /\ <<>> \in Seq(Kept) /\ Els(<<>>) = {} /\ EachOnce(<<>>)
  BY DEF Els, EachOnce
<1>4. GuideTyped'
  BY <1>1, <1>2, <1>3 DEF GuideInv, GuideTyped
<1>5. Due(guideAt - 1)' = {}
  BY <1>1 DEF Due, Leads
<1>6. guideConf' # Guide!Down
  BY DEF GuideInv, Guide!SkillsAssumption, Guide!Down
<1>7. BuildFits'
  BY <1>1, <1>3, <1>5, <1>6 DEF BuildFits, Served
<1> QED  BY <1>1, <1>3, <1>4, <1>7

\* The embedder fails: Build begins again, or gives up with what was served.
LEMMA FailKeeps == GuideInv /\ Guide!EmbedFails => GuideInv'
<1> SUFFICES ASSUME GuideInv, Guide!EmbedFails PROVE GuideInv'
  OBVIOUS
<1> USE DEF GuideInv
<1>1. /\ guidePc = "embed"
      /\ UNCHANGED <<disk, guideConf, cache, guideIndex, guideKnown, guideRows, guideQuery, seed>>
  BY DEF Guide!EmbedFails, Guide!disks, Guide!seeding
<1>2. /\ guideConf \in Recall /\ guideConf # Guide!Down /\ guideRows = <<>>
      /\ guideIndex \in Snapshots /\ (guideIndex.built => guideIndex.rows # <<>>)
  BY <1>1 DEF GuideTyped, BuildFits
<1>3. VectorsFit' /\ QueryFits'
  BY <1>1, QueryStays DEF VectorsFit
<1>4. CASE Guide!NewScan
  <2>1. /\ guideConf' \in Recall /\ cache' = cache /\ guideRows' = <<>>
        /\ guideIndex' \in Snapshots /\ (guideIndex'.built => guideIndex'.rows # <<>>)
        /\ UNCHANGED <<disk, guideKnown>>
    BY <1>1, <1>2
  <2>2. GuideTyped' /\ BuildFits' /\ EachOnce(scanned')
    BY <1>4, <2>1, ScanBegins
  <2>3. NamesOnce'
    BY <1>1, <2>2 DEF NamesOnce
  <2> QED  BY <1>3, <2>2, <2>3
<1>5. CASE guidePc' = "idle" /\ UNCHANGED <<guideAt, parsed, scanned, moved>>
  <2>1. GuideTyped' /\ NamesOnce'
    BY <1>1, <1>5 DEF GuideTyped, NamesOnce
  <2>2. BuildFits'
    BY <1>1, <1>2, <1>5 DEF BuildFits, Served
  <2> QED  BY <1>3, <2>1, <2>2
<1> QED  BY <1>4, <1>5 DEF Guide!EmbedFails, Guide!scan

\* The cache of the model is replaced by the rows, or is not.
LEMMA SaveKeeps == GuideInv /\ Guide!Save => GuideInv'
<1> SUFFICES ASSUME GuideInv, Guide!Save PROVE GuideInv'
  OBVIOUS
<1> USE DEF GuideInv
<1>1. /\ guidePc = "save" /\ guidePc' = "swap"
      /\ cache' \in {[cache EXCEPT ![guideConf.model] = Els(guideRows)], cache}
      /\ UNCHANGED <<disk, guideConf, guideIndex, guideAt, parsed, scanned, guideKnown, guideRows,
                     moved, guideQuery, seed>>
  BY DEF Guide!Save, Guide!disks, Guide!scan, Guide!seeding, Els
<1>2. guideConf \in Recall /\ guideConf # Guide!Down
  BY <1>1 DEF GuideTyped, BuildFits
<1>3. PICK m \in Guide!Models : m = guideConf.model
  BY <1>2 DEF Guide!Models
<1>4. PICK rows \in Seq(Kept), k \in Nat :
        rows = guideRows /\ k = Len(rows) /\ DOMAIN rows = 1..k /\ \A i \in 1..k : rows[i] \in Kept
  <2>1. PICK rows \in Seq(Kept) : rows = guideRows
    BY DEF GuideTyped
  <2> QED  BY <2>1, LenProperties, ElementOfSeq
<1>5. Els(rows) \subseteq Kept /\ IsFiniteSet(Els(rows))
  <2>1. rows \in Surjection(1..k, Els(rows))
    <3>1. rows \in [1..k -> Els(rows)]
      BY <1>4 DEF Els
    <3> QED  BY <1>4, <3>1 DEF Surjection, Els
  <2>2. IsFiniteSet(1..k)
    <3>1. 1 \in Int /\ k \in Int
      BY <1>4
    <3> QED  BY <3>1, FS_Interval
  <2> QED  BY <1>4, <2>1, <2>2, FS_Surjection DEF Els
<1>6. \A e \in Els(rows) : Ranks(m, e) /\ \A f \in Els(rows) : f.name = e.name => f = e
  BY <1>3, <1>4 DEF VectorsFit, NamesOnce, EachOnce, Els
<1>7. ASSUME NEW x \in Guide!Models
      PROVE  /\ cache'[x] \subseteq Kept /\ IsFiniteSet(cache'[x])
             /\ \A e \in cache'[x] : Ranks(x, e) /\ \A f \in cache'[x] : f.name = e.name => f = e
  <2>1. cache'[x] \in {cache[x], Els(rows)} /\ (x # m => cache'[x] = cache[x])
    BY <1>1, <1>3, <1>4 DEF GuideTyped
  <2> QED  BY <1>5, <1>6, <2>1 DEF GuideTyped, VectorsFit
<1>8. cache' \in [Guide!Models -> SUBSET Kept]
  BY <1>1, <1>3, <1>4, <1>5 DEF GuideTyped
<1>9. GuideTyped'
  BY <1>1, <1>7, <1>8 DEF GuideTyped
<1>10. VectorsFit' /\ NamesOnce'
  BY <1>1, <1>7 DEF VectorsFit, NamesOnce
<1>11. BuildFits'
  <2>1. \A n : Due(n)' = Due(n)
    BY <1>1, DueStays
  <2> QED  BY <1>1, <1>2, <2>1 DEF BuildFits, Served
<1>12. QueryFits'
  BY <1>1, QueryStays
<1> QED  BY <1>9, <1>10, <1>11, <1>12

\* The rows are served.
LEMMA SwapKeeps == GuideInv /\ Guide!Swap => GuideInv'
<1> SUFFICES ASSUME GuideInv, Guide!Swap PROVE GuideInv'
  OBVIOUS
<1> USE DEF GuideInv
<1>1. /\ guidePc = "swap" /\ guidePc' = "idle"
      /\ guideIndex' = [built |-> TRUE, rows |-> guideRows, pinned |-> Guide!PinnedNames(guideRows)]
      /\ UNCHANGED <<disk, guideConf, cache, guideAt, parsed, scanned, guideKnown, guideRows,
                     moved, guideQuery, seed>>
  BY DEF Guide!Swap, Guide!disks, Guide!scan, Guide!seeding
<1>2. guideConf \in Recall /\ guideConf # Guide!Down
  BY <1>1 DEF GuideTyped, BuildFits
<1>3. PICK rows \in Seq(Kept) : rows = guideRows
  BY DEF GuideTyped
<1>4. \A i \in DOMAIN rows : rows[i].name \in SkillNames
  <2>1. \A i \in DOMAIN rows : rows[i] \in Kept
    BY LenProperties, ElementOfSeq
  <2> QED  BY <2>1 DEF Kept
<1>5. /\ Guide!PinnedNames(guideRows) \subseteq SkillNames
      /\ Guide!PinnedNames(guideRows) \subseteq NamesOf(guideRows)
  BY <1>3, <1>4 DEF Guide!PinnedNames, NamesOf
<1>6. GuideTyped'
  <2>1. guideIndex' \in Snapshots
    BY <1>1, <1>3, <1>5 DEF Snapshots
  <2> QED  BY <1>1, <2>1 DEF GuideTyped
<1>7. VectorsFit' /\ NamesOnce'
  BY <1>1, <1>5 DEF VectorsFit, NamesOnce
<1>8. BuildFits'
  <2>1. \A n : Due(n)' = Due(n)
    BY <1>1, DueStays
  <2> QED  BY <1>1, <1>2, <2>1 DEF BuildFits, Served
<1>9. QueryFits'
  BY <1>1, QueryStays
<1> QED  BY <1>6, <1>7, <1>8, <1>9

\* The members of a list, k of them, are of a set, and none is twice.
Picks(is, k, S) ==
  /\ k \in Nat /\ DOMAIN is = 1..k /\ \A i \in 1..k : is[i] \in S
  /\ \A i, j \in 1..k : is[i] = is[j] => i = j

\* A list of members of a set, none twice.
LEMMA ListsAre ==
  ASSUME NEW S, NEW k \in Nat, NEW q \in Guide!Lists(S, k)
  PROVE  q \in Seq(S) /\ Picks(q, k, S)
<1>1. q \in [1..k -> S] /\ \A i, j \in 1..k : q[i] = q[j] => i = j
  BY DEF Guide!Lists
<1>2. q \in Seq(S)
  BY <1>1
<1> QED  BY <1>1, <1>2 DEF Picks

\* All of a finite set, once each.
LEMMA OrdersAre ==
  ASSUME NEW S, IsFiniteSet(S), NEW q \in Guide!Orders(S)
  PROVE  \E k \in Nat : /\ q \in Seq(S) /\ Picks(q, k, S)
                        /\ \A x \in S : \E i \in 1..k : q[i] = x
<1>1. PICK k \in Nat : k = Guide!Cardinality(S)
  BY GuideCounts
<1>2. q \in Guide!Lists(S, k) /\ \A x \in S : \E i \in DOMAIN q : q[i] = x
  BY <1>1 DEF Guide!Orders
<1>3. q \in Seq(S) /\ Picks(q, k, S)
  BY <1>2, ListsAre
<1>4. DOMAIN q = 1..k
  BY <1>3 DEF Picks
<1> QED  BY <1>2, <1>3, <1>4

\* A start serves what the cache of its model holds, or nothing yet.
LEMMA StartKeeps ==
  ASSUME NEW c \in Recall
  PROVE  GuideInv /\ Guide!Start(c) => GuideInv'
<1> SUFFICES ASSUME GuideInv, Guide!Start(c) PROVE GuideInv'
  OBVIOUS
<1> USE DEF GuideInv
<1>1. /\ guideConf = Guide!Down /\ guideConf' = c /\ Guide!NewScan
      /\ UNCHANGED <<disk, cache, guideKnown, guideRows, guideQuery, seed>>
  BY DEF Guide!Start, Guide!disks, Guide!seeding
<1>2. guideRows = <<>> /\ guideKnown = {} /\ guideQuery.pc = "none"
  BY <1>1 DEF BuildFits
<1>3. PICK m \in Guide!Models : m = c.model
  BY DEF Guide!Models
<1>4. PICK held : held = cache[m] /\ held \subseteq Kept /\ IsFiniteSet(held)
  BY <1>3 DEF GuideTyped
<1>5. PICK es \in Guide!Orders(held) : guideIndex' \in {Guide!LoadCached(c, es), Guide!Empty}
  BY <1>3, <1>4 DEF Guide!Start
<1>6. PICK k \in Nat :
        /\ es \in Seq(held) /\ DOMAIN es = 1..k
        /\ \A i \in 1..k : es[i] \in held
        /\ \A i, j \in 1..k : es[i] = es[j] => i = j
  <2>1. PICK k \in Nat : es \in Seq(held) /\ Picks(es, k, held)
    BY <1>4, <1>5, OrdersAre
  <2> QED  BY <2>1 DEF Picks
<1>7. es \in Seq(Kept)
  <2>1. es \in [1..k -> Kept]
    BY <1>4, <1>6
  <2> QED  BY <2>1
<1>8. EachOnce(es) /\ \A e \in Els(es) : Ranks(m, e)
  BY <1>3, <1>4, <1>6 DEF VectorsFit, EachOnce, Els
<1>9. /\ guideIndex' \in Snapshots /\ (guideIndex'.built => guideIndex'.rows # <<>>)
      /\ EachOnce(guideIndex'.rows) /\ guideIndex'.pinned \subseteq NamesOf(guideIndex'.rows)
      /\ \A e \in Els(guideIndex'.rows) : Ranks(m, e)
  <2>1. CASE guideIndex' = Guide!Empty
    <3>1. <<>> \in Seq(Kept) /\ Els(<<>>) = {} /\ EachOnce(<<>>)
      BY DEF Els, EachOnce
    <3> QED  BY <2>1, <3>1 DEF Guide!Empty, Snapshots
  <2>2. CASE guideIndex' = Guide!LoadCached(c, es) /\ guideIndex' # Guide!Empty
    <3>1. PICK pins : pins = {es[i].name : i \in {i \in DOMAIN es : es[i].source \in c.pinned}}
      OBVIOUS
    <3>2. guideIndex' = [built |-> TRUE, rows |-> es, pinned |-> pins] /\ es # <<>>
      BY <2>2, <3>1 DEF Guide!LoadCached
    <3>3. pins \subseteq NamesOf(es)
      BY <3>1 DEF NamesOf
    <3>4. NamesOf(es) \subseteq SkillNames
      BY <1>4, <1>6 DEF NamesOf, Kept
    <3> QED  BY <1>7, <1>8, <3>2, <3>3, <3>4 DEF Snapshots
  <2> QED  BY <1>5, <2>1, <2>2
<1>10. GuideTyped' /\ BuildFits' /\ EachOnce(scanned')
  BY <1>1, <1>2, <1>9, ScanBegins
<1>11. VectorsFit'
  <2>1. Els(guideRows') = {}
    BY <1>1, <1>2 DEF Els
  <2> QED  BY <1>1, <1>2, <1>3, <1>9, <2>1 DEF VectorsFit
<1>12. NamesOnce'
  <2>1. EachOnce(guideRows')
    BY <1>1, <1>2 DEF EachOnce
  <2> QED  BY <1>9, <1>10, <2>1 DEF NamesOnce
<1>13. QueryFits'
  BY <1>1, QueryStays
<1> QED  BY <1>1, <1>10, <1>11, <1>12, <1>13

\* The process ends: the disk and the cache stay.
LEMMA StopKeeps == GuideInv /\ Guide!Stop => GuideInv'
<1> SUFFICES ASSUME GuideInv, Guide!Stop PROVE GuideInv'
  OBVIOUS
<1> USE DEF GuideInv
<1>1. /\ guideConf' = Guide!Down /\ guideIndex' = Guide!Empty /\ guidePc' = "idle"
      /\ guideAt' = 1 /\ parsed' = Guide!NothingRead /\ scanned' = <<>>
      /\ guideKnown' = {} /\ guideRows' = <<>>
      /\ guideQuery' = Guide!NoQuery /\ seed' = Guide!NoSeed
      /\ UNCHANGED <<disk, cache, moved>>
  BY DEF Guide!Stop, Guide!disks
<1>2. <<>> \in Seq(Found) /\ <<>> \in Seq(Kept) /\ Els(<<>>) = {} /\ EachOnce(<<>>)
  BY DEF Els, EachOnce
<1>3. guideIndex' \in Snapshots /\ guideIndex'.rows = <<>> /\ guideIndex'.pinned = {}
      /\ guideIndex'.built = FALSE
  BY <1>1, <1>2 DEF Guide!Empty, Snapshots
<1>4. DOMAIN parsed' = {} /\ parsed' \in [{} -> Guide!Guides \cup {Guide!NoGuide}]
  BY <1>1 DEF Guide!NothingRead
<1>5. 1 \in 1..(Len(SkillSources) + 1)
  BY SourcesAre
<1>6. GuideTyped'
  BY <1>1, <1>2, <1>3, <1>4, <1>5 DEF GuideTyped
<1>7. VectorsFit' /\ NamesOnce'
  BY <1>1, <1>2, <1>3 DEF VectorsFit, NamesOnce
<1>8. guideQuery' = [pc |-> "none", snap |-> Guide!Empty, task |-> FALSE]
  BY <1>1 DEF Guide!NoQuery
<1>9. BuildFits'
  BY <1>1, <1>3, <1>8 DEF BuildFits, Served
<1>10. QueryFits'
  BY <1>8 DEF QueryFits, SeedFits
<1> QED  BY <1>1, <1>6, <1>7, <1>9, <1>10

\* What Build and the disk hold, a query leaves alone.
LEMMA AskedOnly ==
  ASSUME GuideInv, guideConf # Guide!Down \/ guideQuery'.pc = "none",
         UNCHANGED <<disk, guideConf, cache, guideIndex, guidePc, guideAt, parsed, scanned,
                     guideKnown, guideRows, moved>>
  PROVE  GuideTyped' /\ VectorsFit' /\ NamesOnce' /\ BuildFits'
<1> USE DEF GuideInv
<1>1. GuideTyped' /\ VectorsFit' /\ NamesOnce'
  BY DEF GuideTyped, VectorsFit, NamesOnce
<1>2. PICK k : k = guideAt
  OBVIOUS
<1>3. Due(guideAt - 1)' = Due(k - 1)'
  BY <1>2 DEF Due, Leads
<1>4. \A n : Due(n)' = Due(n)
  BY DueStays
<1>5. BuildFits'
  BY <1>2, <1>3, <1>4 DEF BuildFits, Served
<1> QED  BY <1>1, <1>5

\* A query takes the index as its snapshot.
LEMMA AskKeeps == GuideInv /\ Guide!Ask => GuideInv'
<1> SUFFICES ASSUME GuideInv, Guide!Ask PROVE GuideInv'
  OBVIOUS
<1> USE DEF GuideInv
<1>1. PICK task \in BOOLEAN : guideQuery' = [pc |-> "rank", snap |-> guideIndex, task |-> task]
  BY DEF Guide!Ask
<1>2. GuideTyped' /\ VectorsFit' /\ NamesOnce' /\ BuildFits'
  BY AskedOnly DEF Guide!Ask, Guide!disks, Guide!scan
<1>3. QueryFits'
  BY <1>1 DEF QueryFits, SeedFits, GuideTyped, NamesOnce
<1> QED  BY <1>2, <1>3

\* A query that was answered is over.
LEMMA ForgetKeeps == GuideInv /\ Guide!Forget => GuideInv'
<1> SUFFICES ASSUME GuideInv, Guide!Forget PROVE GuideInv'
  OBVIOUS
<1> USE DEF GuideInv
<1>1. guideQuery' = [pc |-> "none", snap |-> Guide!Empty, task |-> FALSE]
  BY DEF Guide!Forget, Guide!NoQuery
<1>2. GuideTyped' /\ VectorsFit' /\ NamesOnce' /\ BuildFits'
  BY <1>1, AskedOnly DEF Guide!Forget, Guide!disks, Guide!scan
<1>3. QueryFits'
  BY <1>1 DEF QueryFits, SeedFits
<1> QED  BY <1>2, <1>3

\* The hits at a list of rows.
HitsOf(rs) == {Guide!Hit(rs, rs, i) : i \in DOMAIN rs}
Ranked(rs, is) == [i \in DOMAIN is |-> Guide!Hit(rs, rs, is[i])]

\* A hit per index, of the row at it.
LEMMA HitsAre ==
  ASSUME NEW rs, NEW k, NEW is, Picks(is, k, DOMAIN rs)
  PROVE  /\ Ranked(rs, is) \in Seq(HitsOf(rs))
         /\ k \in Nat /\ Len(Ranked(rs, is)) = k /\ DOMAIN Ranked(rs, is) = 1..k
         /\ \A i \in 1..k : Ranked(rs, is)[i] = Guide!Hit(rs, rs, is[i])
<1>1. PICK hits : hits = Ranked(rs, is)
  OBVIOUS
<1>2. /\ k \in Nat /\ DOMAIN hits = 1..k /\ hits = [i \in 1..k |-> Guide!Hit(rs, rs, is[i])]
      /\ \A i \in 1..k : is[i] \in DOMAIN rs
  BY <1>1 DEF Picks, Ranked
<1>3. hits \in [1..k -> HitsOf(rs)]
  BY <1>2 DEF HitsOf
<1>4. hits \in Seq(HitsOf(rs)) /\ Len(hits) = k
  BY <1>2, <1>3, LenProperties
<1> QED  BY <1>1, <1>2, <1>4

\* Rows listed once each, all those pinned and at most SeedLimit others, make
\* a seed of one snapshot.
LEMMA SeedMakes ==
  ASSUME NEW rs, EachOnce(rs), NEW q, NEW s, q.snap.pinned \subseteq NamesOf(rs),
         NEW pin, pin = {i \in DOMAIN rs : rs[i].name \in q.snap.pinned},
         NEW first, NEW c, Picks(first, c, pin), \A x \in pin : \E i \in 1..c : first[i] = x,
         NEW rest, NEW k, Picks(rest, k, DOMAIN rs \ pin), k <= SeedLimit,
         s = [pinned |-> Ranked(rs, first), relevant |-> Ranked(rs, rest)]
  PROVE  SeedFits(q, s)
<1>1. PICK T : T = HitsOf(rs)
  OBVIOUS
<1>2. Picks(first, c, DOMAIN rs) /\ Picks(rest, k, DOMAIN rs)
  BY DEF Picks
<1>3. PICK P \in Seq(T) :
        /\ P = Ranked(rs, first) /\ c \in Nat /\ Len(P) = c /\ DOMAIN P = 1..c
        /\ \A i \in 1..c : P[i] = Guide!Hit(rs, rs, first[i])
  BY <1>1, <1>2, HitsAre
<1>4. PICK R \in Seq(T) :
        /\ R = Ranked(rs, rest) /\ k \in Nat /\ Len(R) = k /\ DOMAIN R = 1..k
        /\ \A i \in 1..k : R[i] = Guide!Hit(rs, rs, rest[i])
  BY <1>1, <1>2, HitsAre
<1>5. PICK all : all = P \o R
  OBVIOUS
<1>6. /\ all \in Seq(T) /\ Len(all) = c + k
      /\ \A i \in 1..(c + k) : all[i] = IF i <= c THEN P[i] ELSE R[i - c]
  <2>1. /\ P \o R \in Seq(T) /\ Len(P \o R) = Len(P) + Len(R)
        /\ \A i \in 1..(Len(P) + Len(R)) :
             (P \o R)[i] = IF i <= Len(P) THEN P[i] ELSE R[i - Len(P)]
    BY ConcatProperties
  <2> QED  BY <1>3, <1>4, <1>5, <2>1
<1>7. DOMAIN all = 1..(c + k)
  BY <1>6, LenProperties
<1>8. PICK of : of = [i \in 1..(c + k) |-> IF i <= c THEN first[i] ELSE rest[i - c]]
  OBVIOUS
<1>9. ASSUME NEW i \in 1..(c + k), i <= c
      PROVE  i \in 1..c /\ of[i] = first[i] /\ of[i] \in pin /\ all[i] = Guide!Hit(rs, rs, of[i])
  <2>1. i \in 1..c
    BY <1>3, <1>4, <1>9
  <2>2. of[i] = first[i] /\ all[i] = P[i]
    BY <1>6, <1>8, <1>9
  <2> QED  BY <1>3, <2>1, <2>2 DEF Picks
<1>10. ASSUME NEW i \in 1..(c + k), ~(i <= c)
       PROVE  /\ i - c \in 1..k /\ of[i] = rest[i - c] /\ of[i] \in DOMAIN rs \ pin
              /\ all[i] = Guide!Hit(rs, rs, of[i])
  <2>1. PICK j \in 1..k : j = i - c
    BY <1>3, <1>4, <1>10
  <2>2. of[i] = rest[j] /\ all[i] = R[j]
    BY <1>6, <1>8, <1>10, <2>1
  <2> QED  BY <1>4, <2>1, <2>2 DEF Picks
<1>11. \A i \in 1..(c + k) : of[i] \in DOMAIN rs /\ all[i] = Guide!Hit(rs, rs, of[i])
  BY <1>9, <1>10
<1>12. ASSUME NEW i \in 1..(c + k), NEW j \in 1..(c + k), i # j
       PROVE  of[i] # of[j]
  <2>1. CASE i <= c /\ j <= c
    BY <1>9, <1>12, <2>1 DEF Picks
  <2>2. CASE ~(i <= c) /\ ~(j <= c)
    <3>1. i - c # j - c
      BY <1>3, <1>4, <1>12
    <3>2. i - c \in 1..k /\ j - c \in 1..k /\ of[i] = rest[i - c] /\ of[j] = rest[j - c]
      BY <1>10, <2>2
    <3>3. \A x, y \in 1..k : rest[x] = rest[y] => x = y
      BY DEF Picks
    <3> QED  BY <3>1, <3>2, <3>3
  <2>3. CASE i <= c /\ ~(j <= c)
    BY <1>9, <1>10, <2>3
  <2>4. CASE ~(i <= c) /\ j <= c
    BY <1>9, <1>10, <2>4
  <2> QED  BY <2>1, <2>2, <2>3, <2>4
<1>13. \A i \in DOMAIN rs : /\ Guide!Hit(rs, rs, i).entry = rs[i]
                            /\ Guide!Hit(rs, rs, i).vec = rs[i].vec
  BY DEF Guide!Hit
<1>14. {P[i].entry.name : i \in DOMAIN P} = q.snap.pinned
  <2>1. PICK pinned : pinned = q.snap.pinned
    OBVIOUS
  <2>2. \A i \in 1..c : first[i] \in DOMAIN rs /\ first[i] \in pin
    BY <1>2 DEF Picks
  <2>3. \A i \in 1..c : P[i].entry.name = rs[first[i]].name
    BY <1>3, <1>13, <2>2
  <2>4. \A i \in 1..c : P[i].entry.name \in pinned
    BY <2>1, <2>2, <2>3
  <2>5. ASSUME NEW n \in pinned PROVE \E i \in 1..c : P[i].entry.name = n
    <3>1. PICK x \in DOMAIN rs : rs[x].name = n
      BY <2>1 DEF NamesOf
    <3>2. x \in pin
      BY <2>1, <3>1
    <3> QED  BY <2>3, <3>1, <3>2
  <2>6. PICK D : D = DOMAIN P /\ D = 1..c
    BY <1>3
  <2>7. /\ \A i \in D : P[i].entry.name \in pinned
        /\ \A n \in pinned : \E i \in D : P[i].entry.name = n
    BY <2>4, <2>5, <2>6
  <2>8. {P[i].entry.name : i \in D} = pinned
    BY <2>7
  <2> QED  BY <2>1, <2>6, <2>8
<1>15. \A i, j \in 1..(c + k) : i # j => all[i].entry.name # all[j].entry.name
  BY <1>11, <1>12, <1>13 DEF EachOnce
<1>16. \A i \in 1..(c + k) : all[i].vec = all[i].entry.vec
  BY <1>11, <1>13
<1>17. s.pinned = P /\ s.relevant = R
  BY <1>3, <1>4
<1>18. PICK D : D = DOMAIN all /\ D = 1..(c + k)
  BY <1>7
<1>19. /\ \A i, j \in D : i # j => all[i].entry.name # all[j].entry.name
       /\ \A i \in D : all[i].vec = all[i].entry.vec
  BY <1>15, <1>16, <1>18
<1>20. Len(s.relevant) <= SeedLimit
  BY <1>4, <1>17
<1>21. all = s.pinned \o s.relevant /\ {s.pinned[i].entry.name : i \in DOMAIN s.pinned} = q.snap.pinned
  BY <1>5, <1>14, <1>17
<1> DEFINE joined == s.pinned \o s.relevant
<1>22. /\ \A i, j \in DOMAIN joined : i # j => joined[i].entry.name # joined[j].entry.name
       /\ \A i \in DOMAIN joined : joined[i].vec = joined[i].entry.vec
  <2> HIDE DEF joined
  <2>1. joined = all
    BY <1>21 DEF joined
  <2> QED  BY <1>18, <1>19, <2>1
<1> QED  BY <1>20, <1>21, <1>22 DEF SeedFits

\* The snapshot is ranked, or its pinned rows are listed.
LEMMA RankKeeps == GuideInv /\ Guide!Rank => GuideInv'
<1> SUFFICES ASSUME GuideInv, Guide!Rank PROVE GuideInv'
  OBVIOUS
<1> USE DEF GuideInv
<1>1. /\ guideQuery.pc = "rank" /\ guideQuery' = [guideQuery EXCEPT !.pc = "done"]
      /\ UNCHANGED <<disk, guideConf, cache, guideIndex, guidePc, guideAt, parsed, scanned,
                     guideKnown, guideRows, moved>>
  BY DEF Guide!Rank, Guide!disks, Guide!scan
<1>2. guideConf # Guide!Down
  BY <1>1 DEF BuildFits
<1>3. GuideTyped' /\ VectorsFit' /\ NamesOnce' /\ BuildFits'
  BY <1>1, <1>2, AskedOnly
<1>4. PICK snap \in Snapshots : snap = guideQuery.snap
  BY <1>1 DEF QueryFits
<1>5. EachOnce(snap.rows) /\ snap.pinned \subseteq NamesOf(snap.rows)
  BY <1>1, <1>4 DEF QueryFits
<1>6. guideQuery' = [pc |-> "done", snap |-> snap, task |-> guideQuery.task]
  BY <1>1, <1>4 DEF QueryFits
<1>7. PICK rs \in Seq(Kept), n \in Nat : rs = snap.rows /\ n = Len(rs) /\ DOMAIN rs = 1..n
  <2>1. PICK rs \in Seq(Kept) : rs = snap.rows
    BY DEF Snapshots
  <2> QED  BY <2>1, LenProperties
<1>8. PICK pin : pin = {i \in DOMAIN rs : rs[i].name \in snap.pinned}
  OBVIOUS
<1>9. IsFiniteSet(pin) /\ IsFiniteSet(DOMAIN rs \ pin)
  <2>1. 1 \in Int /\ n \in Int
    BY <1>7
  <2>2. IsFiniteSet(1..n)
    BY <2>1, FS_Interval
  <2>3. pin \subseteq 1..n /\ DOMAIN rs \ pin \subseteq 1..n
    BY <1>7, <1>8
  <2> QED  BY <2>2, <2>3, FS_Subset
<1>10. Guide!Cardinality(DOMAIN rs \ pin) \in Nat /\ SeedLimit \in Nat
  BY <1>9, GuideCounts DEF Guide!SkillsAssumption
<1>11. \/ \E first \in Guide!Orders(pin) : \E k \in Nat :
            /\ k <= SeedLimit
            /\ \E rest \in Guide!Lists(DOMAIN rs \ pin, k) :
                 seed' = [pinned |-> Ranked(rs, first), relevant |-> Ranked(rs, rest)]
       \/ \E byName \in Guide!Orders(pin) :
            seed' = [pinned |-> Ranked(rs, byName), relevant |-> <<>>]
  <2> DEFINE held   == guideQuery.snap.rows
             within == {i \in DOMAIN held : i \in DOMAIN held}
             pinned == {i \in DOMAIN held : held[i].name \in guideQuery.snap.pinned}
             left   == Guide!Cardinality(within \ pinned)
             most   == IF left < SeedLimit THEN left ELSE SeedLimit
             hits(is) == [i \in DOMAIN is |-> Guide!Hit(held, held, is[i])]
  <2>1. \/ \E first \in Guide!Orders(pinned \cap within) :
             \E k \in 0..most :
               \E rest \in Guide!Lists(within \ pinned, k) :
                 seed' = [pinned |-> hits(first), relevant |-> hits(rest)]
        \/ \E byName \in Guide!Orders(pinned) : seed' = [pinned |-> hits(byName), relevant |-> <<>>]
    BY DEF Guide!Rank, Guide!Matrix
  <2>2. held = rs
    BY <1>4, <1>7
  <2>3. pinned = pin
    BY <1>4, <1>8, <2>2
  <2>4. within = DOMAIN rs
    BY <2>2
  <2> HIDE DEF held, within, pinned
  <2>5. pinned \cap within = pin
    BY <1>8, <2>3, <2>4
  <2>6. left \in Nat
    BY <1>10, <2>3, <2>4
  <2> HIDE DEF left
  <2>7. most \in Nat /\ most <= SeedLimit
    BY <1>10, <2>6
  <2> HIDE DEF most
  <2>8. \A k \in 0..most : k \in Nat /\ k <= SeedLimit
    BY <1>10, <2>7
  <2>9. \A is : hits(is) = Ranked(rs, is)
    BY <2>2 DEF Ranked
  <2> HIDE DEF hits
  <2>10. \/ \E first \in Guide!Orders(pin) : \E k \in 0..most :
             \E rest \in Guide!Lists(DOMAIN rs \ pin, k) :
               seed' = [pinned |-> Ranked(rs, first), relevant |-> Ranked(rs, rest)]
        \/ \E byName \in Guide!Orders(pin) :
             seed' = [pinned |-> Ranked(rs, byName), relevant |-> <<>>]
    BY <2>1, <2>3, <2>4, <2>5, <2>9
  <2> QED  BY <2>8, <2>10
<1>12. SeedFits(guideQuery', seed')
  <2>1. PICK q, s : q = guideQuery' /\ s = seed'
    OBVIOUS
  <2>2. q.snap.pinned = snap.pinned
    BY <1>6, <2>1
  <2>3. EachOnce(rs) /\ q.snap.pinned \subseteq NamesOf(rs)
    BY <1>5, <1>7, <2>2
  <2>4. pin = {i \in DOMAIN rs : rs[i].name \in q.snap.pinned}
    BY <1>8, <2>2
  <2>5. ASSUME NEW first \in Guide!Orders(pin)
        PROVE  \E c : Picks(first, c, pin) /\ \A x \in pin : \E i \in 1..c : first[i] = x
    BY <1>9, OrdersAre
  <2>6. ASSUME NEW first \in Guide!Orders(pin), NEW k \in Nat, k <= SeedLimit,
               NEW rest \in Guide!Lists(DOMAIN rs \ pin, k),
               s = [pinned |-> Ranked(rs, first), relevant |-> Ranked(rs, rest)]
        PROVE  SeedFits(q, s)
    <3>1. PICK c : Picks(first, c, pin) /\ \A x \in pin : \E i \in 1..c : first[i] = x
      BY <2>5
    <3>2. Picks(rest, k, DOMAIN rs \ pin)
      BY <2>6, ListsAre
    <3> QED  BY <2>3, <2>4, <2>6, <3>1, <3>2, SeedMakes
  <2>7. ASSUME NEW byName \in Guide!Orders(pin),
               s = [pinned |-> Ranked(rs, byName), relevant |-> <<>>]
        PROVE  SeedFits(q, s)
    <3>1. PICK c : Picks(byName, c, pin) /\ \A x \in pin : \E i \in 1..c : byName[i] = x
      BY <2>5
    <3>2. PICK none : none = <<>>
      OBVIOUS
    <3>3. DOMAIN none = 1..0
      BY <3>2
    <3>4. Picks(none, 0, DOMAIN rs \ pin)
      BY <3>3 DEF Picks
    <3>5. Ranked(rs, none) = <<>>
      BY <3>2, <3>3 DEF Ranked
    <3>6. 0 <= SeedLimit /\ s = [pinned |-> Ranked(rs, byName), relevant |-> Ranked(rs, none)]
      BY <1>10, <2>7, <3>5
    <3> QED  BY <2>3, <2>4, <3>1, <3>4, <3>6, SeedMakes
  <2>8. SeedFits(q, s)
    BY <1>11, <2>1, <2>6, <2>7
  <2> QED  BY <2>1, <2>8
<1>13. QueryFits'
  BY <1>4, <1>5, <1>6, <1>12 DEF QueryFits
<1> QED  BY <1>3, <1>13

\* The index of a server that has not started.
LEMMA GuideBegins == Guide!Init => GuideInv
<1> SUFFICES ASSUME Guide!Init PROVE GuideInv
  OBVIOUS
<1>1. Guide!SkillsAssumption
  BY GuideAssumption DEF GuideAssumption
<1>2. disk \in [Guide!Roots \X Guide!Dirs -> Guide!Guides \cup {Guide!NoGuide}]
  <2>1. PICK n \in [Guide!Roots -> SkillNames] :
          disk = [p \in Guide!Roots \X Guide!Dirs |->
                    IF p[2] = "a" THEN [name |-> n[p[1]], ver |-> 1] ELSE Guide!NoGuide]
    BY DEF Guide!Init
  <2>2. \A r \in Guide!Roots : [name |-> n[r], ver |-> 1] \in Guide!Guides
    BY <1>1 DEF Guide!Guides, Guide!SkillsAssumption
  <2> QED  BY <2>1, <2>2
<1>3. /\ guideConf = Guide!Down /\ cache = [m \in Guide!Models |-> {}]
      /\ guideIndex = Guide!Empty /\ guidePc = "idle" /\ guideAt = 1
      /\ parsed = Guide!NothingRead /\ scanned = <<>> /\ guideKnown = {} /\ guideRows = <<>>
      /\ moved = FALSE /\ guideQuery = Guide!NoQuery
  BY DEF Guide!Init
<1>4. <<>> \in Seq(Found) /\ <<>> \in Seq(Kept) /\ Els(<<>>) = {} /\ EachOnce(<<>>)
  BY DEF Els, EachOnce
<1>5. /\ guideIndex \in Snapshots /\ guideIndex.rows = <<>> /\ guideIndex.pinned = {}
      /\ guideIndex.built = FALSE
  BY <1>3, <1>4 DEF Guide!Empty, Snapshots
<1>6. DOMAIN parsed = {} /\ parsed \in [{} -> Guide!Guides \cup {Guide!NoGuide}]
  BY <1>3 DEF Guide!NothingRead
<1>7. 1 \in 1..(Len(SkillSources) + 1)
  BY <1>1, SourcesAre
<1>8. /\ cache \in [Guide!Models -> SUBSET Kept]
      /\ \A m \in Guide!Models : cache[m] = {} /\ IsFiniteSet(cache[m])
  BY <1>3, FS_EmptySet
<1>9. GuideTyped
  BY <1>2, <1>3, <1>4, <1>5, <1>6, <1>7, <1>8 DEF GuideTyped
<1>10. VectorsFit /\ NamesOnce
  BY <1>3, <1>4, <1>5, <1>8 DEF VectorsFit, NamesOnce
<1>11. guideQuery = [pc |-> "none", snap |-> Guide!Empty, task |-> FALSE]
  BY <1>3 DEF Guide!NoQuery
<1>12. BuildFits
  BY <1>3, <1>5, <1>11 DEF BuildFits, Served
<1>13. QueryFits
  BY <1>11 DEF QueryFits, SeedFits
<1> QED  BY <1>1, <1>9, <1>10, <1>12, <1>13 DEF GuideInv

\* What the invariant says of the index and of a seed.
LEMMA GuideTells == GuideInv => Guide!IndexFollowsDisk /\ Guide!SeedIsOneSnapshot
<1> SUFFICES ASSUME GuideInv PROVE Guide!IndexFollowsDisk /\ Guide!SeedIsOneSnapshot
  OBVIOUS
<1> USE DEF GuideInv
<1>1. Guide!SeedIsOneSnapshot
  BY DEF QueryFits, SeedFits, Guide!SeedIsOneSnapshot
<1>2. ASSUME guidePc = "idle", guideIndex.built, guideIndex.rows = guideRows, ~moved
      PROVE  {Guide!Plain(guideIndex.rows[i]) : i \in DOMAIN guideIndex.rows} = Guide!Promised
  <2>1. {Guide!Plain(e) : e \in Els(guideRows)} = Due(Len(SkillSources))
    BY <1>2 DEF BuildFits, Served
  <2>2. Due(Len(SkillSources)) = Guide!Promised
    BY DueOfAll
  <2>3. {Guide!Plain(guideRows[i]) : i \in DOMAIN guideRows} = {Guide!Plain(e) : e \in Els(guideRows)}
    BY DEF Els
  <2> QED  BY <1>2, <2>1, <2>2, <2>3
<1>3. \A i, j \in DOMAIN guideIndex.rows : i # j => guideIndex.rows[i].name # guideIndex.rows[j].name
  BY DEF NamesOnce, EachOnce
<1>4. \A i \in DOMAIN guideIndex.rows : guideIndex.rows[i].vec = Guide!Fresh(guideIndex.rows[i])
  BY DEF VectorsFit, Els, Ranks, Guide!Fresh
<1>5. \A m \in Guide!Models : \A e \in cache[m] :
        /\ e.vec = IF m = "lexical" THEN Guide!NoVec ELSE [model |-> m, name |-> e.name, ver |-> e.ver]
        /\ \A f \in cache[m] : f.name = e.name => f = e
  BY DEF VectorsFit, Ranks
<1>6. Guide!IndexFollowsDisk
  BY <1>2, <1>3, <1>4, <1>5 DEF Guide!IndexFollowsDisk
<1> QED  BY <1>1, <1>6

\* The index follows the disk (skills/index.go buildOnce, LoadCached): for any
\* sources, guides and embedders, whatever is edited while Build scans, fails,
\* is restarted or served from the cache, what is served of an unmoved disk is
\* the layered sources, no name is served twice, no entry is ranked by a vector
\* of another content or model, and a session is seeded from one snapshot.
THEOREM GuidesStayCurrent == Guide!Spec => []GuidesAreCurrent
<1>1. Guide!Init => GuideInv
  BY GuideBegins
<1>2. GuideInv /\ [Guide!Next]_Guide!vars => GuideInv'
  <2> SUFFICES ASSUME GuideInv, [Guide!Next]_Guide!vars PROVE GuideInv'
    OBVIOUS
  <2>1. CASE Guide!Edit
    BY <2>1, EditKeeps
  <2>2. ASSUME NEW c \in Recall, Guide!Start(c) PROVE GuideInv'
    BY <2>2, StartKeeps
  <2>3. CASE Guide!Stop
    BY <2>3, StopKeeps
  <2>4. ASSUME NEW d \in Guide!Dirs, Guide!ReadGuide(d) PROVE GuideInv'
    BY <2>4, ReadKeeps
  <2>5. CASE Guide!MergeSource
    BY <2>5, MergeKeeps
  <2>6. CASE Guide!LoadKnown
    BY <2>6, LoadKeeps
  <2>7. CASE Guide!Embed
    BY <2>7, EmbedKeeps
  <2>8. CASE Guide!EmbedFails
    BY <2>8, FailKeeps
  <2>9. CASE Guide!Save
    BY <2>9, SaveKeeps
  <2>10. CASE Guide!Swap
    BY <2>10, SwapKeeps
  <2>11. CASE Guide!Ask
    BY <2>11, AskKeeps
  <2>12. CASE Guide!Rank
    BY <2>12, RankKeeps
  <2>13. CASE Guide!Forget
    BY <2>13, ForgetKeeps
  <2>14. CASE UNCHANGED Guide!vars
    <3>1. UNCHANGED <<disk, guideConf, cache, guideIndex, guidePc, guideAt, parsed, scanned,
                      guideKnown, guideRows, moved, guideQuery, seed>>
      BY <2>14 DEF Guide!vars, Guide!disks, Guide!scan, Guide!seeding
    <3>2. guideConf # Guide!Down \/ guideQuery'.pc = "none"
      BY <3>1 DEF GuideInv, BuildFits
    <3>3. GuideTyped' /\ VectorsFit' /\ NamesOnce' /\ BuildFits'
      BY <3>1, <3>2, AskedOnly
    <3> QED  BY <3>1, <3>3, QueryStays DEF GuideInv
  <2> QED  BY <2>1, <2>2, <2>3, <2>4, <2>5, <2>6, <2>7, <2>8, <2>9, <2>10, <2>11, <2>12, <2>13,
              <2>14 DEF Guide!Next
<1>3. GuideInv => GuidesAreCurrent
  BY GuideTells DEF GuidesAreCurrent
<1> QED  BY <1>1, <1>2, <1>3, PTL DEF Guide!Spec
=============================================================================

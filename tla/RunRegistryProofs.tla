-------------------------- MODULE RunRegistryProofs -------------------------
(***************************************************************************)
(* Proofs about the two registries, for any sets of sessions and threads   *)
(* and any number of instances.  What makes SlotsMatchHolders inductive is *)
(* that a thread works for a session with a name, and has captured an      *)
(* instance from the moment it may register on it.                         *)
(***************************************************************************)
EXTENDS RunRegistry, TLAPS

\* Everything but an idle thread works for a session whose launch was started.
TargetsAreNamed == \A t \in Threads : pc[t] # "free" => target[t] \in named

\* Where a thread relies on the instance it has captured.
Captured(t) ==
  pc[t] \in {"recover", "register", "claimed", "running", "spawned", "child"}

InstancesAreCaptured == \A t \in Threads : Captured(t) => inst[t] \in Instances

IInv ==
  /\ TypeOK
  /\ TargetsAreNamed
  /\ InstancesAreCaptured
  /\ SlotsMatchHolders

\* The registry is empty and every thread idle.
LEMMA InitInv == Init => IInv
  BY MaxInstancesAssumption, NoneIsNoThread
     DEF Init, IInv, TypeOK, PCs, TargetsAreNamed, Captured,
         InstancesAreCaptured, SlotsMatchHolders, Holds, Instances

\* GetOrCreate hands out an instance, and at most fills in an absent entry.
LEMMA GetOrCreateGives ==
  ASSUME TypeOK, NEW t \in Threads, GetOrCreate(t)
  PROVE  \E i \in Instances :
           /\ inst' = [inst EXCEPT ![t] = i]
           /\ current' = i
           /\ created' \in 0..MaxInstances
           /\ current # 0 => current' = current
<1>1. MaxInstances \in Nat /\ current \in 0..MaxInstances /\ created \in 0..MaxInstances
  BY MaxInstancesAssumption DEF TypeOK
<1>2. CASE current # 0
  <2>1. /\ inst' = [inst EXCEPT ![t] = current]
        /\ current' = current /\ created' = created
    BY <1>2 DEF GetOrCreate
  <2>2. current \in Instances
    BY <1>1, <1>2 DEF Instances
  <2>3. QED
    BY <1>1, <2>1, <2>2
<1>3. CASE current = 0
  <2>1. /\ created < MaxInstances
        /\ inst' = [inst EXCEPT ![t] = created + 1]
        /\ current' = created + 1 /\ created' = created + 1
    BY <1>3 DEF GetOrCreate
  <2>2. created + 1 \in Instances /\ created + 1 \in 0..MaxInstances
    BY <1>1, <2>1 DEF Instances
  <2>3. QED
    BY <1>3, <2>1, <2>2
<1>4. QED
  BY <1>2, <1>3

\* Every step of a thread, a launch or an exit keeps the invariant.
LEMMA NextInv == IInv /\ [Next]_vars => IInv'
<1> SUFFICES ASSUME IInv, [Next]_vars PROVE IInv'
  OBVIOUS
<1> USE MaxInstancesAssumption, NoneIsNoThread
    DEF IInv, TypeOK, PCs, TargetsAreNamed, Captured, InstancesAreCaptured,
        SlotsMatchHolders, Holds, Instances, Goto
<1>1. ASSUME NEW t \in Threads, NEW s \in Sessions, Commit(t, s) PROVE IInv'
  BY <1>1 DEF Commit
<1>2. ASSUME NEW t \in Threads, NEW s \in Sessions, Launch(t, s) PROVE IInv'
  BY <1>2 DEF Launch
<1>3. ASSUME NEW t \in Threads, NEW s \in Sessions, Recover(t, s) PROVE IInv'
  <2>1. PICK i \in Instances :
          /\ inst' = [inst EXCEPT ![t] = i]
          /\ current' = i
          /\ created' \in 0..MaxInstances
    BY <1>3, GetOrCreateGives DEF Recover
  <2>2. /\ pc[t] = "free" /\ s \in rows
        /\ target' = [target EXCEPT ![t] = s]
        /\ pc' = [pc EXCEPT ![t] = "recover"]
        /\ UNCHANGED <<slots, named, rows>>
    BY <1>3 DEF Recover
  <2>3. TypeOK' /\ TargetsAreNamed' /\ InstancesAreCaptured'
    BY <2>1, <2>2
  <2>4. ASSUME NEW j \in Instances, NEW r \in Sessions, NEW u \in Threads
        PROVE  slots'[j][r] = u <=> Holds(u)' /\ inst'[u] = j /\ target'[u] = r
    <3>1. CASE u = t
      BY <2>2, <3>1
    <3>2. CASE u # t
      <4>1. pc'[u] = pc[u] /\ inst'[u] = inst[u] /\ target'[u] = target[u]
        BY <2>1, <2>2, <3>2
      <4>2. QED
        BY <2>2, <4>1
    <3>3. QED
      BY <3>1, <3>2
  <2>5. QED
    BY <2>3, <2>4
<1>4. ASSUME NEW t \in Threads, RecoverSession(t) PROVE IInv'
  <2>1. /\ pc[t] = "recover"
        /\ \E where \in {"free", "get", "lookup"} : pc' = [pc EXCEPT ![t] = where]
        /\ UNCHANGED <<current, created, slots, target, inst, named, rows>>
    BY <1>4 DEF RecoverSession
  <2>2. QED
    BY <2>1
<1>5. ASSUME NEW t \in Threads, LookupRegistry(t) PROVE IInv'
  BY <1>5 DEF LookupRegistry
<1>6. ASSUME NEW t \in Threads, NotifyOrRespawn(t) PROVE IInv'
  <2>1. /\ pc[t] = "notify"
        /\ \E where \in {"free", "get"} : pc' = [pc EXCEPT ![t] = where]
        /\ UNCHANGED <<current, created, slots, target, inst, named, rows>>
    BY <1>6 DEF NotifyOrRespawn
  <2>2. QED
    BY <2>1
<1>7. ASSUME NEW t \in Threads, CaptureRegistry(t) PROVE IInv'
  <2>1. PICK i \in Instances :
          /\ inst' = [inst EXCEPT ![t] = i]
          /\ current' = i
          /\ created' \in 0..MaxInstances
    BY <1>7, GetOrCreateGives DEF CaptureRegistry
  <2>2. /\ pc[t] = "get"
        /\ pc' = [pc EXCEPT ![t] = "register"]
        /\ UNCHANGED <<slots, target, named, rows>>
    BY <1>7 DEF CaptureRegistry
  <2>3. TypeOK' /\ TargetsAreNamed' /\ InstancesAreCaptured'
    BY <2>1, <2>2
  <2>4. SlotsMatchHolders'
    BY <2>1, <2>2
  <2>5. QED
    BY <2>3, <2>4
<1>8. ASSUME NEW t \in Threads, RegisterAndContext(t) PROVE IInv'
  <2>1. CASE slots[inst[t]][target[t]] # None
    BY <1>8, <2>1 DEF RegisterAndContext
  <2>2. CASE slots[inst[t]][target[t]] = None
    <3>1. /\ pc[t] = "register"
          /\ slots' = [slots EXCEPT ![inst[t]][target[t]] = t]
          /\ pc' = [pc EXCEPT ![t] = "claimed"]
          /\ UNCHANGED <<current, created, target, inst, named, rows>>
      BY <1>8, <2>2 DEF RegisterAndContext
    <3>2. inst[t] \in Instances /\ target[t] \in Sessions
      BY <3>1
    <3>3. TypeOK' /\ TargetsAreNamed' /\ InstancesAreCaptured'
      BY <3>1, <3>2
    <3>4. SlotsMatchHolders'
      BY <2>2, <3>1, <3>2
    <3>5. QED
      BY <3>3, <3>4
  <2>3. QED
    BY <2>1, <2>2
<1>9. ASSUME NEW t \in Threads, StartGoroutine(t) PROVE IInv'
  BY <1>9 DEF StartGoroutine
<1>10. ASSUME NEW t \in Threads, Release(t) PROVE IInv'
  BY <1>10 DEF Release
<1>11. ASSUME NEW t \in Threads, RemoveIfEmpty(t) PROVE IInv'
  BY <1>11 DEF RemoveIfEmpty, IsEmpty
<1>12. ASSUME NEW t \in Threads, NEW c \in Threads, NEW s \in Sessions,
              Spawn(t, c, s)
       PROVE  IInv'
  BY <1>12 DEF Spawn
<1>13. ASSUME NEW t \in Threads, ChildStart(t) PROVE IInv'
  BY <1>13 DEF ChildStart
<1>14. ASSUME NEW t \in Threads, ChildRelease(t) PROVE IInv'
  BY <1>14 DEF ChildRelease
<1>15. CASE UNCHANGED vars
  BY <1>15 DEF vars
<1>16. QED
  BY <1>1, <1>2, <1>3, <1>4, <1>5, <1>6, <1>7, <1>8, <1>9, <1>10, <1>11,
     <1>12, <1>13, <1>14, <1>15
     DEF Next

\* The strengthened invariant holds of every run of the launchers, the commit
\* notifier and the session goroutines.
THEOREM Invariance == Spec => []IInv
  BY InitInv, NextInv, PTL DEF Spec

\* The registries, the captured pointers and the names keep their types: no
\* goroutine creates the row of a session whose name was not reserved.
THEOREM TypeCorrect == Spec => []TypeOK
  BY Invariance, PTL DEF IInv

\* No path of RegisterAndContext, release or spawn_agent leaks a slot, frees
\* another goroutine's or puts two holders of a session in one registry.
THEOREM SlotsAndHoldersAgree == Spec => []SlotsMatchHolders
  BY Invariance, PTL DEF IInv

-----------------------------------------------------------------------------
\* A holder's own slot keeps RemoveIfEmpty from dropping its registry.
LEMMA HolderKeepsRegistry ==
  ASSUME IInv, NEW t \in Threads, Holds(t), inst[t] = current
  PROVE  current # 0 /\ ~IsEmpty(current)
  BY NoneIsNoThread
     DEF IInv, TypeOK, InstancesAreCaptured, Captured, SlotsMatchHolders, Holds,
         IsEmpty, Instances

StaysReachable ==
  \A t \in Threads :
    Holds(t) /\ inst[t] = current /\ Holds(t)' => inst'[t] = current'

\* The entry of a held, reachable instance is not replaced (RemoveIfEmpty).
LEMMA ReachableStep == IInv /\ [Next]_vars => [StaysReachable]_vars
<1> SUFFICES ASSUME IInv, Next, NEW u \in Threads,
                    Holds(u), inst[u] = current, Holds(u)'
             PROVE  inst'[u] = current'
  BY DEF StaysReachable
<1>1. current # 0 /\ ~IsEmpty(current)
  BY HolderKeepsRegistry
<1> USE DEF IInv, TypeOK, Holds
<1>2. ASSUME NEW t \in Threads, NEW s \in Sessions,
             Commit(t, s) \/ Launch(t, s)
      PROVE  inst'[u] = current'
  BY <1>2 DEF Commit, Launch
<1>3. ASSUME NEW t \in Threads, NEW s \in Sessions, Recover(t, s)
      PROVE  inst'[u] = current'
  BY <1>1, <1>3, GetOrCreateGives DEF Recover
<1>4. ASSUME NEW t \in Threads, LookupRegistry(t) PROVE inst'[u] = current'
  BY <1>4 DEF LookupRegistry
<1>5. ASSUME NEW t \in Threads, CaptureRegistry(t) PROVE inst'[u] = current'
  BY <1>1, <1>5, GetOrCreateGives DEF CaptureRegistry
<1>6. ASSUME NEW t \in Threads, RemoveIfEmpty(t) PROVE inst'[u] = current'
  BY <1>1, <1>6 DEF RemoveIfEmpty
<1>7. ASSUME NEW t \in Threads, NEW c \in Threads, NEW s \in Sessions,
             Spawn(t, c, s)
      PROVE  inst'[u] = current'
  BY <1>7 DEF Spawn
<1>8. ASSUME NEW t \in Threads,
             \/ RecoverSession(t) \/ NotifyOrRespawn(t) \/ RegisterAndContext(t)
             \/ StartGoroutine(t) \/ Release(t) \/ ChildStart(t) \/ ChildRelease(t)
      PROVE  inst'[u] = current'
  BY <1>8 DEF RecoverSession, NotifyOrRespawn, RegisterAndContext,
              StartGoroutine, Release, ChildStart, ChildRelease
<1>9. QED
  BY <1>2, <1>3, <1>4, <1>5, <1>6, <1>7, <1>8 DEF Next

\* What registering before the slow work and the atomic RemoveIfEmpty are worth
\* together: a goroutine whose claim landed on the reachable registry is found
\* by the commit notifier until it releases the slot.
THEOREM HoldersStayReachable == Spec => ReachableStaysReachable
<1>1. IInv /\ [Next]_vars => [StaysReachable]_vars
  BY ReachableStep
<1>2. QED
  BY Invariance, <1>1, PTL DEF Spec, ReachableStaysReachable, StaysReachable
=============================================================================

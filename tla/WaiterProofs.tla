---------------------------- MODULE WaiterProofs ----------------------------
(***************************************************************************)
(* Proofs about the waiter, for any set of callers and any number of       *)
(* notifies.  The invariant ties the channel to the counter: channel n is  *)
(* the one the (n+1)-st notify closes, so a caller that still selects on   *)
(* an open channel has the current one in its hand and a counter that has  *)
(* not moved since it looked.                                              *)
(***************************************************************************)
EXTENDS Waiter, TLAPS

\* Channels are closed in order, each by the notify that moves the counter.
ChannelsFollowCounter ==
  /\ ch = counter
  /\ \A c \in Nat : c \in closed <=> c < ch

\* What each caller may know where it stands.
CallerKnows(p) ==
  /\ last[p] <= counter
  /\ pc[p] = "select" => held[p] <= ch /\ (held[p] = ch => counter = last[p])
  /\ pc[p] = "timeout" => timed[p]
  /\ pc[p] = "done" =>
       /\ ret[p].val >= last[p]
       /\ ~ret[p].err /\ ret[p].val = last[p] => timed[p]

IInv == TypeOK /\ ChannelsFollowCounter /\ \A p \in Callers : CallerKnows(p)

\* Nothing was notified and nobody waits.
LEMMA InitInv == Init => IInv
  BY MaxNotifyAssumption
     DEF Init, IInv, TypeOK, PCs, ChannelsFollowCounter, CallerKnows

\* A notify and every step of a caller keep the invariant.
LEMMA NextInv == IInv /\ [Next]_vars => IInv'
<1> SUFFICES ASSUME IInv, [Next]_vars PROVE IInv'
  OBVIOUS
<1> USE DEF IInv, TypeOK, PCs, ChannelsFollowCounter, CallerKnows
<1>1. CASE Notify
  <2>1. TypeOK'
    BY <1>1 DEF Notify, callerVars
  <2>2. ChannelsFollowCounter'
    BY <1>1 DEF Notify
  <2>3. ASSUME NEW p \in Callers PROVE CallerKnows(p)'
    BY <1>1 DEF Notify, callerVars
  <2>4. QED
    BY <2>1, <2>2, <2>3
<1>2. ASSUME NEW p \in Callers, Snapshot(p) PROVE IInv'
  BY <1>2 DEF Snapshot
<1>3. ASSUME NEW p \in Callers, SkipWait(p) PROVE IInv'
  BY <1>3 DEF SkipWait
<1>4. ASSUME NEW p \in Callers, WaitAfter(p) PROVE IInv'
  BY <1>4 DEF WaitAfter
<1>5. ASSUME NEW p \in Callers, CheckCounter(p) PROVE IInv'
  <2>1. CASE counter # last[p]
    <3>1. /\ pc' = [pc EXCEPT ![p] = "done"]
          /\ ret' = [ret EXCEPT ![p] = [val |-> counter, err |-> FALSE]]
          /\ UNCHANGED <<counter, ch, closed, last, held, timed, cancelled>>
      BY <1>5, <2>1 DEF CheckCounter
    <3>2. counter \in Nat /\ last[p] \in Nat /\ last[p] <= counter
      OBVIOUS
    <3>3. TypeOK'
      BY <3>1
    <3>4. ASSUME NEW q \in Callers PROVE CallerKnows(q)'
      BY <2>1, <3>1, <3>2
    <3>5. QED
      BY <3>1, <3>3, <3>4
  <2>2. CASE counter = last[p]
    BY <1>5, <2>2 DEF CheckCounter
  <2>3. QED
    BY <2>1, <2>2
<1>6. ASSUME NEW p \in Callers, Notified(p) PROVE IInv'
  BY <1>6 DEF Notified
<1>7. ASSUME NEW p \in Callers, TimerFires(p) PROVE IInv'
  BY <1>7 DEF TimerFires
<1>8. ASSUME NEW p \in Callers, TimeoutReturn(p) PROVE IInv'
  BY <1>8 DEF TimeoutReturn
<1>9. ASSUME NEW p \in Callers, CtxReturn(p) PROVE IInv'
  BY <1>9 DEF CtxReturn
<1>10. ASSUME NEW p \in Callers, Resume(p) PROVE IInv'
  BY <1>10 DEF Resume
<1>11. ASSUME NEW p \in Callers, Cancel(p) PROVE IInv'
  BY <1>11 DEF Cancel
<1>12. CASE UNCHANGED vars
  BY <1>12 DEF vars
<1>13. QED
  BY <1>1, <1>2, <1>3, <1>4, <1>5, <1>6, <1>7, <1>8, <1>9, <1>10, <1>11, <1>12
     DEF Next, WaitStep

\* The strengthened invariant holds in every behaviour of the waiter code.
THEOREM Invariance == Spec => []IInv
  BY InitInv, NextInv, PTL DEF Spec

\* Every variable of the waiter keeps its type, the uint64 counter included.
THEOREM TypeCorrect == Spec => []TypeOK
  BY Invariance, PTL DEF IInv

\* No caller of waitAfter sleeps on an open channel after a notify.
THEOREM NoMissedNotify == Spec => []AsleepMeansNoNews
<1>1. IInv => AsleepMeansNoNews
  BY DEF IInv, TypeOK, ChannelsFollowCounter, CallerKnows, AsleepMeansNoNews
<1>2. QED
  BY Invariance, <1>1, PTL

\* waitAfter's result tells a notify from a timeout.
THEOREM ReturnTellsTheTruth == Spec => []TruthfulReturn
<1>1. IInv => TruthfulReturn
  BY DEF IInv, CallerKnows, TruthfulReturn
<1>2. QED
  BY Invariance, <1>1, PTL
-----------------------------------------------------------------------------
\* The start is a start of LevelWait.
LEMMA LevelInit == Init => Level!Init
  BY DEF Init, Level!Init, PhaseOf

\* Every step is one of LevelWait or none of it.
LEMMA LevelNext == IInv /\ [Next]_vars => [Level!Next]_Level!vars
<1> SUFFICES ASSUME IInv, [Next]_vars PROVE [Level!Next]_Level!vars
  OBVIOUS
<1> USE DEF IInv, TypeOK, PCs, PhaseOf, Level!vars
<1>1. CASE Notify
  BY <1>1 DEF Notify, callerVars, Level!Next, Level!Bump
<1>2. ASSUME NEW p \in Callers, Snapshot(p) PROVE Level!Arm(p)
  BY <1>2 DEF Snapshot, Level!Arm
<1>3. ASSUME NEW p \in Callers, SkipWait(p) PROVE Level!Leave(p)
  BY <1>3 DEF SkipWait, Level!Leave
<1>4. ASSUME NEW p \in Callers, WaitAfter(p) PROVE Level!Wait(p)
  BY <1>4 DEF WaitAfter, Level!Wait
<1>5. ASSUME NEW p \in Callers, CheckCounter(p)
      PROVE  Level!Return(p, FALSE) \/ UNCHANGED Level!vars
  <2>1. CASE counter # last[p]
    BY <1>5, <2>1 DEF CheckCounter, Level!Return
  <2>2. CASE counter = last[p]
    BY <1>5, <2>2 DEF CheckCounter
  <2>3. QED
    BY <2>1, <2>2
<1>6. ASSUME NEW p \in Callers, Notified(p) PROVE UNCHANGED Level!vars
  BY <1>6 DEF Notified
<1>7. ASSUME NEW p \in Callers, TimerFires(p) PROVE UNCHANGED Level!vars
  BY <1>7 DEF TimerFires
<1>8. ASSUME NEW p \in Callers, TimeoutReturn(p) PROVE Level!Return(p, FALSE)
  BY <1>8 DEF TimeoutReturn, Level!Return
<1>9. ASSUME NEW p \in Callers, CtxReturn(p) PROVE Level!Return(p, TRUE)
  BY <1>9 DEF CtxReturn, Level!Return
<1>10. ASSUME NEW p \in Callers, Resume(p) PROVE Level!Leave(p)
  BY <1>10 DEF Resume, Level!Leave
<1>11. ASSUME NEW p \in Callers, Cancel(p) PROVE UNCHANGED Level!vars
  BY <1>11 DEF Cancel
<1>12. CASE UNCHANGED vars
  BY <1>12 DEF vars
<1>13. QED
  BY <1>1, <1>2, <1>3, <1>4, <1>5, <1>6, <1>7, <1>8, <1>9, <1>10, <1>11, <1>12
     DEF Next, WaitStep, Level!Next

\* The safety part of IsLevelWait: every step of the channel code is a step of
\* the level-triggered wait or invisible to it.
THEOREM ImplementsLevelWait == Spec => Level!Init /\ [][Level!Next]_Level!vars
  BY LevelInit, LevelNext, Invariance, PTL DEF Spec
=============================================================================

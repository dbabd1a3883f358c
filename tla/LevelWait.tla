----------------------------- MODULE LevelWait ------------------------------
(***************************************************************************)
(* What the callers of Handle.WaitAfter rely on: a level-triggered wait.   *)
(* There is only a counter, no channel: a caller that waits for the        *)
(* counter to pass its snapshot can leave as soon as it has, may leave at  *)
(* a timeout or a cancel, and takes the counter of that moment with it.    *)
(***************************************************************************)
EXTENDS Naturals

CONSTANT Callers

VARIABLES counter, phase, last, ret

vars == <<counter, phase, last, ret>>

Init ==
  /\ counter = 0
  /\ phase = [p \in Callers |-> "out"]
  /\ last = [p \in Callers |-> 0]
  /\ ret = [p \in Callers |-> [val |-> 0, err |-> FALSE]]

Bump == counter' = counter + 1 /\ UNCHANGED <<phase, last, ret>>

Arm(p) ==
  /\ phase[p] = "out"
  /\ phase' = [phase EXCEPT ![p] = "armed"]
  /\ last' = [last EXCEPT ![p] = counter]
  /\ UNCHANGED <<counter, ret>>

Leave(p) ==
  /\ phase[p] \in {"armed", "done"}
  /\ phase' = [phase EXCEPT ![p] = "out"]
  /\ UNCHANGED <<counter, last, ret>>

Wait(p) ==
  /\ phase[p] = "armed"
  /\ phase' = [phase EXCEPT ![p] = "waiting"]
  /\ UNCHANGED <<counter, last, ret>>

Return(p, err) ==
  /\ phase[p] = "waiting"
  /\ phase' = [phase EXCEPT ![p] = "done"]
  /\ ret' = [ret EXCEPT ![p] = [val |-> counter, err |-> err]]
  /\ UNCHANGED <<counter, last>>

\* The return a notify owes the caller.
ReturnNews(p) == counter # last[p] /\ \E err \in BOOLEAN : Return(p, err)

Next ==
  \/ Bump
  \/ \E p \in Callers :
       \/ Arm(p) \/ Leave(p) \/ Wait(p)
       \/ \E err \in BOOLEAN : Return(p, err)

Spec ==
  /\ Init /\ [][Next]_vars
  /\ \A p \in Callers : WF_vars(ReturnNews(p))
=============================================================================

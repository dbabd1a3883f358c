------------------------------ MODULE MCObserver ------------------------------
(***************************************************************************)
(* Observer in two small worlds: in "ends" the store works and a process   *)
(* is signalled, stopped or dies; in "errors" any store call may fail, in  *)
(* the one life of a process that may be stopped, and a session that       *)
(* settled is not revived.                                                 *)
(***************************************************************************)
EXTENDS Observer

VARIABLE world

MCInit == Init /\ world \in {"ends", "errors"}

OneLife ==
  /\ ctx' = "live" /\ (main = "down" => ends = 0)
  /\ \A s \in Sessions : status[s] \in Terminal => status'[s] = status[s]

Over == world = "errors" /\ main = "down" /\ ends > 0

MCNext ==
  \/ /\ Next /\ UNCHANGED world
     /\ IF world = "errors" THEN OneLife ELSE dropped' = {}
  \/ Over /\ UNCHANGED <<vars, world>>

MCSpec == MCInit /\ [][MCNext]_<<vars, world>> /\ Fairness
=============================================================================

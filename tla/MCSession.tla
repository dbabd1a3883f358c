------------------------------ MODULE MCSession ------------------------------
(***************************************************************************)
(* SessionLifecycle in two small worlds: in "family" a main agent spawns a *)
(* sub-agent, which is cancelled by the canceller and at its parent's end; *)
(* in "alone" it spawns none, and is itself cancelled, again and again,    *)
(* a chat session or a main agent.                                         *)
(***************************************************************************)
EXTENDS SessionLifecycle

VARIABLE world

MCInit ==
  /\ Init
  /\ \/ world = "family" /\ interactive = {}
     \/ world = "alone"

MCNext ==
  /\ Next /\ UNCHANGED world
  /\ world = "family" => \A k \in DOMAIN stack'[Canceller] : stack'[Canceller][k].of # Root
  /\ world = "alone" => pc'[Root] # "spawn"

MCSpec == MCInit /\ [][MCNext]_<<vars, world>> /\ Fairness
=============================================================================

---------------------------- MODULE MCEventLoop ----------------------------
(***************************************************************************)
(* The event loop in two worlds, one chosen at the start: an autonomous    *)
(* session with every kind of reply, and a chat whose turns make several   *)
(* tool calls and whose context is compacted; either dies up to MaxStops   *)
(* times.                                                                  *)
(***************************************************************************)
EXTENDS StepLoop

VARIABLE instance

Task == INSTANCE StepLoop WITH Profiles <- {"task"}, MaxCalls <- 1, MaxGen <- 0
Chat == INSTANCE StepLoop WITH
  Profiles <- {"chat", "chatFirst"}, Replies <- {"text"}, MaxStep <- 3

MCInit ==
  \/ instance = "task" /\ Task!Init
  \/ instance = "chat" /\ Chat!Init

MCNext ==
  /\ UNCHANGED instance
  /\ \/ instance = "task" /\ Task!Next
     \/ instance = "chat" /\ Chat!Next

MCSpec == MCInit /\ [][MCNext]_<<instance, vars>>

=============================================================================

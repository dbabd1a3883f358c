--------------------------- MODULE MCRunRegistry ----------------------------
(***************************************************************************)
(* The run manager in three worlds, one chosen at the start.  "registry":  *)
(* a root and a sub-agent, three threads and up to three registry          *)
(* instances, one after the other: a thread to leave, one to launch in its *)
(* shadow and one to be the rival.  "told" and "cancelled": the life cycle *)
(* of a root and its sub-agent while the whole process crashes and comes   *)
(* back any number of times, and the user writes to the sub-agent, or      *)
(* cancels the root and with it the sub-agent.                             *)
(***************************************************************************)
EXTENDS RunRegistry, TLC

CONSTANT Worlds   \* of "registry", "told" and "cancelled"

VARIABLES world, status, fresh, midCall, resting, told, clobbered, crossed, stage,
          ctxDone, woken, fire, stack

life == <<status, fresh, midCall, resting, told, clobbered, crossed, stage, ctxDone,
          woken, fire, stack>>

Told == INSTANCE SessionLifecycle WITH
  Root <- "root", Kids <- {"kid"}, Interactive <- {}, Awaiters <- {"root"},
  Cancellable <- {}, Messaged <- {"kid"}, Failing <- {},
  interactive <- {}, pc <- stage
Cancelled == INSTANCE SessionLifecycle WITH
  Root <- "root", Kids <- {"kid"}, Interactive <- {}, Awaiters <- {"root"},
  Cancellable <- {"root"}, Messaged <- {}, Failing <- {},
  interactive <- {}, pc <- stage

MCInit ==
  /\ world \in Worlds /\ Init /\ Told!Init
  /\ world # "registry" => \A t \in Threads : target[t] = CHOOSE s \in Sessions : TRUE

MCNext ==
  /\ UNCHANGED world
  /\ \/ world = "registry" /\ Next /\ UNCHANGED life
     \/ world = "told" /\ Told!NextOrCrash /\ UNCHANGED vars
     \/ world = "cancelled" /\ Cancelled!NextOrCrash /\ UNCHANGED vars

MCSpec == MCInit /\ [][MCNext]_<<world, vars, life>>

\* Sound where every state is one of the registry.
ThreadSymmetry == Permutations(Threads)

-----------------------------------------------------------------------------
\* Properties of SessionLifecycle, checked here because the process crashes.

\* Through any number of process crashes the end of a life is told its parent,
\* once unless a cancel's verdict was written over, and a session leaves a terminal
\* status only on an unread Input or by that (terminateAndNotifyParent, Run's check
\* of the status).  Where nobody cancels the root the exceptions cannot occur.
EndsAcrossCrashes == []Cancelled!ToldOnce /\ Cancelled!StatusMatrix
=============================================================================

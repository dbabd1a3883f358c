------------------------------ MODULE MCServer ------------------------------
(***************************************************************************)
(* The server from outside, each part in a small world of its own: the     *)
(* badge of one run with two roots, notifications of one session, pages    *)
(* over several runs; `amplio monitor` and the runs it polls; the          *)
(* processes and commands of one data directory: two servers on one port,  *)
(* one with a certificate the client does not trust and a lending listener *)
(* that may fail, a headless run between them, and the two commands.       *)
(*                                                                         *)
(* One of the worlds is chosen at the start.  The variables of the others  *)
(* stay "", those of Service as they are before anything is started.       *)
(***************************************************************************)
EXTENDS Service, WorldServer, Sequences

notice == <<notices, notifier, stepped>>
board == <<now, writes, run, root, slot, patch, deleting, rewrites, rewriting,
           walk, steady, unread>>
monitor == <<sessions, up, changes, pos, polls, seen, last, terminal, bad, lines,
             fresh, code>>

NoBoard ==
  /\ now = "" /\ writes = "" /\ run = "" /\ root = "" /\ slot = "" /\ patch = ""
  /\ deleting = "" /\ rewrites = "" /\ rewriting = "" /\ walk = "" /\ steady = ""
  /\ unread = "" /\ notices = "" /\ notifier = "" /\ stepped = ""
NoMonitor ==
  /\ sessions = "" /\ up = "" /\ changes = "" /\ pos = "" /\ polls = ""
  /\ seen = "" /\ last = "" /\ terminal = "" /\ bad = "" /\ lines = ""
  /\ fresh = "" /\ code = ""

-----------------------------------------------------------------------------
(* The constants of the dashboard and of the monitor.                      *)

ThreeRuns == {1, 2, 3}
TwoRoots == {"main-agent", "chatbot"}
Edits == {"starred", "grade", "archived", "seen"}
Scripts == {"n1", "n2", "n3"}

All == [archived |-> FALSE, filter |-> "", starred |-> FALSE, grade |-> 0, limit |-> 0]
Filters == {[All EXCEPT !.grade = -1],
            [All EXCEPT !.archived = TRUE, !.filter = "active", !.limit = 3]}

TwoIds == <<"a", "b">>
AllKinds == {"autonomous", "interactive", "unknown"}

\* The badge is of one run that nobody pages to; pages are of three runs with
\* one root each that stays, archived under the client's hands.
Patching == IF patch' = <<>> THEN {} ELSE {patch'[2][k] : k \in DOMAIN patch'[2]}
OneRun == "archived" \notin Patching /\ \A r \in Runs \ {1} : run'[r] = Dash!NoRun
OneRoot ==
  /\ now' <= 1 /\ Patching \subseteq {"archived"}
  /\ \A r \in Runs : slot[r] \subseteq slot'[r] /\ "chatbot" \notin slot'[r]

(* The data directory.                                                     *)

OnePort == [p \in Procs \ Headless |-> "p1"]
FileOrFlag == [p \in Procs \ Headless |-> IF p \in DiskFails THEN {0} ELSE {0, -1}]
Untrusted == [p \in Procs \ Headless |-> IF p \in LendFails THEN "untrusted" ELSE "none"]

-----------------------------------------------------------------------------
MCInit ==
  /\ Init
  /\ \/ world \in {"badge", "notify", "pages"} /\ Dash!Init /\ NoMonitor
     \/ world = "watch" /\ Watch!Init /\ NoBoard
     \/ world = "service" /\ NoBoard /\ NoMonitor

MCNext ==
  /\ UNCHANGED world
  /\ \/ /\ world = "badge" /\ UNCHANGED <<notice, walk, steady, monitor, vars>>
        /\ Dash!Next /\ OneRun
     \/ world = "notify" /\ UNCHANGED <<board, monitor, vars>> /\ Dash!Next
     \/ /\ world = "pages" /\ UNCHANGED <<notice, monitor, vars>>
        /\ Dash!Next /\ OneRoot
     \/ world = "watch" /\ Watch!Next /\ UNCHANGED <<board, notice, vars>>
     \/ world = "service" /\ Next /\ UNCHANGED <<board, notice, monitor>>

MCSpec == MCInit /\ [][MCNext]_<<world, board, notice, monitor, vars>>
=============================================================================

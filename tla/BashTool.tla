------------------------------ MODULE BashTool ------------------------------
(***************************************************************************)
(* The bash tool (internal/tool/bash) and the view of what it left running *)
(* (internal/proctree, internal/server/processes.go). A call starts a      *)
(* shell in a session and group of its own with the run's id in its        *)
(* environment; the shell forks, its children may outlive it, leave the    *)
(* group or drop the environment. The deadline of a call, or the           *)
(* cancellation of its session, kills the group. A scan walks the          *)
(* processes one by one while all this goes on.                            *)
(*                                                                         *)
(* Pids are not used twice. A text is a sequence of bytes: 6 starts a      *)
(* two-byte character and 7 ends it, every other byte is a character.      *)
(***************************************************************************)
EXTENDS Integers, Sequences, SequencesExt, FiniteSetsExt

CONSTANTS
  Calls, RunOf,                 \* call -> the run whose agent made it
  Viewers, ViewOf,              \* viewer -> the run whose processes it asks for
  Pids,                         \* pids from 3 on; 1 is init, 2 the server
  Outputs,                      \* what the two streams of a command may hold
  MaxOutputs,                   \* max_output_length
  procCacheTTL,
  MaxTime, MaxAsks              \* bounds: ticks, and polls of a viewer

VARIABLES
  procs,      \* pid -> the process
  calls,      \* call -> its shell, its context and its answer
  viewers,    \* viewer -> its request
  cache,      \* run -> the last sample
  clock,
  slain       \* the processes the server killed

vars == <<procs, calls, viewers, cache, clock, slain>>

init == 1
server == 2

\* A run's mark is never empty, which is no mark; a stream is a sequence of
\* bytes, a limit a number of them.
BashAssumption ==
  /\ Calls # {} /\ \A p \in Pids : p \in Nat /\ p > server
  /\ \A c \in Calls : RunOf[c] # ""
  /\ \A v \in Viewers : ViewOf[v] # ""
  /\ \A out \in Outputs : out.stdout \in Seq(Int) /\ out.stderr \in Seq(Int)
  /\ MaxOutputs \subseteq Nat

-----------------------------------------------------------------------------
(* The answer's text.                                                      *)

Mark == <<90, 91>>
Note == <<80>>
Status(s) == <<70, 71, s>>
RuneStart(b) == b # 7

\* The longest prefix of whole characters within n bytes.
truncRunesEnd(s, n) ==
  IF n >= Len(s) THEN s
  ELSE SubSeq(s, 1, Max({k \in 0..n : k = 0 \/ RuneStart(s[k + 1])}))

\* The longest suffix of whole characters within n bytes.
truncRunesStart(s, n) ==
  IF n >= Len(s) THEN s
  ELSE SubSeq(s, Min({k \in (Len(s) - n + 1)..(Len(s) + 1) : k > Len(s) \/ RuneStart(s[k])}), Len(s))

\* Mutant of truncateText: the head alone is kept.
truncateHead(text, max) == truncRunesEnd(text, max)

\* Head and tail around the marker, within max bytes.
truncateText(text, max) ==
  LET half == (max - Len(Mark)) \div 2 IN
  IF Len(text) <= max THEN text
  ELSE IF Len(Mark) >= max THEN truncRunesEnd(Mark, max)
  ELSE truncRunesEnd(text, half) \o Mark \o truncRunesStart(text, half)

\* At most max bytes of a stream, with a note when it holds more by the time
\* its size is asked for.
readCapped(stream, more, max) ==
  SubSeq(stream, 1, IF max < Len(stream) THEN max ELSE Len(stream))
    \o (IF Len(stream) + more > max /\ (max < Len(stream) \/ more > 0) THEN Note ELSE <<>>)

\* formatOutput, joinParts: the streams that hold something, then the status.
formatOutput(stdout, stderr, status, max) ==
  LET Part(head, s) == IF s = <<>> THEN <<>> ELSE <<head>> \o s \o <<10>>
  IN truncateText(Part(60, stdout) \o Part(61, stderr) \o Status(status), max)

-----------------------------------------------------------------------------
(* Processes.                                                              *)

NoSample == [roots |-> {}, taken |-> 0]
Live == {p \in Pids : procs[p].at = "live"}
Unborn == {p \in Pids : procs[p].at = "unborn"}
Shells == {calls[c].shell : c \in {d \in Calls : calls[d].pc = "running"}}

\* What is left when the processes of a set end: a shell stays until the
\* server has waited for it, the children go to init.
Without(set) ==
  [p \in Pids |->
    IF p \in set THEN [procs[p] EXCEPT !.at = IF p \in Shells THEN "zombie" ELSE "gone"]
    ELSE IF procs[p].ppid \in set THEN [procs[p] EXCEPT !.ppid = init] ELSE procs[p]]

Init ==
  /\ procs = [p \in Pids |-> [at |-> "unborn", ppid |-> init, group |-> p, run |-> "", call |-> CHOOSE c \in Calls : TRUE]]
  /\ calls = [c \in Calls |-> [pc |-> "idle", shell |-> init, due |-> FALSE, killed |-> FALSE,
                               code |-> 0, status |-> 0, text |-> <<>>, max |-> 0]]
  /\ viewers = [v \in Viewers |-> [pc |-> "idle", asks |-> 0, todo |-> {}, found |-> {},
                               before |-> {}, answer |-> NoSample]]
  /\ cache = [run \in {ViewOf[v] : v \in Viewers} |-> <<>>]
  /\ clock = 0 /\ slain = {}

\* A process forks: the child is in its group and has its environment.
Fork(p) ==
  /\ p \in Live /\ Unborn # {}
  /\ procs' = [procs EXCEPT ![Min(Unborn)] = [procs[p] EXCEPT !.ppid = p]]
  /\ UNCHANGED <<calls, viewers, cache, clock, slain>>

\* setsid: a process that leads no group starts one of its own.
Leave(p) ==
  /\ p \in Live /\ procs[p].group # p
  /\ procs' = [procs EXCEPT ![p].group = p]
  /\ UNCHANGED <<calls, viewers, cache, clock, slain>>

\* env -i: a process replaces its environment.
Forget(p) ==
  /\ p \in Live /\ procs[p].run # ""
  /\ procs' = [procs EXCEPT ![p].run = ""]
  /\ UNCHANGED <<calls, viewers, cache, clock, slain>>

Exit(p) ==
  /\ p \in Live
  /\ procs' = Without({p})
  /\ UNCHANGED <<calls, viewers, cache, clock, slain>>

-----------------------------------------------------------------------------
(* A call.                                                                 *)

\* execute, detachTerminal, agentEnv: the shell leads a session of its own.
Start(c, max) ==
  /\ calls[c].pc = "idle" /\ Unborn # {}
  /\ procs' = [procs EXCEPT ![Min(Unborn)] =
       [at |-> "live", ppid |-> server, group |-> Min(Unborn), run |-> RunOf[c], call |-> c]]
  /\ calls' = [calls EXCEPT ![c] = [@ EXCEPT !.pc = "running", !.shell = Min(Unborn), !.max = max]]
  /\ UNCHANGED <<viewers, cache, clock, slain>>

\* The shell cannot be started.
StartFails(c, max) ==
  /\ calls[c].pc = "idle"
  /\ calls' = [calls EXCEPT ![c] = [@ EXCEPT !.pc = "waited", !.code = -1, !.max = max]]
  /\ UNCHANGED <<procs, viewers, cache, clock, slain>>

\* The timeout passes, or the session of the caller is cancelled.
Due(c) ==
  /\ calls[c].pc \in {"running", "reaped", "waited"} /\ ~calls[c].due
  /\ calls' = [calls EXCEPT ![c].due = TRUE]
  /\ UNCHANGED <<procs, viewers, cache, clock, slain>>

\* killGroup: everybody in the group of the shell.
killGroup(c) == {p \in Live : procs[p].group = calls[c].shell}

\* cmd.Cancel, which the watcher of the context may still reach when the
\* shell has just been waited for.
Cancel(c) ==
  /\ calls[c].pc \in {"running", "reaped"} /\ calls[c].due /\ ~calls[c].killed
  /\ procs' = Without(killGroup(c))
  /\ slain' = slain \cup killGroup(c)
  /\ calls' = [calls EXCEPT ![c].killed = TRUE]
  /\ UNCHANGED <<viewers, cache, clock>>

\* cmd.Run: the shell has ended, by itself or killed.
Reap(c, code) ==
  /\ calls[c].pc = "running" /\ procs[calls[c].shell].at = "zombie"
  /\ (code = -1) = (calls[c].shell \in slain)
  /\ procs' = [procs EXCEPT ![calls[c].shell].at = "gone"]
  /\ calls' = [calls EXCEPT ![c] = [@ EXCEPT !.pc = "reaped", !.code = code]]
  /\ UNCHANGED <<viewers, cache, clock, slain>>

\* cmd.Run returns: nobody watches the context any more.
Waited(c) ==
  /\ calls[c].pc = "reaped"
  /\ calls' = [calls EXCEPT ![c].pc = "waited"]
  /\ UNCHANGED <<procs, viewers, cache, clock, slain>>

\* statusLine: the context is asked first, then the launch, then the code.
timedOut == 1
failed == 2
finished == 3
returned == 4
statusLine(c) ==
  IF calls[c].due THEN timedOut
  ELSE IF calls[c].shell = init THEN failed
  ELSE IF calls[c].code = 0 THEN finished ELSE returned

\* execute after Run: the files are read, capped, and removed. What still
\* runs may have written more by the time the size is asked for.
Return(c, out, more) ==
  /\ calls[c].pc = "waited"
  /\ calls[c].shell = init => out.stdout = <<>> /\ out.stderr = <<>>
  /\ more > 0 => \E p \in Live : procs[p].call = c
  /\ calls' = [calls EXCEPT ![c] = [@ EXCEPT
       !.pc = "returned", !.status = statusLine(c),
       !.text = formatOutput(readCapped(out.stdout, more, calls[c].max),
                             readCapped(out.stderr, 0, calls[c].max),
                             statusLine(c), calls[c].max)]]
  /\ UNCHANGED <<procs, viewers, cache, clock, slain>>

-----------------------------------------------------------------------------
(* Who is still running.                                                   *)

Fresh(run) == cache[run] # <<>> /\ clock - cache[run][1].taken <= procCacheTTL

\* handleProcesses, Scan: a fresh sample is answered; else the pids are listed.
Ask(v) ==
  /\ viewers[v].pc = "idle" /\ viewers[v].asks < MaxAsks
  /\ \/ /\ Fresh(ViewOf[v])
        /\ viewers' = [viewers EXCEPT ![v].pc = "answered", ![v].asks = @ + 1,
                                      ![v].answer = cache[ViewOf[v]][1]]
     \/ /\ ~Fresh(ViewOf[v])
        /\ viewers' = [viewers EXCEPT ![v].pc = "scanning", ![v].asks = @ + 1,
                                      ![v].todo = Live, ![v].found = {},
                                      ![v].before = {p \in Live : procs[p].run = ViewOf[v]}]
  /\ UNCHANGED <<procs, calls, cache, clock, slain>>

\* inspect, readStat: one process is read, if it is there and of this run.
Inspect(v, p) ==
  /\ viewers[v].pc = "scanning" /\ p \in viewers[v].todo
  /\ LET new == IF p \in Live /\ procs[p].run = ViewOf[v]
                THEN {[pid |-> p, ppid |-> procs[p].ppid]} ELSE {}
     IN viewers' = [viewers EXCEPT ![v].todo = @ \ {p}, ![v].found = @ \cup new]
  /\ UNCHANGED <<procs, calls, cache, clock, slain>>

\* What hangs under the roots: whoever is in every set that holds the roots
\* and the children of its members.
Under(roots, found) ==
  LET Whole(S) == roots \subseteq S /\ \A e \in S : {d \in found : d.ppid = e.pid} \subseteq S
  IN {e.pid : e \in {d \in found : \A S \in SUBSET found : Whole(S) => d \in S}}

\* Mutant of forest: only what init adopted is a root.
forestOfOrphans(found) == Under({e \in found : e.ppid = init}, found)

\* forest: who has no listed parent is a root.
forest(found) ==
  LET listed == {e.pid : e \in found}
  IN Under({e \in found : e.ppid \notin listed \/ e.ppid = e.pid}, found)

\* The scan is over, its sample goes to the cache and to the viewer.
Answer(v) ==
  /\ viewers[v].pc = "scanning" /\ viewers[v].todo = {}
  /\ LET sample == [roots |-> forest(viewers[v].found), taken |-> clock] IN
     /\ cache' = [cache EXCEPT ![ViewOf[v]] = <<sample>>]
     /\ viewers' = [viewers EXCEPT ![v] = [@ EXCEPT !.pc = "scanned", !.answer = sample]]
  /\ UNCHANGED <<procs, calls, clock, slain>>

\* The page polls again.
AskAgain(v) ==
  /\ viewers[v].pc \in {"answered", "scanned"}
  /\ viewers' = [viewers EXCEPT ![v] = [@ EXCEPT !.pc = "idle", !.found = {}, !.before = {},
                                              !.answer = NoSample]]
  /\ UNCHANGED <<procs, calls, cache, clock, slain>>

Tick == clock < MaxTime /\ clock' = clock + 1 /\ UNCHANGED <<procs, calls, viewers, cache, slain>>

Next ==
  \/ \E p \in Pids : Fork(p) \/ Leave(p) \/ Forget(p) \/ Exit(p)
  \/ \E c \in Calls :
       \/ \E max \in MaxOutputs : Start(c, max) \/ StartFails(c, max)
       \/ Due(c) \/ Cancel(c) \/ Waited(c)
       \/ \E code \in {-1, 0, 1} : Reap(c, code)
       \/ \E out \in Outputs, more \in {0, 1} : Return(c, out, more)
  \/ \E v \in Viewers : Ask(v) \/ Answer(v) \/ AskAgain(v) \/ \E p \in Pids : Inspect(v, p)
  \/ Tick

Spec == Init /\ [][Next]_vars

-----------------------------------------------------------------------------
(* What the agent and the operator rely on.                                *)

\* killGroup: once the deadline has struck, nothing of the command's group
\* runs on, whatever it forked in the meantime; and only what a deadline
\* struck is killed: a watcher that a finished command left behind lives on,
\* and the answer of a call whose processes were killed says so.
DeadlineKillsTheGroup ==
  /\ \A c \in Calls : calls[c].killed =>
       \A p \in Live : procs[p].group # calls[c].shell
  /\ \A p \in slain :
       LET c == procs[p].call IN calls[c].pc = "returned" => calls[c].status = timedOut

\* Scan, forest: the sample lists every process that carried the run's mark
\* from before the scan until after it, in spite of shells that end and
\* children that init adopts while the scan is under way.
ScanFindsSurvivors ==
  \A v \in Viewers : viewers[v].pc = "scanned" =>
    \A p \in viewers[v].before :
      p \in Live /\ procs[p].run = ViewOf[v] => p \in viewers[v].answer.roots

\* formatOutput: the answer keeps to the limit, and when the limit has room
\* for it the status line survives whatever the command wrote.
StatusSurvives ==
  \A c \in Calls : calls[c].pc = "returned" =>
    LET text == calls[c].text
        status == Status(calls[c].status)
    IN /\ Len(text) <= calls[c].max
       /\ calls[c].max >= 2 * Len(status) + Len(Mark) + 1 =>
            SubSeq(text, Len(text) - Len(status) + 1, Len(text)) = status

\* truncateText: "Back each cut off to a UTF-8 boundary so we never emit a
\* split rune."
NoSplitRune ==
  \A c \in Calls : LET text == calls[c].text IN
    \A i \in DOMAIN text :
      /\ text[i] = 6 => i < Len(text) /\ text[i + 1] = 7
      /\ text[i] = 7 => i > 1 /\ text[i - 1] = 6
=============================================================================

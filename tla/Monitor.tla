------------------------------ MODULE Monitor ------------------------------
(***************************************************************************)
(* `amplio client monitor` (cmd/amplio/monitor.go): an unattended watcher  *)
(* that samples the status of some runs over HTTP, prints one line per     *)
(* observed change and ends with an exit code that sums the batch up.      *)
(*                                                                         *)
(* The runs change, are restarted and are deleted between any two requests *)
(* of a poll, and the server goes away and comes back.  A line is a record *)
(* of the run and the two statuses; time is the number of polls.           *)
(***************************************************************************)
EXTENDS Integers, Sequences, FiniteSetsExt

CONSTANTS
  Runs,        \* the ids given on the command line, a sequence (deduplicated)
  Kinds,       \* what each id may be: "autonomous", "interactive", "unknown"
  MaxChanges,  \* bound: changes of the world
  MaxPolls     \* the timeout, in polls

VARIABLES
  world,       \* the status of each run on the server, or "absent", "chat"
  up,          \* the server answers
  changes,     \* changes of the world so far
  pos,         \* the run polled next; Len(Runs) + 1 between polls
  polls,       \* polls begun
  seen, last, terminal, bad,   \* monitorState
  lines,       \* what was printed
  fresh,       \* history: the runs whose status this poll got
  code         \* the exit code, or "running"

vars == <<world, up, changes, pos, polls, seen, last, terminal, bad, lines, fresh, code>>

Ids == {Runs[i] : i \in DOMAIN Runs}

MonitorAssumption ==
  /\ Runs \in Seq(Ids)
  /\ Kinds \subseteq {"autonomous", "interactive", "unknown"}

Terminal == {"concluded", "crashed", "cancelled"}

Born == [autonomous |-> Terminal \cup {"ongoing"}, interactive |-> {"chat"},
         unknown |-> {"absent"}]

Init ==
  /\ world \in [Ids -> UNION {Born[k] : k \in Kinds}]
  /\ up = TRUE /\ changes = 0
  /\ pos = 1 /\ polls = 1
  /\ seen = [r \in Ids |-> FALSE]
  /\ last = [r \in Ids |-> "-"]
  /\ terminal = [r \in Ids |-> FALSE]
  /\ bad = [r \in Ids |-> FALSE]
  /\ lines = << >> /\ fresh = {} /\ code = "running"

Watching == code = "running"

-----------------------------------------------------------------------------
(* The runs and the server, while the watcher watches.                     *)

(* An agent ends, a finished run is restarted, a finished run is deleted.  *)
Successors(s) ==
  CASE s = "ongoing"  -> Terminal
    [] s \in Terminal -> {"ongoing", "absent"}
    [] OTHER          -> {}

Change(r) ==
  /\ Watching /\ changes < MaxChanges
  /\ \E s \in Successors(world[r]) : world' = [world EXCEPT ![r] = s]
  /\ changes' = changes + 1
  /\ UNCHANGED <<up, pos, polls, seen, last, terminal, bad, lines, fresh, code>>

Outage ==
  /\ Watching /\ changes < MaxChanges
  /\ up' = ~up /\ changes' = changes + 1
  /\ UNCHANGED <<world, pos, polls, seen, last, terminal, bad, lines, fresh, code>>

-----------------------------------------------------------------------------
(* monitorPoll: what the answer to one request says of the run.  An id     *)
(* that is gone was deleted if it was seen before, else it never existed.  *)
Sample(r) ==
  CASE world[r] = "absent" -> IF seen[r] THEN "deleted" ELSE "not_found"
    [] world[r] = "chat"   -> "unsupported"
    [] OTHER               -> world[r]

Line(r, from, to) == [run |-> r, from |-> from, to |-> to]

(* Mutant of Observe: the change is printed, the status reported last is   *)
(* the one of the first sample.                                            *)
ObserveForgetful(r, s) ==
  LET first == ~seen[r]
      end   == s \in Terminal \cup {"deleted"}
      wrong == bad[r] \/ s \in {"unsupported", "not_found"}
  IN  /\ seen' = [seen EXCEPT ![r] = TRUE]
      /\ terminal' = [terminal EXCEPT ![r] = end]
      /\ bad' = [bad EXCEPT ![r] = wrong]
      /\ last' = [last EXCEPT ![r] = IF first THEN s ELSE @]
      /\ lines' = IF first
                    THEN IF end \/ wrong THEN Append(lines, Line(r, "-", s)) ELSE lines
                    ELSE IF last[r] = s THEN lines ELSE Append(lines, Line(r, last[r], s))

(* monitorState.observe: silence for a first sample that is not an answer  *)
(* and for a status reported already.                                      *)
Observe(r, s) ==
  LET first == ~seen[r]
      end   == s \in Terminal \cup {"deleted"}
      wrong == bad[r] \/ s \in {"unsupported", "not_found"}
  IN  /\ seen' = [seen EXCEPT ![r] = TRUE]
      /\ terminal' = [terminal EXCEPT ![r] = end]
      /\ bad' = [bad EXCEPT ![r] = wrong]
      /\ last' = [last EXCEPT ![r] = s]
      /\ lines' = IF first
                    THEN IF end \/ wrong THEN Append(lines, Line(r, "-", s)) ELSE lines
                    ELSE IF last[r] = s THEN lines ELSE Append(lines, Line(r, last[r], s))

(* One iteration of runMonitor's inner loop.  A run that cannot be watched *)
(* is not polled again; a request that fails is retried at the next poll.  *)
PollOne ==
  /\ Watching /\ pos <= Len(Runs)
  /\ LET r == Runs[pos]
     IN  \/ /\ ~bad[r] /\ up
            /\ Observe(r, Sample(r))
            /\ fresh' = fresh \cup {r}
         \/ /\ bad[r] \/ ~up
            /\ UNCHANGED <<seen, last, terminal, bad, lines, fresh>>
  /\ pos' = pos + 1
  /\ UNCHANGED <<world, up, changes, polls, code>>

Done == \A r \in Ids : terminal[r] \/ bad[r]

(* exitErr: what could not be watched outranks a crash, a crash a cancel.  *)
ExitCode ==
  LET kept == {last[r] : r \in {r \in Ids : ~bad[r]}}
  IN  CASE \E r \in Ids : bad[r] -> "unwatchable"
        [] OTHER -> IF "crashed" \in kept THEN "crashed"
                    ELSE IF "cancelled" \in kept THEN "cancelled" ELSE "ok"

(* The end of a poll: all finished, out of time, or the ticker.            *)
EndPoll ==
  /\ Watching /\ pos > Len(Runs)
  /\ \/ /\ Done
        /\ code' = ExitCode
        /\ UNCHANGED <<pos, polls, fresh>>
     \/ /\ ~Done /\ polls = MaxPolls
        /\ code' = "timeout"
        /\ UNCHANGED <<pos, polls, fresh>>
     \/ /\ ~Done /\ polls < MaxPolls
        /\ pos' = 1 /\ polls' = polls + 1 /\ fresh' = {}
        /\ UNCHANGED code
  /\ UNCHANGED <<world, up, changes, seen, last, terminal, bad, lines>>

(* The watcher is interrupted while it waits for the ticker.               *)
Interrupt ==
  /\ Watching /\ pos > Len(Runs) /\ ~Done
  /\ code' = "interrupted"
  /\ UNCHANGED <<world, up, changes, pos, polls, seen, last, terminal, bad, lines, fresh>>

Next == (\E r \in Ids : Change(r)) \/ Outage \/ PollOne \/ EndPoll \/ Interrupt

Spec == Init /\ [][Next]_vars

-----------------------------------------------------------------------------
(* What a script that reads the lines knows of a run: where its last line  *)
(* ends, or nothing.                                                       *)
LinesOf(r) == {i \in DOMAIN lines : lines[i].run = r}
Told(r) == IF LinesOf(r) = {} THEN "-" ELSE lines[Max(LinesOf(r))].to

(* A script that reacts to the lines and one that looks at the exit code   *)
(* are told the same story (monitor.go: observe, done, exitErr, and the    *)
(* comment on the exit codes): the lines of a run form a chain, and when   *)
(* the watch ends by itself the code is the one the last line of each run  *)
(* calls for, whatever was restarted, deleted or unreachable meanwhile.    *)
LinesTellTheExit ==
  /\ \A r \in Ids : \A i, j \in LinesOf(r) :
       (i < j /\ \A k \in LinesOf(r) : k <= i \/ j <= k) => lines[j].from = lines[i].to
  /\ code \in {"ok", "crashed", "cancelled", "unwatchable"} =>
       LET told == {Told(r) : r \in Ids}
       IN  /\ told \cap {"-", "ongoing"} = {}
           /\ code = "unwatchable" <=> told \cap {"unsupported", "not_found"} # {}
           /\ code = "crashed" =>
                "crashed" \in told /\ told \cap {"unsupported", "not_found"} = {}
           /\ code = "cancelled" =>
                "cancelled" \in told /\ told \cap {"crashed", "unsupported", "not_found"} = {}
           /\ code = "ok" => told \subseteq {"concluded", "deleted"}

(* "Watch runs until they finish ... then exit once all of them are        *)
(* finished at the same poll": a watch that ends by itself got a final     *)
(* status of every run it can watch in its last poll.  A request that      *)
(* fails keeps the status of an earlier poll, so this does not hold.       *)
SamePoll ==
  code \in {"ok", "crashed", "cancelled", "unwatchable"} =>
    \A r \in Ids : bad[r] \/ r \in fresh
=============================================================================

------------------------------- MODULE Waiter -------------------------------
(***************************************************************************)
(* internal/session/registry.go: the Waiter, a monotonic counter with a    *)
(* broadcast channel that every notify closes and replaces.  Callers       *)
(* snapshot the counter, look at the store, and then block in waitAfter    *)
(* until the counter moves, a timer fires or their context is cancelled.   *)
(*                                                                         *)
(* A channel is a number: ch names the current one, closed the ones a      *)
(* notify has closed.  Each region the code executes under w.mu is one     *)
(* action; the select of waitAfter is a state of its own, because that is  *)
(* where a notify, the timer and a cancel race.                            *)
(***************************************************************************)
EXTENDS Integers

CONSTANTS
  Callers,    \* goroutines that park on this handle
  MaxNotify   \* bound on the number of notifies (the counter is a uint64)

ASSUME MaxNotifyAssumption == MaxNotify \in Nat

VARIABLES
  counter,    \* Waiter.counter
  ch,         \* Waiter.ch, the channel a new select would wait on
  closed,     \* the channels closed so far
  pc,         \* where each caller is
  last,       \* the counter each caller passed to waitAfter
  held,       \* the channel each caller's select waits on
  timed,      \* whether the caller's waitAfter has a timeout
  cancelled,  \* whether the caller's ctx is done
  ret         \* what waitAfter returned: the counter and whether err # nil

vars == <<counter, ch, closed, pc, last, held, timed, cancelled, ret>>
callerVars == <<pc, last, held, timed, cancelled, ret>>

PCs == {"out", "armed", "check", "select", "timeout", "done"}

TypeOK ==
  /\ counter \in Nat
  /\ ch \in Nat
  /\ closed \in SUBSET Nat
  /\ pc \in [Callers -> PCs]
  /\ last \in [Callers -> Nat]
  /\ held \in [Callers -> Nat]
  /\ timed \in [Callers -> BOOLEAN]
  /\ cancelled \in [Callers -> BOOLEAN]
  /\ ret \in [Callers -> [val : Nat, err : BOOLEAN]]

Init ==
  /\ counter = 0
  /\ ch = 0
  /\ closed = {}
  /\ pc = [p \in Callers |-> "out"]
  /\ last = [p \in Callers |-> 0]
  /\ held = [p \in Callers |-> 0]
  /\ timed = [p \in Callers |-> FALSE]
  /\ cancelled = [p \in Callers |-> FALSE]
  /\ ret = [p \in Callers |-> [val |-> 0, err |-> FALSE]]

\* Mutant of Notify: the waiters' channel is replaced but never closed.
NotifyForgetsClose ==
  /\ counter < MaxNotify
  /\ counter' = counter + 1
  /\ ch' = ch + 1
  /\ UNCHANGED <<closed, callerVars>>

\* Mutant of Notify: the counter moves and nobody is told.
NotifyKeepsChannel ==
  /\ counter < MaxNotify
  /\ counter' = counter + 1
  /\ UNCHANGED <<ch, closed, callerVars>>

\* notify: bump, close and replace, all under w.mu.
Notify ==
  /\ counter < MaxNotify
  /\ counter' = counter + 1
  /\ closed' = closed \cup {ch}
  /\ ch' = ch + 1
  /\ UNCHANGED callerVars

\* Handle.Counter: the snapshot taken before the caller looks at the store.
Snapshot(p) ==
  /\ pc[p] = "out"
  /\ pc' = [pc EXCEPT ![p] = "armed"]
  /\ last' = [last EXCEPT ![p] = counter]
  /\ UNCHANGED <<counter, ch, closed, held, timed, cancelled, ret>>

\* The caller found work in the store and does not wait after all.
SkipWait(p) ==
  /\ pc[p] = "armed"
  /\ pc' = [pc EXCEPT ![p] = "out"]
  /\ UNCHANGED <<counter, ch, closed, last, held, timed, cancelled, ret>>

\* Handle.WaitAfter(ctx, last, timeout): arms the timer only for a positive
\* timeout.
WaitAfter(p) ==
  /\ pc[p] = "armed"
  /\ \E t \in BOOLEAN : timed' = [timed EXCEPT ![p] = t]
  /\ pc' = [pc EXCEPT ![p] = "check"]
  /\ UNCHANGED <<counter, ch, closed, last, held, cancelled, ret>>

\* Mutant of CheckCounter: any wake is taken for news.
CheckCounterTrustsWake(p) ==
  /\ pc[p] = "check"
  /\ pc' = [pc EXCEPT ![p] = IF held[p] \in closed THEN "done" ELSE "select"]
  /\ held' = [held EXCEPT ![p] = ch]
  /\ ret' = [ret EXCEPT ![p] = [val |-> counter, err |-> FALSE]]
  /\ UNCHANGED <<counter, ch, closed, last, timed, cancelled>>

\* The locked part of waitAfter's loop: return the counter if it moved, else
\* take the current channel and go and select on it.
CheckCounter(p) ==
  /\ pc[p] = "check"
  /\ IF counter # last[p]
       THEN /\ pc' = [pc EXCEPT ![p] = "done"]
            /\ ret' = [ret EXCEPT ![p] = [val |-> counter, err |-> FALSE]]
            /\ UNCHANGED held
       ELSE /\ pc' = [pc EXCEPT ![p] = "select"]
            /\ held' = [held EXCEPT ![p] = ch]
            /\ UNCHANGED ret
  /\ UNCHANGED <<counter, ch, closed, last, timed, cancelled>>

\* case <-ch: loop and re-read the counter.
Notified(p) ==
  /\ pc[p] = "select"
  /\ held[p] \in closed
  /\ pc' = [pc EXCEPT ![p] = "check"]
  /\ UNCHANGED <<counter, ch, closed, last, held, timed, cancelled, ret>>

\* case <-timeoutCh: the select has chosen the timer; the snapshot it returns
\* is read later, under w.mu, and may already count a notify.
TimerFires(p) ==
  /\ pc[p] = "select"
  /\ timed[p]
  /\ pc' = [pc EXCEPT ![p] = "timeout"]
  /\ UNCHANGED <<counter, ch, closed, last, held, timed, cancelled, ret>>

\* Mutant of TimeoutReturn: reports silence without re-reading the counter.
TimeoutReturnsLast(p) ==
  /\ pc[p] = "timeout"
  /\ pc' = [pc EXCEPT ![p] = "done"]
  /\ ret' = [ret EXCEPT ![p] = [val |-> last[p], err |-> FALSE]]
  /\ UNCHANGED <<counter, ch, closed, last, held, timed, cancelled>>

TimeoutReturn(p) ==
  /\ pc[p] = "timeout"
  /\ pc' = [pc EXCEPT ![p] = "done"]
  /\ ret' = [ret EXCEPT ![p] = [val |-> counter, err |-> FALSE]]
  /\ UNCHANGED <<counter, ch, closed, last, held, timed, cancelled>>

\* case <-ctx.Done(): the snapshot is returned beside a non-nil error, and
\* every caller looks at the error first.
CtxReturn(p) ==
  /\ pc[p] = "select"
  /\ cancelled[p]
  /\ pc' = [pc EXCEPT ![p] = "done"]
  /\ ret' = [ret EXCEPT ![p] = [val |-> counter, err |-> TRUE]]
  /\ UNCHANGED <<counter, ch, closed, last, held, timed, cancelled>>

\* The caller takes the result and may come back for another wait.
Resume(p) ==
  /\ pc[p] = "done"
  /\ pc' = [pc EXCEPT ![p] = "out"]
  /\ UNCHANGED <<counter, ch, closed, last, held, timed, cancelled, ret>>

\* Interrupt or CancelAll calls the handle's cancel.
Cancel(p) ==
  /\ ~cancelled[p]
  /\ cancelled' = [cancelled EXCEPT ![p] = TRUE]
  /\ UNCHANGED <<counter, ch, closed, pc, last, held, timed, ret>>

\* The steps the code of waitAfter itself takes once it was called.
WaitStep(p) ==
  CheckCounter(p) \/ Notified(p) \/ TimeoutReturn(p) \/ CtxReturn(p)

Next ==
  \/ Notify
  \/ \E p \in Callers :
       \/ Snapshot(p) \/ SkipWait(p) \/ WaitAfter(p) \/ WaitStep(p)
       \/ TimerFires(p) \/ Resume(p) \/ Cancel(p)

Spec == Init /\ [][Next]_vars

\* The Go scheduler runs a runnable goroutine: nothing else is fair, not even
\* the timer, so what is promised below is owed to the notify alone.
FairSpec == Spec /\ \A p \in Callers : WF_vars(WaitStep(p))

-----------------------------------------------------------------------------
\* A caller asleep on a channel nobody has closed has missed nothing: the
\* channel is the one the next notify closes and the counter has not moved.
\* (registry.go waitAfter reads counter and ch under one hold of w.mu.)
AsleepMeansNoNews ==
  \A p \in Callers :
    pc[p] = "select" /\ held[p] \notin closed => held[p] = ch /\ counter = last[p]

\* "equal to last means it timed out without a notify": a caller without a
\* timer never gets its own snapshot back without an error, and nobody is
\* handed a counter older than the one it passed.
TruthfulReturn ==
  \A p \in Callers : pc[p] = "done" =>
    /\ ret[p].val >= last[p]
    /\ ~ret[p].err /\ ret[p].val = last[p] => timed[p]

\* A caller is waiting from its call to the moment the result is chosen; the
\* channel, the select and the second lock of the timeout path are details.
PhaseOf ==
  [p \in Callers |->
     IF pc[p] \in {"check", "select", "timeout"} THEN "waiting" ELSE pc[p]]

Level == INSTANCE LevelWait WITH phase <- PhaseOf

\* The counter-and-channel code is the level-triggered wait its callers
\* (waitForFollowUp, await_event) are written against, promptness included.
IsLevelWait == Level!Spec

\* A notify after the snapshot ends the wait, whatever the interleaving of
\* the check, the channel swap and the select.
NotifyUnblocks ==
  \A p \in Callers :
    (pc[p] \in {"check", "select"} /\ counter # last[p]) ~> (pc[p] = "done")
=============================================================================

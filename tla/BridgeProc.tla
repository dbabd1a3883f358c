----------------------------- MODULE BridgeProc -----------------------------
(***************************************************************************)
(* The bridge subprocess that all requests of one spec share               *)
(* (internal/llm/bridge/transport_spawn.go): started on demand under p.mu, *)
(* restarted by the request whose connection failed, reaped by a goroutine *)
(* that waits for the process. A generation stands for one process with    *)
(* its socket, its client and its wait goroutine.                          *)
(***************************************************************************)
EXTENDS Integers, FiniteSets

CONSTANTS
  Requests,         \* requests that post to the bridge
  restartCooldown,  \* between a successful start and a restart
  startCooldown,    \* between a failed start and the next attempt
  MaxStarts,        \* bound: processes started
  MaxTime           \* bound: the clock

Nobody == "nobody"

BridgeProcAssumption ==
  /\ restartCooldown \in Nat \ {0} /\ startCooldown \in Nat \ {0}
  /\ MaxStarts \in Nat \ {0} /\ MaxTime \in Nat \ {0}
  /\ Nobody \notin Requests

VARIABLES
  now,
  process,     \* per generation: "none", "starting", "running", "dead"
  reaped,      \* generations whose wait goroutine has called markDead
  started,     \* how many processes were started
  cmd,         \* proc.cmd and proc.client: a generation, 0 for nil
  alive,       \* proc.alive
  startedAt,   \* proc.startedAt, -1 before the first start
  lastFailAt,  \* proc.lastFailAt, -1 while lastFailErr is nil
  holder,      \* the request that holds proc.mu over several steps
  pc,          \* per request: where it is in spawnTransport.post
  client,      \* per request: the generation it posts to
  again,       \* per request: it has restarted the bridge once
  down         \* Shutdown has run

procs == <<process, reaped, started, cmd, alive, startedAt, lastFailAt>>
reqs == <<pc, client, again>>
vars == <<now, procs, holder, reqs, down>>

Generations == 1..MaxStarts
Up == {"starting", "running"}

Init ==
  /\ now = 0
  /\ process = [g \in Generations |-> "none"]
  /\ reaped = {} /\ started = 0
  /\ cmd = 0 /\ alive = FALSE
  /\ startedAt = -1 /\ lastFailAt = -1
  /\ holder = Nobody
  /\ pc = [r \in Requests |-> "client"]
  /\ client = [r \in Requests |-> 0]
  /\ again = [r \in Requests |-> FALSE]
  /\ down = FALSE

Tick == now < MaxTime /\ now' = now + 1 /\ UNCHANGED <<procs, holder, reqs, down>>

Goto(r, where) == pc' = [pc EXCEPT ![r] = where]

\* ensureAliveLocked: a live bridge is used, a recent failure is repeated, and
\* otherwise startLocked spawns a process and polls it with p.mu held.
RecentlyFailed == lastFailAt >= 0 /\ now < lastFailAt + startCooldown
startLocked(r) ==
  /\ started < MaxStarts
  /\ started' = started + 1
  /\ process' = [process EXCEPT ![started + 1] = "starting"]
  /\ holder' = r
  /\ Goto(r, "starting")

\* manager.client: one process per key, started on first use or after a death.
Client(r) ==
  /\ pc[r] = "client" /\ holder = Nobody
  /\ \/ /\ alive
        /\ Goto(r, "posting") /\ client' = [client EXCEPT ![r] = cmd]
        /\ UNCHANGED <<procs, holder>>
     \/ /\ ~alive /\ RecentlyFailed
        /\ Goto(r, "failed")
        /\ UNCHANGED <<procs, holder, client>>
     \/ /\ ~alive /\ ~RecentlyFailed
        /\ startLocked(r)
        /\ UNCHANGED <<reaped, cmd, alive, startedAt, lastFailAt, client>>
  /\ UNCHANGED <<now, again, down>>

\* waitHealthy saw /health answer: the fields are set, even if the process has
\* died since (its wait goroutine is blocked on p.mu).
Healthy(r) ==
  /\ pc[r] = "starting" /\ holder = r
  /\ process[started] \in Up \cup {"dead"}
  /\ process' = [process EXCEPT ![started] = IF @ = "dead" THEN @ ELSE "running"]
  /\ cmd' = started /\ alive' = TRUE
  /\ startedAt' = now /\ lastFailAt' = -1
  /\ holder' = Nobody
  /\ Goto(r, "posting") /\ client' = [client EXCEPT ![r] = started]
  /\ UNCHANGED <<now, reaped, started, again, down>>

\* The process exits during startup, or never becomes healthy and is killed.
StartFails(r) ==
  /\ pc[r] = "starting" /\ holder = r
  /\ process' = [process EXCEPT ![started] = "dead"]
  /\ lastFailAt' = now
  /\ holder' = Nobody
  /\ Goto(r, "failed")
  /\ UNCHANGED <<now, reaped, started, cmd, alive, startedAt, client, again, down>>

\* The process exits by itself.
Exit(g) ==
  /\ process[g] \in Up
  /\ process' = [process EXCEPT ![g] = "dead"]
  /\ UNCHANGED <<now, reaped, started, cmd, alive, startedAt, lastFailAt, holder, reqs, down>>

\* markDead: only the current command's exit counts.
markDead(g) == alive' = (alive /\ cmd # g)

\* The wait goroutine: cmd.Wait returned, then markDead takes p.mu.
Reap(g) ==
  /\ process[g] = "dead" /\ g \notin reaped /\ holder = Nobody
  /\ reaped' = reaped \cup {g}
  /\ markDead(g)
  /\ UNCHANGED <<now, process, started, cmd, startedAt, lastFailAt, holder, reqs, down>>

\* postTo: the response's headers arrive.
PostOK(r) ==
  /\ pc[r] = "posting" /\ process[client[r]] = "running"
  /\ Goto(r, "reading")
  /\ UNCHANGED <<now, procs, holder, client, again, down>>

\* post: a failed connection is answered by one restart, a second failure is
\* the caller's, and a cancelled caller does not churn the subprocess.
PostFails(r) ==
  /\ pc[r] = "posting"
  /\ \E cancelled \in BOOLEAN : Goto(r, IF cancelled \/ again[r] THEN "failed" ELSE "restart")
  /\ UNCHANGED <<now, procs, holder, client, again, down>>

\* The rest of the response: it ends, or the connection does.
ReadEnds(r) ==
  /\ pc[r] = "reading"
  /\ Goto(r, IF process[client[r]] = "running" THEN "done" ELSE "failed")
  /\ UNCHANGED <<now, procs, holder, client, again, down>>

\* stopLocked kills whatever p.cmd is.
stopLocked ==
  /\ process' = [g \in Generations |-> IF g = cmd THEN "dead" ELSE process[g]]
  /\ alive' = FALSE /\ cmd' = 0

\* Mutant of Replaced: a restart never trusts what another request restarted.
NeverReplaced(r) == FALSE
\* restartClient's early return: another request has replaced the dead client.
Replaced(r) == alive /\ cmd # client[r]

\* restartClient: use the replacement, or stop the bridge and cool down with
\* p.mu held.
Restart(r) ==
  /\ pc[r] = "restart" /\ holder = Nobody
  /\ again' = [again EXCEPT ![r] = TRUE]
  /\ \/ /\ Replaced(r)
        /\ Goto(r, "posting") /\ client' = [client EXCEPT ![r] = cmd]
        /\ UNCHANGED <<process, cmd, alive, holder>>
     \/ /\ ~Replaced(r)
        /\ stopLocked
        /\ holder' = r
        /\ Goto(r, "cooling")
        /\ UNCHANGED client
  /\ UNCHANGED <<now, reaped, started, startedAt, lastFailAt, down>>

\* The sleep is over: ensureAliveLocked.
Cooled(r) ==
  /\ pc[r] = "cooling" /\ holder = r
  /\ startedAt >= 0 => now >= startedAt + restartCooldown
  /\ \/ /\ RecentlyFailed
        /\ holder' = Nobody /\ Goto(r, "failed")
        /\ UNCHANGED <<process, started>>
     \/ /\ ~RecentlyFailed
        /\ startLocked(r)
  /\ UNCHANGED <<now, reaped, cmd, alive, startedAt, lastFailAt, client, again, down>>

\* Shutdown, on graceful exit: the proc is stopped once p.mu is free. A request
\* that is still at work is not refused afterwards.
Shutdown ==
  /\ ~down /\ holder = Nobody
  /\ down' = TRUE
  /\ stopLocked
  /\ UNCHANGED <<now, reaped, started, startedAt, lastFailAt, holder, reqs>>

Next ==
  \/ Tick
  \/ \E r \in Requests :
       \/ Client(r) \/ Healthy(r) \/ StartFails(r)
       \/ PostOK(r) \/ PostFails(r) \/ ReadEnds(r)
       \/ Restart(r) \/ Cooled(r)
  \/ \E g \in Generations : Exit(g) \/ Reap(g)
  \/ Shutdown

Spec == Init /\ [][Next]_vars

(***************************************************************************)
(* Properties                                                              *)
(***************************************************************************)

TypeOK ==
  /\ now \in 0..MaxTime /\ startedAt \in -1..MaxTime /\ lastFailAt \in -1..MaxTime
  /\ process \in [Generations -> {"none", "starting", "running", "dead"}]
  /\ reaped \subseteq Generations /\ started \in 0..MaxStarts /\ cmd \in 0..MaxStarts
  /\ alive \in BOOLEAN /\ down \in BOOLEAN
  /\ holder \in Requests \cup {Nobody}
  /\ pc \in [Requests -> {"client", "starting", "posting", "reading", "restart", "cooling",
                          "failed", "done"}]
  /\ client \in [Requests -> 0..MaxStarts] /\ again \in [Requests -> BOOLEAN]

\* "identical specs share one" process (manager): whatever requests fail, restart
\* and die together, no two processes of a bridge are up at once, so none is left
\* behind with nobody to stop it.
OneBridge == \A g, h \in Generations : process[g] \in Up /\ process[h] \in Up => g = h

\* A request's restart kills only the process its own connection failed on: the
\* bridge another request has just restarted is used, never killed (restartClient).
KillsOnlyItsOwn ==
  \A g \in Generations, r \in Requests :
    process[g] = "running" /\ pc[r] = "restart" /\ pc'[r] = "cooling" /\ process'[g] = "dead"
      => client[r] = g

\* "restartCooldown is the minimum gap between a successful start and a subsequent
\* restart, to absorb the worst of a hot death-loop when a bridge crashes
\* immediately after every request" (transport_spawn.go). Only restartClient waits:
\* after markDead the next request's client() starts a process at once.
RestartsSpaced ==
  [][started' > started /\ startedAt >= 0 /\ ~down => now >= startedAt + restartCooldown]_vars
=============================================================================

---------------------------- MODULE RunRegistry -----------------------------
(***************************************************************************)
(* Two levels of registries: internal/runtime/runreg.go maps a run to its  *)
(* session registry, internal/session/registry.go maps a session to the    *)
(* handle of its goroutine.  The commit notifier finds a live goroutine    *)
(* through both, and launches one when it finds none.                      *)
(*                                                                         *)
(* One run: runs share nothing but the outer mutex.  A session registry is *)
(* an instance with an identity, because launchers capture the pointer and *)
(* use it after the run's entry may have been deleted or replaced.  Every  *)
(* region under rr.mu or r.mu is one action.  A thread starts as the       *)
(* caller of a commit, a Recover or a start, and becomes the goroutine it  *)
(* launches.                                                               *)
(***************************************************************************)
EXTENDS Naturals, FiniteSets

CONSTANTS
  Sessions,      \* the sessions of the run
  Threads,       \* concurrent committers, launchers and session goroutines
  MaxInstances   \* bound on the session registries created for the run

ASSUME MaxInstancesAssumption == MaxInstances \in Nat

None == "none"
ASSUME NoneIsNoThread == None \notin Threads

Instances == 1..MaxInstances

VARIABLES
  current,   \* rr.runs[run]: the reachable instance, 0 when there is none
  created,   \* how many instances NewRegistry has made
  slots,     \* per instance, the thread that holds each session's slot
  pc,        \* where each thread is
  target,    \* the session the thread works for
  inst,      \* the instance the thread has captured, 0 for nil
  named,     \* sessions whose launch was started: ids are never reused
  rows       \* sessions whose row a goroutine has created

vars == <<current, created, slots, pc, target, inst, named, rows>>

PCs == {"free", "lookup", "notify", "recover", "get", "register", "claimed",
        "running", "spawned", "child", "remove"}

TypeOK ==
  /\ current \in 0..MaxInstances
  /\ created \in 0..MaxInstances
  /\ slots \in [Instances -> [Sessions -> Threads \cup {None}]]
  /\ pc \in [Threads -> PCs]
  /\ target \in [Threads -> Sessions]
  /\ inst \in [Threads -> 0..MaxInstances]
  /\ named \in SUBSET Sessions
  /\ rows \in SUBSET named

Init ==
  /\ current = 0
  /\ created = 0
  /\ slots = [i \in Instances |-> [s \in Sessions |-> None]]
  /\ pc = [t \in Threads |-> "free"]
  /\ target \in [Threads -> Sessions]
  /\ inst = [t \in Threads |-> 0]
  /\ named = {}
  /\ rows = {}

Goto(t, where) == pc' = [pc EXCEPT ![t] = where]

IsEmpty(i) == \A s \in Sessions : slots[i][s] = None

-----------------------------------------------------------------------------
\* GetOrCreate, under rr.mu: the thread keeps the pointer it returns.
GetOrCreate(t) ==
  IF current # 0
    THEN /\ inst' = [inst EXCEPT ![t] = current]
         /\ UNCHANGED <<current, created>>
    ELSE /\ created < MaxInstances
         /\ created' = created + 1
         /\ current' = created + 1
         /\ inst' = [inst EXCEPT ![t] = created + 1]

\* An event is appended for session s; once the row is committed its writer
\* runs the commit notifier.
Commit(t, s) ==
  /\ pc[t] = "free"
  /\ s \in rows
  /\ target' = [target EXCEPT ![t] = s]
  /\ Goto(t, "lookup")
  /\ UNCHANGED <<current, created, slots, inst, named, rows>>

\* StartRun or AddChatbot goes straight to launchAgent for a new session.
Launch(t, s) ==
  /\ pc[t] = "free"
  /\ s \notin named
  /\ named' = named \cup {s}
  /\ target' = [target EXCEPT ![t] = s]
  /\ Goto(t, "get")
  /\ UNCHANGED <<current, created, slots, inst, rows>>

\* RecoverRun captures the run's registry once and walks the sessions.
Recover(t, s) ==
  /\ pc[t] = "free"
  /\ s \in rows
  /\ target' = [target EXCEPT ![t] = s]
  /\ Goto(t, "recover")
  /\ GetOrCreate(t)
  /\ UNCHANGED <<slots, named, rows>>

\* A spine session that is not registered is respawned directly when its
\* stream is at rest, otherwise through the RecoverEvent's own commit.
RecoverSession(t) ==
  /\ pc[t] = "recover"
  /\ IF slots[inst[t]][target[t]] # None
       THEN Goto(t, "free")
       ELSE Goto(t, "get") \/ Goto(t, "lookup")
  /\ UNCHANGED <<current, created, slots, target, inst, named, rows>>

\* The notifier's reg := runReg.Get(run).
LookupRegistry(t) ==
  /\ pc[t] = "lookup"
  /\ inst' = [inst EXCEPT ![t] = current]
  /\ Goto(t, "notify")
  /\ UNCHANGED <<current, created, slots, target, named, rows>>

\* reg != nil && reg.Notify(session): a live session is woken and that is all;
\* a cold one is respawned if the event is an Input that may revive it.
NotifyOrRespawn(t) ==
  /\ pc[t] = "notify"
  /\ IF inst[t] # 0 /\ slots[inst[t]][target[t]] # None
       THEN Goto(t, "free")
       ELSE Goto(t, "get") \/ Goto(t, "free")
  /\ UNCHANGED <<current, created, slots, target, inst, named, rows>>

\* registry := m.runReg.GetOrCreate(run), in RespawnSession and launchAgent.
CaptureRegistry(t) ==
  /\ pc[t] = "get"
  /\ GetOrCreate(t)
  /\ Goto(t, "register")
  /\ UNCHANGED <<slots, target, named, rows>>

\* RegisterAndContext on the captured instance, in a hold of r.mu of its own.
RegisterAndContext(t) ==
  /\ pc[t] = "register"
  /\ IF slots[inst[t]][target[t]] # None
       THEN Goto(t, "free") /\ UNCHANGED slots
       ELSE /\ slots' = [slots EXCEPT ![inst[t]][target[t]] = t]
            /\ Goto(t, "claimed")
  /\ UNCHANGED <<current, created, target, inst, named, rows>>

\* The slow work after the claim succeeded: the goroutine starts, and a new
\* session's bootstrap creates its row.
StartGoroutine(t) ==
  /\ pc[t] = "claimed"
  /\ Goto(t, "running")
  /\ rows' = rows \cup {target[t]}
  /\ UNCHANGED <<current, created, slots, target, inst, named>>

\* Mutant of Release: the slot is forgotten on the way out.
ReleaseLeaks(t) ==
  /\ pc[t] \in {"claimed", "running"}
  /\ Goto(t, "remove")
  /\ UNCHANGED <<current, created, slots, target, inst, named, rows>>

\* release: Unregister, on a failed launch or when the goroutine returns; the
\* manager's threads then go on to RemoveIfEmpty.
Release(t) ==
  /\ pc[t] \in {"claimed", "running"}
  /\ slots' = [slots EXCEPT ![inst[t]][target[t]] = None]
  /\ Goto(t, "remove")
  /\ UNCHANGED <<current, created, target, inst, named, rows>>

\* Mutant of RemoveIfEmpty: the run's entry is dropped without looking.
RemoveAlways(t) ==
  /\ pc[t] = "remove"
  /\ current' = 0
  /\ Goto(t, "free")
  /\ UNCHANGED <<created, slots, target, inst, named, rows>>

\* RemoveIfEmpty looks at the run's present entry, whatever instance the
\* thread had used, and deletes it under the same hold of rr.mu.
RemoveIfEmpty(t) ==
  /\ pc[t] = "remove"
  /\ current' = IF current # 0 /\ IsEmpty(current) THEN 0 ELSE current
  /\ Goto(t, "free")
  /\ UNCHANGED <<created, slots, target, inst, named, rows>>

\* spawn_agent claims a fresh child's slot on the parent's own instance,
\* whether or not the run still points to it.
Spawn(t, c, s) ==
  /\ pc[t] \in {"running", "child"}
  /\ pc[c] = "free"
  /\ s \notin named
  /\ named' = named \cup {s}
  /\ slots' = [slots EXCEPT ![inst[t]][s] = c]
  /\ target' = [target EXCEPT ![c] = s]
  /\ inst' = [inst EXCEPT ![c] = inst[t]]
  /\ Goto(c, "spawned")
  /\ UNCHANGED <<current, created, rows>>

\* The spawned goroutine reaches bootstrap.
ChildStart(t) ==
  /\ pc[t] = "spawned"
  /\ Goto(t, "child")
  /\ rows' = rows \cup {target[t]}
  /\ UNCHANGED <<current, created, slots, target, inst, named>>

\* The spawner's release, after a failed factory or the child's return; this
\* path does not call RemoveIfEmpty.
ChildRelease(t) ==
  /\ pc[t] \in {"spawned", "child"}
  /\ slots' = [slots EXCEPT ![inst[t]][target[t]] = None]
  /\ Goto(t, "free")
  /\ UNCHANGED <<current, created, target, inst, named, rows>>

Next ==
  \E t \in Threads :
    \/ \E s \in Sessions : Commit(t, s) \/ Launch(t, s) \/ Recover(t, s)
    \/ \E c \in Threads, s \in Sessions : Spawn(t, c, s)
    \/ RecoverSession(t) \/ LookupRegistry(t) \/ NotifyOrRespawn(t)
    \/ CaptureRegistry(t) \/ RegisterAndContext(t) \/ StartGoroutine(t)
    \/ Release(t) \/ RemoveIfEmpty(t) \/ ChildStart(t) \/ ChildRelease(t)

Spec == Init /\ [][Next]_vars

-----------------------------------------------------------------------------
\* The threads that hold a slot: from the claim to the release.
Holds(t) == pc[t] \in {"claimed", "running", "spawned", "child"}

\* A slot and its holder always agree: a claim makes the holder the only one
\* for its session in that registry, no bail-out path leaves a slot behind to
\* wedge the session ("Forgetting this would leak the slot"), and no release
\* frees a slot somebody else holds.
SlotsMatchHolders ==
  \A i \in Instances, s \in Sessions, t \in Threads :
    slots[i][s] = t <=> Holds(t) /\ inst[t] = i /\ target[t] = s

\* What RegisterAndContext and the atomic RemoveIfEmpty do guarantee together:
\* a session that holds a slot of the reachable registry stays reachable for
\* the notifier for as long as it holds it.
ReachableStaysReachable ==
  [][\A t \in Threads :
       Holds(t) /\ inst[t] = current /\ Holds(t)' => inst'[t] = current']_vars

\* One goroutine per session, the promise behind "NOT launch a rival
\* goroutine".  It does not hold: a launcher that captured the instance and
\* has not registered yet holds a registry RemoveIfEmpty finds empty.
OneGoroutinePerSession ==
  \A t, u \in Threads :
    pc[t] = "running" /\ pc[u] = "running" /\ target[t] = target[u] => t = u
=============================================================================

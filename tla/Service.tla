------------------------------- MODULE Service -------------------------------
(***************************************************************************)
(* The processes of one data directory (cmd/amplio): servers and headless  *)
(* runs that start, fail half-way, are interrupted or crash, and the       *)
(* commands that find the server through <data-dir>/server.json and talk   *)
(* to it: `amplio notify` from an agent's script, `amplio client`.         *)
(*                                                                         *)
(* What a process deferred runs in the reverse order when it returns.      *)
(***************************************************************************)
EXTENDS Integers, FiniteSets

CONSTANTS
  Procs, Headless,      \* invocations, those of `amplio headless`
  Port, Cert,           \* server -> its port; "none", "trusted", "untrusted"
  Given,                \* server -> the tokens its flag, environment or file may
                        \* name, numbers below 0; with 0 among them, maybe none
  LendFails,            \* the servers whose lending listener may fail to start
  DiskFails,            \* those that may fail to read or write a file
  Clients, Notifies,    \* command invocations, those of `amplio notify`
  MaxCrashes,
  Nobody, Foreign       \* no process; a program that is not amplio

ASSUME ServiceAssumption ==
  /\ IsFiniteSet(Procs) /\ Headless \subseteq Procs
  /\ Nobody \notin Procs /\ Foreign \notin Procs
  /\ \A p \in Procs \ Headless : \A t \in Given[p] : t \in Int /\ t <= 0
  /\ MaxCrashes \in Nat

VARIABLES
  pc,         \* process -> how far it is
  signalled,  \* the processes that were interrupted
  lock,       \* who holds <data-dir>/lock
  opened,     \* who has the database open
  agents,     \* whose agents run
  bound,      \* port -> who listens
  info,       \* server.json
  tokenFile,  \* auth.token, 0 when it is absent or empty
  token,      \* process -> the token it accepts
  shown,      \* history: the tokens of the file that users were given and that
              \* no failed read has put aside
  clients,    \* command -> how far it is, and its exit
  handling,   \* command -> the server that handles its request, and how far
  stored,     \* command -> how often its message is in the event log
  crashes

vars == <<pc, signalled, lock, opened, agents, bound, info, tokenFile, token, shown,
          clients, handling, stored, crashes>>
files == <<info, tokenFile, shown>>
talk == <<clients, handling, stored>>

Ports == {Port[p] : p \in Procs \ Headless}
Absent == [kind |-> "absent"]
Torn == [kind |-> "torn"]

Init ==
  /\ pc = [p \in Procs |-> "off"] /\ signalled = {}
  /\ lock = Nobody /\ opened = {} /\ agents = {}
  /\ bound = [q \in Ports |-> Nobody]
  /\ info = Absent /\ tokenFile = 0 /\ token = [p \in Procs |-> 0] /\ shown = {}
  /\ clients = [k \in Clients |-> [pc |-> "idle", info |-> Absent, code |-> "none"]]
  /\ handling = [k \in Clients |-> [by |-> Nobody, at |-> "none"]]
  /\ stored = [k \in Clients |-> 0]
  /\ crashes = 0

At(p, from, to) == pc[p] = from /\ pc' = [pc EXCEPT ![p] = to]
Alive(p) == pc[p] \notin {"off", "gone"}

-----------------------------------------------------------------------------
(* Start.                                                                  *)

\* lockDataDir: one try; who does not get the lock says who has it, and ends.
Lock(p) ==
  /\ At(p, "off", IF lock = Nobody THEN "locked" ELSE "gone")
  /\ lock' = IF lock = Nobody THEN p ELSE lock
  /\ UNCHANGED <<signalled, opened, agents, bound, token, files, talk, crashes>>

\* setupSystem: the database, the providers, the observer.
Setup(p) ==
  /\ At(p, "locked", "open")
  /\ opened' = opened \cup {p}
  /\ UNCHANGED <<signalled, lock, agents, bound, token, files, talk, crashes>>

\* setupSystem: a provider cannot be built, the database is closed again.
SetupFails(p) ==
  /\ At(p, "locked", "unlocking")
  /\ UNCHANGED <<signalled, lock, opened, agents, bound, token, files, talk, crashes>>

\* executeRun: the run is started, and waited for.
Work(p) ==
  /\ p \in Headless /\ At(p, "open", "working")
  /\ agents' = agents \cup {p}
  /\ UNCHANGED <<signalled, lock, opened, bound, token, files, talk, crashes>>

\* executeResume: nothing to revive, the report is made and that is all.
ResumeNothing(p) ==
  /\ p \in Headless /\ At(p, "open", "cleaning")
  /\ UNCHANGED <<signalled, lock, opened, agents, bound, token, files, talk, crashes>>

\* waitForRun: the run is over, or everything was cancelled.
WorkDone(p) ==
  /\ At(p, "working", "cleaning")
  /\ UNCHANGED <<signalled, lock, opened, agents, bound, token, files, talk, crashes>>

\* executeServe: the port is taken before anything is recovered.
Bind(p) ==
  /\ p \notin Headless
  /\ At(p, "open", IF bound[Port[p]] = Nobody THEN "bound" ELSE "cleaning")
  /\ bound' = IF bound[Port[p]] = Nobody THEN [bound EXCEPT ![Port[p]] = p] ELSE bound
  /\ UNCHANGED <<signalled, lock, opened, agents, token, files, talk, crashes>>

\* recoverRuns, and the backfill of reports in the background.
Recover(p) ==
  /\ At(p, "bound", "recovered")
  /\ agents' = agents \cup {p}
  /\ UNCHANGED <<signalled, lock, opened, bound, token, files, talk, crashes>>

\* A configured token wins; else loadOrCreateToken: that of the file, unless the
\* file is absent, empty or cannot be read, for whatever reason.
LoadToken(p) ==
  /\ \/ /\ At(p, "recovered", "tokened") /\ UNCHANGED shown
        /\ \E t \in Given[p] \ {0} : token' = [token EXCEPT ![p] = t]
     \/ /\ At(p, "recovered", IF tokenFile = 0 THEN "minting" ELSE "tokened") /\ UNCHANGED shown
        /\ 0 \in Given[p] /\ token' = [token EXCEPT ![p] = tokenFile]
     \/ /\ At(p, "recovered", "minting") /\ p \in DiskFails /\ shown' = {}
        /\ 0 \in Given[p] /\ UNCHANGED token
  /\ UNCHANGED <<signalled, lock, opened, agents, bound, info, tokenFile, talk, crashes>>

\* loadOrCreateToken: the file is truncated, whatever it held, and a token that
\* nobody had is written.
TruncateToken(p) ==
  /\ At(p, "minting", "writing")
  /\ tokenFile' = 0
  /\ UNCHANGED <<signalled, lock, opened, agents, bound, info, token, shown, talk, crashes>>

MintToken(p) ==
  /\ At(p, "writing", "tokened")
  /\ tokenFile' = Cardinality({q \in Procs : token[q] # 0}) + 1
  /\ token' = [token EXCEPT ![p] = tokenFile']
  /\ UNCHANGED <<signalled, lock, opened, agents, bound, info, shown, talk, crashes>>

\* writeServerInfo: truncated, then filled. The banner follows.
TruncateInfo(p) ==
  /\ At(p, "tokened", "advertising")
  /\ info' = Torn
  /\ UNCHANGED <<signalled, lock, opened, agents, bound, token, tokenFile, shown, talk, crashes>>

WriteInfo(p) ==
  /\ At(p, "advertising", "advertised")
  /\ info' = [kind |-> "info", pid |-> p, port |-> Port[p], tls |-> Cert[p] # "none", token |-> token[p]]
  /\ shown' = IF token[p] < 0 THEN shown ELSE shown \cup {token[p]}
  /\ UNCHANGED <<signalled, lock, opened, agents, bound, token, tokenFile, talk, crashes>>

\* auth.token or server.json cannot be opened or written: the server ends, and
\* what it truncated stays empty.
WriteFails(p) ==
  /\ p \in DiskFails
  /\ \E from \in {"minting", "writing", "tokened", "advertising"} : At(p, from, "cleaning")
  /\ UNCHANGED <<signalled, lock, opened, agents, bound, token, files, talk, crashes>>

\* serveLending: without its secret or its port the whole server ends.
Serve(p) ==
  /\ \/ At(p, "advertised", "serving")
     \/ p \in LendFails /\ At(p, "advertised", "ending")
  /\ UNCHANGED <<signalled, lock, opened, agents, bound, token, files, talk, crashes>>

-----------------------------------------------------------------------------
(* End.                                                                    *)

\* The operator interrupts the process.
Signal(p) ==
  /\ pc[p] \notin {"off", "gone"} /\ p \notin signalled
  /\ signalled' = signalled \cup {p}
  /\ UNCHANGED <<pc, lock, opened, agents, bound, token, files, talk, crashes>>

\* Shutdown closes the listener and Serve returns at once: what is being
\* handled goes on, but nobody waits for it.
ServeReturns(p) ==
  /\ p \in signalled /\ At(p, "serving", "ending")
  /\ bound' = [bound EXCEPT ![Port[p]] = Nobody]
  /\ UNCHANGED <<signalled, lock, opened, agents, token, files, talk, crashes>>

\* Mutant of RemoveInfo: the lock is given back before the file is removed.
RemoveInfoUnlocked(p) ==
  \/ /\ At(p, "ending", "removing")
     /\ lock' = Nobody /\ opened' = opened \ {p}
     /\ UNCHANGED <<signalled, agents, bound, token, files, talk, crashes>>
  \/ /\ At(p, "removing", "unlocked")
     /\ info' = Absent
     /\ UNCHANGED <<signalled, lock, opened, agents, bound, token, tokenFile, shown, talk, crashes>>

\* Deferred first to last: server.json goes, whoever wrote it.
RemoveInfo(p) ==
  /\ At(p, "ending", "cleaning")
  /\ info' = Absent
  /\ UNCHANGED <<signalled, lock, opened, agents, bound, token, tokenFile, shown, talk, crashes>>

\* system.cleanup: observer, bridges, and the database.
Cleanup(p) ==
  /\ At(p, "cleaning", "unlocking")
  /\ opened' = opened \ {p}
  /\ UNCHANGED <<signalled, lock, agents, bound, token, files, talk, crashes>>

Unlock(p) ==
  /\ At(p, "unlocking", "unlocked")
  /\ lock' = Nobody
  /\ UNCHANGED <<signalled, opened, agents, bound, token, files, talk, crashes>>

\* What the kernel does for a process that is gone, whatever it was doing.
Released(p) ==
  /\ lock' = IF lock = p THEN Nobody ELSE lock
  /\ opened' = opened \ {p} /\ agents' = agents \ {p}
  /\ bound' = [q \in Ports |-> IF bound[q] = p THEN Nobody ELSE bound[q]]

Exit(p) ==
  /\ At(p, "unlocked", "gone") /\ Released(p)
  /\ UNCHANGED <<signalled, token, files, talk, crashes>>

Crash(p) ==
  /\ crashes < MaxCrashes /\ Alive(p)
  /\ pc' = [pc EXCEPT ![p] = "gone"] /\ Released(p)
  /\ crashes' = crashes + 1
  /\ UNCHANGED <<signalled, token, files, talk>>

\* A program that is not amplio takes the port of a server that crashed.
Squat(q) ==
  /\ crashes > 0 /\ bound[q] = Nobody
  /\ bound' = [bound EXCEPT ![q] = Foreign]
  /\ UNCHANGED <<pc, signalled, lock, opened, agents, token, files, talk, crashes>>

-----------------------------------------------------------------------------
(* Commands that talk to the server.                                       *)

Exits(k, code) == clients' = [clients EXCEPT ![k] = [@ EXCEPT !.pc = "done", !.code = code]]

\* readServerInfo: the file is there and whole, or there is no server.
ReadInfo(k) ==
  /\ clients[k].pc = "idle"
  /\ IF info.kind = "info"
     THEN clients' = [clients EXCEPT ![k] = [@ EXCEPT !.pc = "sending", !.info = info]]
     ELSE Exits(k, "unreachable")
  /\ UNCHANGED <<pc, signalled, lock, opened, agents, bound, token, files, handling, stored, crashes>>

\* executeNotify takes the default client, clientRequest the one that does
\* not verify a certificate on the loopback.
CertRefused(k, p) == Cert[p] = "untrusted" /\ k \in Notifies

\* The request reaches whoever listens; a server that is not serving yet
\* leaves it in the backlog.
Send(k) ==
  /\ clients[k].pc = "sending"
  /\ LET p == bound[clients[k].info.port] IN
     /\ p \in Procs => pc[p] = "serving"
     /\ IF p = Nobody THEN Exits(k, "unreachable") /\ UNCHANGED handling
        ELSE IF p = Foreign THEN Exits(k, "refused") /\ UNCHANGED handling
        ELSE IF CertRefused(k, p) THEN Exits(k, "certificate") /\ UNCHANGED handling
        ELSE IF clients[k].info.tls # (Cert[p] # "none") THEN Exits(k, "unreachable") /\ UNCHANGED handling
        ELSE IF clients[k].info.token # token[p] THEN Exits(k, "refused") /\ UNCHANGED handling
        ELSE /\ clients' = [clients EXCEPT ![k].pc = "waiting"]
             /\ handling' = [handling EXCEPT ![k] = [by |-> p, at |-> "accepted"]]
  /\ UNCHANGED <<pc, signalled, lock, opened, agents, bound, token, files, stored, crashes>>

\* The handler: the message is appended to the event log.
Store(k) ==
  /\ handling[k].at = "accepted" /\ handling[k].by \in opened
  /\ stored' = [stored EXCEPT ![k] = @ + 1]
  /\ handling' = [handling EXCEPT ![k].at = "stored"]
  /\ UNCHANGED <<pc, signalled, lock, opened, agents, bound, token, files, clients, crashes>>

\* The handler refuses: no such session, too many notices, a closed database.
Refuse(k) ==
  /\ handling[k].at = "accepted" /\ Alive(handling[k].by)
  /\ handling' = [handling EXCEPT ![k].at = "refused"]
  /\ UNCHANGED <<pc, signalled, lock, opened, agents, bound, token, files, clients, stored, crashes>>

\* The answer arrives.
Receive(k) ==
  /\ clients[k].pc = "waiting" /\ handling[k].at \in {"stored", "refused"} /\ Alive(handling[k].by)
  /\ Exits(k, IF handling[k].at = "stored" THEN "ok" ELSE "refused")
  /\ handling' = [handling EXCEPT ![k].at = "answered"]
  /\ UNCHANGED <<pc, signalled, lock, opened, agents, bound, token, files, stored, crashes>>

\* The connection breaks with the server, or the command has waited enough;
\* the handler, if it lives, goes on.
GiveUp(k) ==
  /\ clients[k].pc \in {"sending", "waiting"}
  /\ Exits(k, "unreachable")
  /\ UNCHANGED <<pc, signalled, lock, opened, agents, bound, token, files, handling, stored, crashes>>

Next ==
  \/ \E p \in Procs :
       \/ Lock(p) \/ Setup(p) \/ SetupFails(p) \/ Work(p) \/ ResumeNothing(p) \/ WorkDone(p)
       \/ Bind(p) \/ Recover(p) \/ LoadToken(p) \/ TruncateToken(p)
       \/ MintToken(p) \/ TruncateInfo(p) \/ WriteInfo(p) \/ WriteFails(p) \/ Serve(p)
       \/ Signal(p) \/ ServeReturns(p) \/ RemoveInfo(p) \/ Cleanup(p) \/ Unlock(p)
       \/ Exit(p) \/ Crash(p)
  \/ \E q \in Ports : Squat(q)
  \/ \E k \in Clients :
       ReadInfo(k) \/ Send(k) \/ Store(k) \/ Refuse(k) \/ Receive(k) \/ GiveUp(k)

Spec == Init /\ [][Next]_vars

-----------------------------------------------------------------------------
(* What the processes owe each other and the user.                         *)

Infos == [kind : {"info"}, pid : Procs, port : Ports, tls : BOOLEAN, token : Int]
Stages ==
  {"off", "locked", "open", "working", "bound", "recovered", "minting", "writing",
   "tokened", "advertising", "advertised", "serving", "ending", "cleaning", "unlocking",
   "unlocked", "gone"}

TypeOK ==
  /\ pc \in [Procs -> Stages] /\ signalled \subseteq Procs
  /\ lock \in Procs \cup {Nobody} /\ opened \subseteq Procs /\ agents \subseteq Procs
  /\ bound \in [Ports -> Procs \cup {Nobody, Foreign}]
  /\ info \in {Absent, Torn} \cup Infos
  /\ tokenFile \in Nat /\ token \in [Procs -> Int] /\ shown \subseteq Nat
  /\ clients \in [Clients -> [pc : {"idle", "sending", "waiting", "done"},
                             info : {Absent} \cup Infos,
                             code : {"none", "ok", "refused", "unreachable", "certificate"}]]
  /\ handling \in [Clients -> [by : Procs \cup {Nobody},
                              at : {"none", "accepted", "stored", "refused", "answered"}]]
  /\ stored \in [Clients -> Nat] /\ crashes \in 0..MaxCrashes

\* lockDataDir, the order of the deferred calls: one process at a time has the
\* database, and while a server serves, server.json names it and its token: no
\* process that ends, late or after a failure, takes the next one's file away.
OneOwnerAdvertised ==
  /\ Cardinality(opened) <= 1
  /\ \A p \in Procs : pc[p] = "serving" =>
       info.kind = "info" /\ info.pid = p /\ info.token = token[p]

\* loadOrCreateToken: a server that is given no token accepts the one that users
\* of earlier servers hold, whatever crashed or was configured in between, unless
\* auth.token could not be read.
TokenKept ==
  \A p \in Procs : pc[p] = "serving" /\ token[p] >= 0 => shown = {token[p]}

\* executeNotify's exit codes: with 0 the message is in the log, refused it is
\* not; and no message is stored twice, whoever crashes or gives up when.
ExitIsHonest ==
  \A k \in Clients :
    /\ stored[k] <= 1
    /\ clients[k].code = "ok" => stored[k] = 1
    /\ clients[k].code = "refused" => stored[k] = 0

\* One process owns the data directory and is the one advertised, the file's token
\* outlives it, and a client's exit code tells what was stored.
OwnershipIsHonest == OneOwnerAdvertised /\ TokenKept /\ ExitIsHonest

\* docs/internals/tls.md: "The clients skip cert verification for loopback
\* HTTPS regardless", said of `amplio submit` and `amplio notify`.
CertNeverRefused == \A k \in Clients : clients[k].code # "certificate"
=============================================================================

---------------------------- MODULE ServiceProofs ----------------------------
(***************************************************************************)
(* Proofs about the processes of a data directory, for any servers, ports, *)
(* certificates, headless runs, commands and crashes.  The invariant says  *)
(* what the lock stands for while a process is on its way: the database,   *)
(* server.json from the banner on, and the token of the file.              *)
(***************************************************************************)
EXTENDS Service, FiniteSetTheorems, TLAPS

ProcStep(p) ==
  \/ Lock(p) \/ Setup(p) \/ SetupFails(p) \/ Work(p) \/ ResumeNothing(p) \/ WorkDone(p)
  \/ Bind(p) \/ Recover(p) \/ LoadToken(p) \/ TruncateToken(p)
  \/ MintToken(p) \/ TruncateInfo(p) \/ WriteInfo(p) \/ WriteFails(p) \/ Serve(p)
  \/ Signal(p) \/ ServeReturns(p) \/ RemoveInfo(p) \/ Cleanup(p) \/ Unlock(p)
  \/ Exit(p) \/ Crash(p)

ClientStep(k) == ReadInfo(k) \/ Send(k) \/ Store(k) \/ Refuse(k) \/ Receive(k) \/ GiveUp(k)

\* From the port on, a process is a server; from the token on, it has one.
Tokened == {"tokened", "advertising", "advertised", "serving"}
AsServer == {"bound", "recovered", "minting", "writing", "ending"} \cup Tokened

\* With the lock from lockDataDir to its unlock, and in between with the
\* database from setupSystem to its cleanup.
WithDatabase == {"open", "working", "cleaning"} \cup AsServer
WithLock == {"locked", "unlocking"} \cup WithDatabase

\* The lock's holder is the process on its way, and nobody else has the database.
LockHeld ==
  \A p \in Procs :
    /\ pc[p] \in WithLock <=> lock = p
    /\ p \in opened => pc[p] \in WithDatabase
    /\ pc[p] \in AsServer => p \notin Headless

\* Since it wrote server.json, nobody has written or removed it.
Advertised ==
  \A p \in Procs : pc[p] \in {"advertised", "serving"} =>
    info.kind = "info" /\ info.pid = p /\ info.token = token[p]

\* The token of the file is the only one its users hold, and the one of the
\* process that has read it; who mints another does not take theirs away.
TokenOfFile ==
  /\ shown \subseteq {tokenFile} \ {0}
  /\ \A p \in Procs :
       /\ pc[p] \in {"minting", "writing"} => shown = {}
       /\ pc[p] \in Tokened /\ token[p] >= 0 => tokenFile # 0 /\ token[p] = tokenFile
       /\ pc[p] \in {"advertised", "serving"} /\ token[p] >= 0 => tokenFile \in shown

\* How far a request is, at its two ends and in the event log.
RequestTold(k) ==
  LET me == clients[k]
      at == handling[k].at
  IN /\ me.pc # "done" => me.code = "none"
     /\ me.pc \in {"idle", "sending"} => at = "none"
     /\ me.pc = "sending" => me.info \in Infos
     /\ me.pc = "waiting" => at \in {"accepted", "stored", "refused"}
     /\ me.code = "ok" => at = "answered" /\ stored[k] = 1
     /\ me.code = "refused" => at \in {"none", "answered"} /\ stored[k] = 0
     /\ at \in {"none", "accepted", "refused"} => stored[k] = 0
     /\ at = "stored" => stored[k] = 1
     /\ stored[k] \in {0, 1}

IInv ==
  /\ TypeOK /\ LockHeld /\ Advertised /\ TokenOfFile
  /\ \A k \in Clients : RequestTold(k)

-----------------------------------------------------------------------------
\* Lemmas about steps.

\* Nothing has started: every file is absent.
LEMMA InitInv == Init => IInv
<1> SUFFICES ASSUME Init PROVE IInv
  OBVIOUS
<1>1. TypeOK
  BY ServiceAssumption DEF Init, TypeOK, Stages
<1>2. LockHeld /\ Advertised /\ TokenOfFile
  BY ServiceAssumption
  DEF Init, LockHeld, Advertised, TokenOfFile, WithLock, WithDatabase, AsServer, Tokened
<1>3. \A k \in Clients : RequestTold(k)
  BY DEF Init, RequestTold
<1>4. QED
  BY <1>1, <1>2, <1>3 DEF IInv

\* A process goes from one stage to the next; where the others are stays.
LEMMA AtGoes ==
  ASSUME TypeOK, NEW p \in Procs, NEW from, NEW to, At(p, from, to)
  PROVE  /\ pc[p] = from /\ pc'[p] = to
         /\ \A q \in Procs \ {p} : pc'[q] = pc[q]
         /\ to \in Stages => pc' \in [Procs -> Stages]
BY DEF At, TypeOK

\* A process that is gone has let go of everything, and of nothing of others.
LEMMA ReleasedTypes ==
  ASSUME TypeOK, NEW p \in Procs, Released(p)
  PROVE  /\ lock' \in Procs \cup {Nobody} /\ opened' \subseteq Procs /\ agents' \subseteq Procs
         /\ bound' \in [Ports -> Procs \cup {Nobody, Foreign}]
BY DEF TypeOK, Released

\* The stages, the lock and the database stay typed; the files, the tokens and
\* the requests are those of the steps below.
LEMMA ProcTypes ==
  ASSUME TypeOK, LockHeld, NEW p \in Procs, ProcStep(p)
  PROVE  /\ pc' \in [Procs -> Stages] /\ signalled' \subseteq Procs
         /\ lock' \in Procs \cup {Nobody} /\ opened' \subseteq Procs /\ agents' \subseteq Procs
         /\ bound' \in [Ports -> Procs \cup {Nobody, Foreign}]
         /\ crashes' \in 0..MaxCrashes
<1> USE DEF Stages, files, talk
<1>1. CASE Lock(p) \/ Setup(p) \/ SetupFails(p) \/ Work(p) \/ ResumeNothing(p) \/ WorkDone(p)
  BY <1>1, AtGoes DEF TypeOK, Lock, Setup, SetupFails, Work, ResumeNothing, WorkDone
<1>2. CASE Bind(p)
  <2>1. Port[p] \in Ports
    BY <1>2 DEF Bind, Ports
  <2>2. QED
    BY <1>2, <2>1, AtGoes DEF TypeOK, Bind
<1>3. CASE \/ Recover(p) \/ LoadToken(p) \/ TruncateToken(p) \/ MintToken(p)
           \/ TruncateInfo(p) \/ WriteInfo(p) \/ WriteFails(p) \/ Serve(p)
  BY <1>3, AtGoes DEF TypeOK, Recover, LoadToken, TruncateToken, MintToken, TruncateInfo,
                      WriteInfo, WriteFails, Serve
<1>4. CASE Signal(p) \/ RemoveInfo(p) \/ Cleanup(p) \/ Unlock(p)
  BY <1>4, AtGoes DEF TypeOK, Signal, RemoveInfo, Cleanup, Unlock
<1>5. CASE ServeReturns(p)
  BY <1>5, AtGoes DEF TypeOK, ServeReturns
<1>6. CASE Exit(p)
  BY <1>6, AtGoes, ReleasedTypes DEF TypeOK, Exit
<1>7. CASE Crash(p)
  <2>1. crashes' \in 0..MaxCrashes
    BY <1>7, ServiceAssumption DEF TypeOK, Crash
  <2>2. pc' \in [Procs -> Stages]
    BY <1>7 DEF TypeOK, Crash
  <2>3. QED
    BY <1>7, <2>1, <2>2, ReleasedTypes DEF TypeOK, Crash
<1>8. QED
  BY <1>1, <1>2, <1>3, <1>4, <1>5, <1>6, <1>7 DEF ProcStep

\* The lock, the database and the stages of their holder.
LEMMA ProcKeepsLock ==
  ASSUME TypeOK, LockHeld, NEW p \in Procs, ProcStep(p)
  PROVE  LockHeld'
<1> USE DEF WithLock, WithDatabase, AsServer, Tokened, files, talk
<1>0. Nobody \notin Procs
  BY ServiceAssumption
<1>1. CASE Lock(p)
  BY <1>0, <1>1, AtGoes DEF LockHeld, Lock, TypeOK
<1>2. CASE Setup(p) \/ SetupFails(p) \/ Work(p) \/ ResumeNothing(p) \/ WorkDone(p)
  BY <1>2, AtGoes DEF LockHeld, Setup, SetupFails, Work, ResumeNothing, WorkDone
<1>3. CASE Bind(p) \/ Recover(p) \/ LoadToken(p) \/ TruncateToken(p) \/ MintToken(p)
  BY <1>3, AtGoes DEF LockHeld, Bind, Recover, LoadToken, TruncateToken, MintToken
<1>4. CASE \/ TruncateInfo(p) \/ WriteInfo(p) \/ WriteFails(p) \/ Serve(p)
           \/ ServeReturns(p) \/ RemoveInfo(p)
  BY <1>4, AtGoes
  DEF LockHeld, TruncateInfo, WriteInfo, WriteFails, Serve, ServeReturns, RemoveInfo
<1>5. CASE Signal(p)
  BY <1>5 DEF LockHeld, Signal
<1>6. CASE Cleanup(p)
  BY <1>6, AtGoes DEF LockHeld, Cleanup
<1>7. CASE Unlock(p)
  BY <1>0, <1>7, AtGoes DEF LockHeld, Unlock
<1>8. CASE Exit(p)
  BY <1>0, <1>8, AtGoes DEF LockHeld, Exit, Released
<1>9. CASE Crash(p)
  <2>1. pc'[p] = "gone" /\ \A q \in Procs \ {p} : pc'[q] = pc[q]
    BY <1>9 DEF Crash, TypeOK
  <2>2. QED
    BY <1>0, <1>9, <2>1 DEF LockHeld, Crash, Released
<1>10. QED
  BY <1>1, <1>2, <1>3, <1>4, <1>5, <1>6, <1>7, <1>8, <1>9 DEF ProcStep

\* Whoever is past the lock is alone there.
LEMMA AloneWithLock ==
  ASSUME LockHeld, NEW p \in Procs, NEW q \in Procs,
         pc[p] \in WithLock, pc[q] \in WithLock
  PROVE  p = q
BY DEF LockHeld

\* A token that was never drawn is a number past those that were.
LEMMA FreshToken == Cardinality({q \in Procs : token[q] # 0}) \in Nat
BY ServiceAssumption, FS_Subset, FS_CardinalityType

\* server.json and the token: only a process with the lock writes them.
LEMMA ProcKeepsFiles ==
  ASSUME TypeOK, LockHeld, Advertised, TokenOfFile, NEW p \in Procs, ProcStep(p)
  PROVE  /\ Advertised' /\ TokenOfFile'
         /\ info' \in {Absent, Torn} \cup Infos
         /\ tokenFile' \in Nat /\ token' \in [Procs -> Int] /\ shown' \subseteq Nat
<1> USE DEF files
<1>1. ASSUME UNCHANGED <<info, tokenFile, token, shown>>,
             \A q \in Procs : pc'[q] = pc[q] \/ pc'[q] \notin {"minting", "writing"} \cup Tokened
      PROVE  Advertised' /\ TokenOfFile'
  BY <1>1 DEF Advertised, TokenOfFile, Tokened
<1>2. CASE \/ Lock(p) \/ Setup(p) \/ SetupFails(p) \/ Work(p) \/ ResumeNothing(p) \/ WorkDone(p)
           \/ Bind(p) \/ Recover(p) \/ Signal(p) \/ ServeReturns(p) \/ Cleanup(p) \/ Unlock(p)
           \/ Exit(p)
  <2>1. UNCHANGED <<info, tokenFile, token, shown>>
    BY <1>2 DEF Lock, Setup, SetupFails, Work, ResumeNothing, WorkDone, Bind, Recover,
                Signal, ServeReturns, Cleanup, Unlock, Exit
  <2>2. \A q \in Procs : pc'[q] = pc[q] \/ pc'[q] \notin {"minting", "writing"} \cup Tokened
    BY <1>2, AtGoes DEF Lock, Setup, SetupFails, Work, ResumeNothing, WorkDone, Bind,
                Recover, Signal, ServeReturns, Cleanup, Unlock, Exit, Tokened
  <2>3. QED
    BY <1>1, <2>1, <2>2 DEF TypeOK
<1>3. CASE Crash(p)
  <2>1. \A q \in Procs : pc'[q] = pc[q] \/ pc'[q] \notin {"minting", "writing"} \cup Tokened
    BY <1>3 DEF Crash, TypeOK, Tokened
  <2>2. QED
    BY <1>1, <1>3, <2>1 DEF Crash, TypeOK
<1>4. CASE Serve(p)
  BY <1>4, AtGoes DEF Serve, Advertised, TokenOfFile, Tokened, TypeOK
<1>5. ASSUME pc[p] \in WithLock
      PROVE  \A q \in Procs \ {p} : pc[q] \notin {"minting", "writing"} \cup Tokened
  BY <1>5, AloneWithLock DEF WithLock, WithDatabase, AsServer
<1>6. CASE LoadToken(p)
  <2>1. \A q \in Procs \ {p} : pc'[q] \notin {"minting", "writing"} \cup Tokened
    BY <1>5, <1>6, AtGoes DEF LoadToken, WithLock, WithDatabase, AsServer
  <2>2. pc[p] = "recovered" /\ UNCHANGED <<info, tokenFile>>
    BY <1>6, AtGoes DEF LoadToken
  <2>3. p \notin Headless
    BY <2>2 DEF LockHeld, AsServer
  <2>4. CASE /\ pc'[p] = "tokened" /\ UNCHANGED shown
             /\ \E t \in Given[p] \ {0} : token' = [token EXCEPT ![p] = t]
    <3>1. PICK t \in Given[p] \ {0} : token' = [token EXCEPT ![p] = t]
      BY <2>4
    <3>2. t \in Int /\ t < 0
      BY <2>3, ServiceAssumption
    <3>3. token' \in [Procs -> Int] /\ token'[p] < 0
      BY <3>1, <3>2 DEF TypeOK
    <3>4. QED
      BY <2>1, <2>2, <2>4, <3>3 DEF Advertised, TokenOfFile, Tokened, TypeOK
  <2>5. CASE /\ pc'[p] = IF tokenFile = 0 THEN "minting" ELSE "tokened"
             /\ UNCHANGED shown /\ token' = [token EXCEPT ![p] = tokenFile]
    <3>1. token' \in [Procs -> Int] /\ token'[p] = tokenFile
      BY <2>5 DEF TypeOK
    <3>2. QED
      BY <2>1, <2>2, <2>5, <3>1 DEF Advertised, TokenOfFile, Tokened, TypeOK
  <2>6. CASE pc'[p] = "minting" /\ shown' = {} /\ UNCHANGED token
    BY <2>1, <2>2, <2>6 DEF Advertised, TokenOfFile, Tokened, TypeOK
  <2>7. QED
    BY <1>6, <2>4, <2>5, <2>6, AtGoes DEF LoadToken
<1>7. CASE TruncateToken(p)
  <2>1. \A q \in Procs \ {p} : pc'[q] \notin {"minting", "writing"} \cup Tokened
    BY <1>5, <1>7, AtGoes DEF TruncateToken, WithLock, WithDatabase, AsServer
  <2>2. pc[p] = "minting" /\ pc'[p] = "writing"
    BY <1>7, AtGoes DEF TruncateToken
  <2>3. QED
    BY <1>7, <2>1, <2>2 DEF TruncateToken, Advertised, TokenOfFile, Tokened, TypeOK
<1>8. CASE MintToken(p)
  <2>1. \A q \in Procs \ {p} : pc'[q] \notin {"minting", "writing"} \cup Tokened
    BY <1>5, <1>8, AtGoes DEF MintToken, WithLock, WithDatabase, AsServer
  <2>2. pc[p] = "writing" /\ pc'[p] = "tokened"
    BY <1>8, AtGoes DEF MintToken
  <2>3. tokenFile' \in Nat /\ tokenFile' # 0
    BY <1>8, FreshToken DEF MintToken
  <2>4. token' \in [Procs -> Int] /\ token'[p] = tokenFile'
    BY <1>8, <2>3 DEF MintToken, TypeOK
  <2>5. shown = {}
    BY <2>2 DEF TokenOfFile
  <2>6. QED
    BY <1>8, <2>1, <2>2, <2>3, <2>4, <2>5
    DEF MintToken, Advertised, TokenOfFile, Tokened, TypeOK
<1>9. CASE WriteFails(p)
  <2>1. UNCHANGED <<info, tokenFile, token, shown>>
    BY <1>9 DEF WriteFails
  <2>2. pc'[p] = "cleaning" /\ \A q \in Procs \ {p} : pc'[q] = pc[q]
    BY <1>9, AtGoes DEF WriteFails
  <2>3. QED
    BY <1>1, <2>1, <2>2 DEF TypeOK, Tokened
<1>10. CASE TruncateInfo(p) \/ WriteInfo(p) \/ RemoveInfo(p)
  <2>1. pc[p] \in {"tokened", "advertising", "ending"}
        /\ pc'[p] \in {"advertising", "advertised", "cleaning"}
        /\ \A q \in Procs \ {p} : pc'[q] = pc[q]
    BY <1>10, AtGoes DEF TruncateInfo, WriteInfo, RemoveInfo
  <2>2. \A q \in Procs \ {p} : pc'[q] \notin {"minting", "writing"} \cup Tokened
    BY <1>5, <2>1 DEF WithLock, WithDatabase, AsServer, Tokened
  <2>3. CASE TruncateInfo(p)
    <3>1. pc[p] = "tokened" /\ pc'[p] = "advertising"
      BY <2>3, AtGoes DEF TruncateInfo
    <3>2. QED
      BY <2>2, <2>3, <3>1 DEF TruncateInfo, Advertised, TokenOfFile, Tokened, TypeOK
  <2>4. CASE WriteInfo(p)
    <3>1. pc[p] = "advertising" /\ pc'[p] = "advertised"
      BY <2>4, AtGoes DEF WriteInfo
    <3>2. token[p] \in Int /\ (token[p] >= 0 => tokenFile # 0 /\ token[p] = tokenFile)
      BY <3>1 DEF TokenOfFile, Tokened, TypeOK
    <3>3. info' \in Infos /\ info'.kind = "info" /\ info'.pid = p /\ info'.token = token[p]
      <4>1. p \notin Headless
        BY <3>1 DEF LockHeld, AsServer, Tokened
      <4>2. Port[p] \in Ports /\ token[p] \in Int
        BY <4>1 DEF Ports, TypeOK
      <4>3. QED
        BY <2>4, <4>2 DEF WriteInfo, Infos
    <3>4. UNCHANGED <<tokenFile, token>>
      BY <2>4 DEF WriteInfo
    <3>5. Advertised'
      BY <2>2, <3>3, <3>4 DEF Advertised, Tokened
    <3>6. /\ shown' \subseteq {tokenFile} \ {0} /\ shown' \subseteq Nat
          /\ token[p] >= 0 => tokenFile \in shown'
      <4>1. shown' = IF token[p] < 0 THEN shown ELSE shown \cup {token[p]}
        BY <2>4 DEF WriteInfo
      <4>2. shown \subseteq {tokenFile} \ {0} /\ tokenFile \in Nat
        BY DEF TokenOfFile, TypeOK
      <4>3. CASE token[p] < 0
        BY <3>2, <4>1, <4>2, <4>3
      <4>4. CASE ~(token[p] < 0)
        <5>1. token[p] = tokenFile /\ tokenFile # 0
          BY <3>2, <4>4
        <5>2. QED
          BY <4>1, <4>2, <4>4, <5>1
      <4>5. QED
        BY <4>3, <4>4
    <3>7. TokenOfFile'
      BY <2>2, <3>1, <3>2, <3>4, <3>6 DEF TokenOfFile, Tokened
    <3>8. QED
      BY <3>3, <3>4, <3>5, <3>6, <3>7 DEF TypeOK
  <2>5. CASE RemoveInfo(p)
    <3>1. pc'[p] = "cleaning"
      BY <2>5, AtGoes DEF RemoveInfo
    <3>2. QED
      BY <2>2, <2>5, <3>1 DEF RemoveInfo, Advertised, TokenOfFile, Tokened, TypeOK
  <2>6. QED
    BY <1>10, <2>3, <2>4, <2>5
<1>11. QED
  BY <1>2, <1>3, <1>4, <1>6, <1>7, <1>10, <1>8, <1>9 DEF ProcStep

\* No process touches what a request has come to, but for the handler.
LEMMA ProcLeavesRequests ==
  ASSUME NEW p \in Procs, ProcStep(p)
  PROVE  UNCHANGED talk
BY DEF ProcStep, Lock, Setup, SetupFails, Work, ResumeNothing, WorkDone, Bind, Recover,
       LoadToken, TruncateToken, MintToken, TruncateInfo, WriteInfo, WriteFails, Serve, Signal, ServeReturns,
       RemoveInfo, Cleanup, Unlock, Exit, Crash, files, talk

\* A process's step.
LEMMA ProcInv ==
  ASSUME IInv, NEW p \in Procs, ProcStep(p)
  PROVE  IInv'
<1>1. TypeOK /\ LockHeld /\ Advertised /\ TokenOfFile
  BY DEF IInv
<1>2. LockHeld' /\ Advertised' /\ TokenOfFile'
  BY <1>1, ProcKeepsLock, ProcKeepsFiles
<1>3. UNCHANGED <<clients, handling, stored>>
  BY ProcLeavesRequests DEF talk
<1>4. TypeOK'
  BY <1>1, <1>3, ProcTypes, ProcKeepsFiles DEF TypeOK
<1>5. \A k \in Clients : RequestTold(k)'
  BY <1>3 DEF IInv, RequestTold
<1>6. QED
  BY <1>2, <1>4, <1>5 DEF IInv

\* A program that is not amplio changes the port alone.
LEMMA SquatInv ==
  ASSUME IInv, NEW q \in Ports, Squat(q)
  PROVE  IInv'
<1>1. TypeOK'
  BY DEF IInv, TypeOK, Squat, files, talk
<1>2. LockHeld' /\ Advertised' /\ TokenOfFile'
  BY DEF IInv, LockHeld, Advertised, TokenOfFile, Squat, files
<1>3. \A k \in Clients : RequestTold(k)'
  BY DEF IInv, RequestTold, Squat, talk
<1>4. QED
  BY <1>1, <1>2, <1>3 DEF IInv

\* A command's exit, and nothing else of it.
LEMMA ExitsWith ==
  ASSUME TypeOK, NEW k \in Clients, NEW code, Exits(k, code),
         code \in {"none", "ok", "refused", "unreachable", "certificate"}
  PROVE  /\ clients' \in [Clients -> [pc : {"idle", "sending", "waiting", "done"},
                             info : {Absent} \cup Infos,
                             code : {"none", "ok", "refused", "unreachable", "certificate"}]]
         /\ clients'[k].pc = "done" /\ clients'[k].code = code
         /\ \A j \in Clients \ {k} : clients'[j] = clients[j]
<1> DEFINE me == clients[k]
<1>1. me \in [pc : {"idle", "sending", "waiting", "done"}, info : {Absent} \cup Infos,
              code : {"none", "ok", "refused", "unreachable", "certificate"}]
  BY DEF TypeOK
<1>2. clients' = [clients EXCEPT ![k] = [me EXCEPT !.pc = "done", !.code = code]]
  BY DEF Exits
<1>3. QED
  BY <1>1, <1>2 DEF TypeOK

\* A command's step, or its handler's.
LEMMA ClientInv ==
  ASSUME IInv, NEW k \in Clients, ClientStep(k)
  PROVE  IInv'
<1>1. TypeOK /\ \A j \in Clients : RequestTold(j)
  BY DEF IInv
<1>2. UNCHANGED <<pc, signalled, lock, opened, agents, bound, token, files, crashes>>
  BY DEF ClientStep, ReadInfo, Send, Store, Refuse, Receive, GiveUp
<1>3. LockHeld' /\ Advertised' /\ TokenOfFile'
  BY <1>2 DEF IInv, LockHeld, Advertised, TokenOfFile, files
<1> DEFINE Typed ==
      /\ clients' \in [Clients -> [pc : {"idle", "sending", "waiting", "done"},
                             info : {Absent} \cup Infos,
                             code : {"none", "ok", "refused", "unreachable", "certificate"}]]
      /\ handling' \in [Clients -> [by : Procs \cup {Nobody},
                             at : {"none", "accepted", "stored", "refused", "answered"}]]
      /\ stored' \in [Clients -> Nat]
    Others == \A j \in Clients \ {k} :
      clients'[j] = clients[j] /\ handling'[j] = handling[j] /\ stored'[j] = stored[j]
<1>4. ASSUME Typed, Others, RequestTold(k)' PROVE IInv'
  <2>1. TypeOK'
    BY <1>1, <1>2, <1>4 DEF TypeOK, files
  <2>2. \A j \in Clients : RequestTold(j)'
    BY <1>1, <1>4 DEF RequestTold
  <2>3. QED
    BY <1>3, <2>1, <2>2 DEF IInv
<1>5. /\ clients[k] \in [pc : {"idle", "sending", "waiting", "done"},
                         info : {Absent} \cup Infos,
                         code : {"none", "ok", "refused", "unreachable", "certificate"}]
      /\ handling[k] \in [by : Procs \cup {Nobody},
                          at : {"none", "accepted", "stored", "refused", "answered"}]
      /\ RequestTold(k)
  BY <1>1 DEF TypeOK
<1>6. CASE ReadInfo(k)
  <2>1. clients[k].pc = "idle" /\ UNCHANGED <<handling, stored>>
    BY <1>6 DEF ReadInfo
  <2>2. CASE info.kind = "info"
    <3>1. info \in Infos
      BY <1>1, <2>2 DEF TypeOK, Absent, Torn
    <3>2. clients' = [clients EXCEPT ![k] = [clients[k] EXCEPT !.pc = "sending", !.info = info]]
      BY <1>6, <2>2 DEF ReadInfo
    <3>3. [clients[k] EXCEPT !.pc = "sending", !.info = info]
            \in [pc : {"idle", "sending", "waiting", "done"}, info : {Absent} \cup Infos,
                 code : {"none", "ok", "refused", "unreachable", "certificate"}]
          /\ [clients[k] EXCEPT !.pc = "sending", !.info = info].pc = "sending"
          /\ [clients[k] EXCEPT !.pc = "sending", !.info = info].info = info
          /\ [clients[k] EXCEPT !.pc = "sending", !.info = info].code = clients[k].code
      BY <1>5, <3>1
    <3>4. Typed /\ Others /\ clients'[k].pc = "sending" /\ clients'[k].code = clients[k].code
          /\ clients'[k].info \in Infos
      BY <1>1, <2>1, <3>1, <3>2, <3>3 DEF TypeOK
    <3>5. RequestTold(k)'
      BY <1>5, <2>1, <3>4 DEF RequestTold, Infos
    <3>6. QED
      BY <1>4, <3>4, <3>5
  <2>3. CASE info.kind # "info"
    <3>1. Typed /\ Others /\ clients'[k].pc = "done" /\ clients'[k].code = "unreachable"
      BY <1>1, <1>6, <2>1, <2>3, ExitsWith DEF ReadInfo, TypeOK
    <3>2. RequestTold(k)'
      BY <1>5, <2>1, <3>1 DEF RequestTold
    <3>3. QED
      BY <1>4, <3>1, <3>2
  <2>4. QED
    BY <2>2, <2>3
<1>7. CASE GiveUp(k)
  <2>1. clients[k].pc \in {"sending", "waiting"} /\ UNCHANGED <<handling, stored>>
    BY <1>7 DEF GiveUp
  <2>2. Typed /\ Others /\ clients'[k].pc = "done" /\ clients'[k].code = "unreachable"
    BY <1>1, <1>7, <2>1, ExitsWith DEF GiveUp, TypeOK
  <2>3. RequestTold(k)'
    BY <1>5, <2>1, <2>2 DEF RequestTold
  <2>4. QED
    BY <1>4, <2>2, <2>3
<1>8. CASE Send(k)
  <2>1. clients[k].pc = "sending" /\ UNCHANGED stored
    BY <1>8 DEF Send
  <2>2. CASE \E code \in {"refused", "unreachable", "certificate"} :
               Exits(k, code) /\ UNCHANGED handling
    <3>1. PICK code \in {"refused", "unreachable", "certificate"} :
            Exits(k, code) /\ UNCHANGED handling
      BY <2>2
    <3>2. Typed /\ Others /\ clients'[k].pc = "done" /\ clients'[k].code = code
      BY <1>1, <2>1, <3>1, ExitsWith DEF TypeOK
    <3>3. RequestTold(k)'
      BY <1>5, <2>1, <3>1, <3>2 DEF RequestTold
    <3>4. QED
      BY <1>4, <3>2, <3>3
  <2> DEFINE p == bound[clients[k].info.port]
  <2>3. CASE /\ clients' = [clients EXCEPT ![k].pc = "waiting"]
             /\ handling' = [handling EXCEPT ![k] = [by |-> p, at |-> "accepted"]]
             /\ p \notin {Nobody, Foreign}
    <3>1. p \in Procs
      <4>1. clients[k].info \in Infos
        BY <1>5, <2>1 DEF RequestTold
      <4>2. p \in Procs \cup {Nobody, Foreign}
        BY <1>1, <4>1 DEF TypeOK, Infos
      <4>3. QED
        BY <2>3, <4>2
    <3>2. [by |-> p, at |-> "accepted"] \in [by : Procs \cup {Nobody},
             at : {"none", "accepted", "stored", "refused", "answered"}]
      BY <3>1
    <3> HIDE DEF p
    <3>3. Typed /\ Others /\ clients'[k].pc = "waiting" /\ clients'[k].code = clients[k].code
          /\ handling'[k].at = "accepted"
      BY <1>1, <1>5, <2>1, <2>3, <3>2 DEF TypeOK
    <3>4. RequestTold(k)'
      BY <1>5, <2>1, <3>3 DEF RequestTold
    <3>5. QED
      BY <1>4, <3>3, <3>4
  <2>4. QED
    BY <1>8, <2>2, <2>3 DEF Send
<1>9. CASE Store(k) \/ Refuse(k)
  <2>1. handling[k].at = "accepted" /\ UNCHANGED clients
    BY <1>9 DEF Store, Refuse
  <2>2. CASE Store(k)
    <3>1. Typed /\ Others /\ handling'[k].at = "stored" /\ stored'[k] = stored[k] + 1
      BY <1>1, <1>5, <2>1, <2>2 DEF Store, TypeOK
    <3>2. RequestTold(k)'
      BY <1>5, <2>1, <3>1 DEF RequestTold
    <3>3. QED
      BY <1>4, <3>1, <3>2
  <2>3. CASE Refuse(k)
    <3>1. Typed /\ Others /\ handling'[k].at = "refused" /\ stored'[k] = stored[k]
      BY <1>1, <1>5, <2>1, <2>3 DEF Refuse, TypeOK
    <3>2. RequestTold(k)'
      BY <1>5, <2>1, <3>1 DEF RequestTold
    <3>3. QED
      BY <1>4, <3>1, <3>2
  <2>4. QED
    BY <1>9, <2>2, <2>3
<1>10. CASE Receive(k)
  <2>1. /\ clients[k].pc = "waiting" /\ handling[k].at \in {"stored", "refused"}
        /\ UNCHANGED stored
        /\ Exits(k, IF handling[k].at = "stored" THEN "ok" ELSE "refused")
        /\ handling' = [handling EXCEPT ![k].at = "answered"]
    BY <1>10 DEF Receive
  <2>2. /\ clients'[k].pc = "done"
        /\ clients'[k].code = IF handling[k].at = "stored" THEN "ok" ELSE "refused"
        /\ handling'[k].at = "answered"
        /\ Typed /\ Others
    BY <1>1, <1>5, <2>1, ExitsWith DEF TypeOK
  <2>3. RequestTold(k)'
    BY <1>5, <2>1, <2>2 DEF RequestTold
  <2>4. QED
    BY <1>4, <2>2, <2>3
<1>11. QED
  BY <1>6, <1>7, <1>8, <1>9, <1>10 DEF ClientStep

-----------------------------------------------------------------------------
\* The theorems.

\* Every step of the processes, of the commands and of a stranger keeps the
\* invariant.
LEMMA NextInv == IInv /\ [Next]_vars => IInv'
<1> SUFFICES ASSUME IInv, [Next]_vars PROVE IInv'
  OBVIOUS
<1>1. CASE UNCHANGED vars
  BY <1>1 DEF IInv, TypeOK, LockHeld, Advertised, TokenOfFile, RequestTold, vars
<1>2. ASSUME NEW p \in Procs, ProcStep(p) PROVE IInv'
  BY <1>2, ProcInv
<1>3. ASSUME NEW q \in Ports, Squat(q) PROVE IInv'
  BY <1>3, SquatInv
<1>4. ASSUME NEW k \in Clients, ClientStep(k) PROVE IInv'
  BY <1>4, ClientInv
<1>5. QED
  BY <1>1, <1>2, <1>3, <1>4 DEF Next, ProcStep, ClientStep

\* The inductive invariant holds in every reachable state.
THEOREM Invariance == Spec => []IInv
BY InitInv, NextInv, PTL DEF Spec

\* The types the model declares for the processes, the files and the commands
\* (serve.go, serverinfo.go, notify.go).
THEOREM TypeCorrect == Spec => []TypeOK
<1>1. IInv => TypeOK
  BY DEF IInv
<1>2. QED
  BY <1>1, Invariance, PTL

\* One process at a time has the database, and the serving one is the one that
\* server.json names, token and all; a server that is given no token has the one of
\* the file, which its users hold; a command that exits
\* with success has its message in the log once, a refused one has none. For any
\* number of processes, commands and crashes, at any points (lockDataDir and the
\* deferred calls of serve.go, loadOrCreateToken, the exits of notify.go).
THEOREM OwnersAreHonest == Spec => []OwnershipIsHonest
<1>1. IInv => OwnershipIsHonest
  <2> SUFFICES ASSUME IInv PROVE OwnershipIsHonest
    OBVIOUS
  <2>1. TypeOK /\ LockHeld /\ Advertised /\ TokenOfFile /\ \A k \in Clients : RequestTold(k)
    BY DEF IInv
  <2>2. Cardinality(opened) <= 1
    <3>1. \A p, q \in opened : p = q
      BY <2>1, AloneWithLock DEF LockHeld, WithLock, TypeOK
    <3>2. CASE opened = {}
      BY <3>2, FS_EmptySet
    <3>3. CASE opened # {}
      <4>1. PICK p : opened = {p}
        BY <3>1, <3>3
      <4>2. Cardinality({p}) = 1
        BY FS_Singleton
      <4>3. QED
        BY <4>1, <4>2
    <3>4. QED
      BY <3>2, <3>3
  <2>3. OneOwnerAdvertised
    BY <2>1, <2>2 DEF Advertised, OneOwnerAdvertised
  <2>4. TokenKept
    BY <2>1 DEF TokenOfFile, Tokened, TokenKept, TypeOK
  <2>5. ExitIsHonest
    BY <2>1 DEF RequestTold, ExitIsHonest
  <2>6. QED
    BY <2>3, <2>4, <2>5 DEF OwnershipIsHonest
<1>2. QED
  BY <1>1, Invariance, PTL
=============================================================================

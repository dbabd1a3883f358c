------------------------ MODULE SessionLifecycleProofs -----------------------
(***************************************************************************)
(* Proofs about the life of the sessions, for any number of sub-agents and *)
(* any roles.  The first half holds through any number of process crashes: *)
(* every end is reported once, and a status is left as the restart matrix  *)
(* allows.  The second half is about one process: the goroutine of a       *)
(* session that works is there.                                            *)
(*                                                                         *)
(* What makes them inductive is where a goroutine may be for a given       *)
(* status, and what the frames of a CancelSession may be about: a cancel   *)
(* writes behind the back of the goroutine, so of a session that a cancel  *)
(* may reach the place says only which verdict its row may hold.  A status *)
(* written over a verdict, the window that NeverClobber shows, is part of  *)
(* the theorems: they say which sessions it can happen to, and what of the *)
(* promises is left of a life it happened to.                              *)
(***************************************************************************)
EXTENDS SessionLifecycle, SequenceTheorems, TLAPS

\* Every run of the system, process crashes included.
CrashSpec == Init /\ [][NextOrCrash]_vars

-----------------------------------------------------------------------------
\* The inductive invariant.

AwaitPlaces == {"fast", "mark", "snap", "check", "sleep", "read", "restore"}
Dormant == {"down", "enter", "rest", "wake", "park", "parkCheck", "parkSleep",
            "revive", "exit"}
Ending == {"cascade", "terminate"}

\* A goroutine is only where its kind of session takes it.
PlaceFits(s) ==
  /\ pc[s] \in AwaitPlaces => s \in Awaiters
  /\ pc[s] = "idle" => s \in interactive
  /\ pc[s] \in Ending => s \notin interactive
  /\ pc[s] = "revive" => "input" \in fresh[s]

\* What the place of the goroutine says of the row.  The verdicts a life comes to
\* by itself are written on its way out, that of a cancel anywhere.
StatusFits(s) ==
  /\ status[s] = "idle" => s \in interactive /\ pc[s] \in Dormant
  /\ status[s] \in {"concluded", "crashed"} => pc[s] \in Dormant \cup Ending
  /\ status[s] = "concluded" => s \notin interactive
  /\ status[s] = "crashed" => ~resting[s]
  /\ status[s] = "cancelled" => s \in Reached
  /\ pc[s] = "rest" => resting[s] \/ status[s] = "cancelled"

\* A frame of a session no cancel reaches is that of its own conclusion, which
\* leaves its status and its goroutine alone; past its verdict a cancel has left
\* one or found one.
Fitting ==
  {f \in Frames : /\ f.of \in Reached \/ (f.quiet /\ f.at \in {"list", "kids"})
                  /\ f.at = "interrupt" \/ (f.at \in {"list", "kids"} /\ ~f.quiet) => f.ended
                  /\ f.left \subseteq Kids}
FramesFit == stack \in [Actors -> Seq(Fitting)]

IInv ==
  /\ TypeOK
  /\ \A s \in Tree : PlaceFits(s) /\ StatusFits(s)
  /\ FramesFit
  /\ ToldOnce

Active == {"ongoing", "awaiting"}

\* While its row says that a session works, its goroutine is beyond the checks
\* a new life makes and has not taken the way out, but for a life that a cancel
\* overtaken by it has stopped.
LifeFits(s) ==
  /\ status[s] \in Active /\ s \notin crossed => pc[s] \notin Dormant \ {"wake"}
  /\ status[s] = "awaiting" /\ s \notin crossed => pc[s] # "wake"
  /\ ctxDone[s] => status[s] \in Terminal \/ s \in crossed
  /\ s \in crossed => s \in Reached

LInv == IInv /\ \A s \in Tree : LifeFits(s)

-----------------------------------------------------------------------------
\* Lemmas about stacks.

\* Popping the innermost frame and pushing others leaves a stack of frames.
LEMMA ReplaceFits ==
  ASSUME NEW F, NEW q \in Seq(F), q # <<>>, NEW r \in Seq(F)
  PROVE  SubSeq(q, 1, Len(q) - 1) \o r \in Seq(F)
<1>1. Len(q) \in Nat /\ Len(q) # 0
  BY EmptySeq, LenProperties
<1>2. SubSeq(q, 1, Len(q) - 1) \in Seq(F)
  BY <1>1, SubSeqProperties
<1>3. QED
  BY <1>2, ConcatProperties

\* The innermost frame of a call is one of the stack.
LEMMA InnermostFits ==
  ASSUME FramesFit, NEW t \in Actors, stack[t] # <<>>
  PROVE  Frame(t) \in Fitting
<1>1. stack[t] \in Seq(Fitting)
  BY DEF FramesFit
<1>2. Len(stack[t]) \in 1..Len(stack[t])
  BY <1>1, EmptySeq, LenProperties
<1>3. QED
  BY <1>1, <1>2, ElementOfSeq DEF Frame

\* Stacks of fitting frames are stacks of frames.
LEMMA FittingTyped ==
  ASSUME NEW st \in [Actors -> Seq(Fitting)]
  PROVE  st \in [Actors -> Seq(Frames)]
<1>1. ASSUME NEW t \in Actors PROVE st[t] \in Seq(Frames)
  <2>1. st[t] \in Seq(Fitting) /\ Fitting \subseteq Frames
    BY DEF Fitting
  <2>2. st[t] \in [1..Len(st[t]) -> Frames] /\ Len(st[t]) \in Nat
    BY <2>1, ElementOfSeq, LenProperties
  <2>3. QED
    BY <2>1, <2>2, SeqDef
<1>2. QED
  BY <1>1

\* What an actor puts in the place of its innermost frame fits.
LEMMA PushFits ==
  ASSUME FramesFit, NEW t \in Actors, stack[t] # <<>>, NEW r \in Seq(Fitting), Replace(t, r)
  PROVE  FramesFit' /\ stack' \in [Actors -> Seq(Frames)]
<1>1. SubSeq(stack[t], 1, Len(stack[t]) - 1) \o r \in Seq(Fitting)
  BY ReplaceFits DEF FramesFit
<1>2. FramesFit'
  BY <1>1 DEF FramesFit, Replace
<1>3. QED
  BY <1>2, FittingTyped DEF FramesFit

\* A frame moves on.
LEMMA MoveFits ==
  ASSUME NEW f \in Fitting, NEW at \in {"term", "list", "kids", "interrupt"},
         f.of \in Reached, at # "term" => f.ended
  PROVE  [f EXCEPT !.at = at] \in Fitting /\ <<[f EXCEPT !.at = at]>> \in Seq(Fitting)
<1>1. f \in Frames /\ f.left \subseteq Kids
  BY DEF Fitting
<1>2. [f EXCEPT !.at = at] \in Frames
  BY <1>1 DEF Frames
<1>3. [f EXCEPT !.at = at] \in Fitting
  BY <1>1, <1>2 DEF Fitting, Frames
<1>4. QED
  BY <1>3

\* The children are listed: no session but a sub-agent is anybody's child.
LEMMA ListFits ==
  ASSUME NEW f \in Fitting, f.at = "list", NEW K \in SUBSET Kids
  PROVE  <<[f EXCEPT !.at = "kids", !.left = K]>> \in Seq(Fitting)
<1>1. f \in Frames
  BY DEF Fitting
<1>2. [f EXCEPT !.at = "kids", !.left = K] \in Frames
  BY <1>1 DEF Frames, Tree
<1>3. [f EXCEPT !.at = "kids", !.left = K] \in Fitting
  BY <1>1, <1>2 DEF Fitting, Frames
<1>4. QED
  BY <1>3

-----------------------------------------------------------------------------
\* Every action, and a crash, keeps the invariant.

\* A run that has just been created (Service.Create) satisfies it.
LEMMA InitInv == Init => IInv
<1> SUFFICES ASSUME Init PROVE IInv
  OBVIOUS
<1> USE SessionsAssumption, RolesAssumption DEF Init
<1>1. <<>> \in Seq(Fitting) /\ <<>> \in Seq(Frames)
  BY EmptySeq
<1>2. TypeOK /\ FramesFit
  BY <1>1 DEF TypeOK, FramesFit, Tree, PCs, Statuses
<1>3. (\A s \in Tree : PlaceFits(s) /\ StatusFits(s)) /\ ToldOnce
  BY DEF PlaceFits, StatusFits, ToldOnce, Tree, AwaitPlaces, Dormant, Ending, Terminal, None
<1>4. QED
  BY <1>2, <1>3 DEF IInv

\* An event that is appended is one more class of what has not been read.
LEMMA AppendFits ==
  ASSUME TypeOK, NEW t \in Actors, NEW to \in Tree, NEW class \in {"input", "env", "notice"},
         AppendEvent(t, to, class)
  PROVE  /\ fire' \in [Actors -> SUBSET Calls]
         /\ fresh' \in [Tree -> SUBSET {"input", "notice"}]
         /\ \A x \in Tree : fresh[x] \subseteq fresh'[x]
  BY DEF TypeOK, AppendEvent, ClassOf, Calls

\* Every step of the goroutines, the operator, the notifier and the cancellers,
\* and a crash of the process, keeps the invariant.  Step <1>7 is what the three
\* callers of TerminateAndNotifyParent share.
LEMMA NextInv == IInv /\ [NextOrCrash]_vars => IInv'
<1> SUFFICES ASSUME IInv, [NextOrCrash]_vars PROVE IInv'
  OBVIOUS
<1> USE SessionsAssumption, RolesAssumption
    DEF IInv, TypeOK, PlaceFits, StatusFits, FramesFit, ToldOnce, Reached,
        history, row, At, Goto, UpdateSessionStatus, Tree, Actors, PCs, Statuses, Terminal, AwaitPlaces, Dormant, Ending, Exists, None
<1>1. ASSUME NEW s \in Tree, Bootstrap(s) PROVE IInv'
  <2>1. CASE s \in interactive
    BY <1>1, <2>1 DEF Bootstrap
  <2>2. CASE s \notin interactive
    BY <1>1, <2>2 DEF Bootstrap
  <2>3. QED
    BY <2>1, <2>2
<1>2. ASSUME NEW s \in Tree, NEW to \in {"ongoing", "awaiting", "idle"}, WriteBlindly(s, to),
             pc[s] \in BlindPlaces, pc[s] = "rest" => s \in interactive,
             NEW next \in {"wake", "park", "snap", "results"}, pc' = [pc EXCEPT ![s] = next],
             to = "idle" => s \in interactive /\ next \in {"wake", "park"},
             next = "snap" => s \in Awaiters,
             UNCHANGED <<fresh, midCall, resting, interactive, ctxDone, woken, fire, stack>>
      PROVE  IInv'
  <2>1. status[s] \in Terminal => s \in Reached \cap (interactive \cup Awaiters)
    BY <1>2 DEF BlindPlaces
  <2>2. /\ status' = [status EXCEPT ![s] = to] /\ UNCHANGED told
        /\ clobbered' = clobbered \cup (IF status[s] \in Terminal THEN {s} ELSE {})
        /\ crossed' = crossed \cup (IF status[s] \in Terminal THEN {s} ELSE {})
    BY <1>2 DEF WriteBlindly
  <2>3. TypeOK' /\ FramesFit'
    BY <1>2, <2>2
  <2>4. ToldOnce'
    BY <1>2, <2>1, <2>2
  <2>5. ASSUME NEW x \in Tree PROVE PlaceFits(x)' /\ StatusFits(x)'
    <3>1. CASE x = s
      BY <1>2, <2>2, <3>1
    <3>2. CASE x # s
      <4>1. status'[x] = status[x] /\ pc'[x] = pc[x]
        BY <1>2, <2>2, <3>2
      <4>2. QED
        BY <1>2, <4>1
    <3>3. QED
      BY <3>1, <3>2
  <2>6. QED
    BY <2>3, <2>4, <2>5
<1>46. ASSUME NEW s \in Tree, ResumeAtRest(s) PROVE IInv'
  <2>1. CASE s \in interactive
    <3>1. WriteBlindly(s, "idle") /\ pc[s] = "rest" /\ pc' = [pc EXCEPT ![s] = "wake"]
          /\ UNCHANGED <<fresh, midCall, resting, interactive, ctxDone, woken, fire, stack>>
      BY <1>46, <2>1 DEF ResumeAtRest
    <3>2. QED
      BY <1>2, <2>1, <3>1 DEF BlindPlaces
  <2>2. CASE s \notin interactive
    <3>1. /\ pc[s] = "rest" /\ pc' = [pc EXCEPT ![s] = "cascade"]
          /\ UNCHANGED <<status, fresh, midCall, resting, interactive, history, ctxDone, woken,
                         fire, stack>>
      BY <1>46, <2>2 DEF ResumeAtRest
    <3>2. QED
      BY <2>2, <3>1
  <2>3. QED
    BY <2>1, <2>2
<1>3. ASSUME NEW s \in Tree, AnswerWithTools(s) PROVE IInv'
  <2>1. PICK next \in {"results", "spawn", "send"} \cup (IF s \in Awaiters THEN {"fast"} ELSE {}) :
          Answer(s, FALSE, next)
    BY <1>3 DEF AnswerWithTools
  <2>2. next \in {"results", "spawn", "send", "fast"} /\ (next = "fast" => s \in Awaiters)
    OBVIOUS
  <2>3. /\ pc[s] = "llm" /\ pc' = [pc EXCEPT ![s] = next]
        /\ midCall' = [midCall EXCEPT ![s] = FALSE] /\ resting' = [resting EXCEPT ![s] = FALSE]
        /\ UNCHANGED <<status, fresh, interactive, history, ctxDone, woken, fire, stack>>
    BY <2>1 DEF Answer
  <2>4. TypeOK' /\ ToldOnce' /\ FramesFit'
    BY <2>2, <2>3
  <2>5. \A x \in Tree : x # s => pc'[x] = pc[x] /\ resting'[x] = resting[x]
    BY <2>3
  <2>6. pc'[s] = next /\ resting'[s] = FALSE
    BY <2>3
  <2>7. \A x \in Tree : PlaceFits(x)'
    BY <2>2, <2>3, <2>5, <2>6
  <2>8. \A x \in Tree : StatusFits(x)'
    BY <2>2, <2>3, <2>5, <2>6
  <2>9. QED
    BY <2>4, <2>7, <2>8
<1>4. ASSUME NEW s \in Tree, SpawnAgent(s) PROVE IInv'
  <2>1. PICK k \in Tree, next \in {"results", "fast"} :
          /\ pc[k] = "down" /\ (next = "fast" => s \in Awaiters)
          /\ pc' = [pc EXCEPT ![k] = "enter", ![s] = next]
    BY <1>4 DEF SpawnAgent, ChildrenOf
  <2>2. UNCHANGED <<row, ctxDone, woken, fire, stack>> /\ pc[s] = "spawn"
    BY <1>4 DEF SpawnAgent
  <2>3. TypeOK' /\ ToldOnce' /\ FramesFit'
    BY <2>1, <2>2
  <2>4. \A x \in Tree : x # s /\ x # k => pc'[x] = pc[x]
    BY <2>1
  <2>5. k # s /\ pc'[s] = next /\ pc'[k] = "enter"
    BY <2>1, <2>2
  <2>6. \A x \in Tree : PlaceFits(x)'
    BY <2>1, <2>2, <2>4, <2>5
  <2>7. \A x \in Tree : StatusFits(x)'
    BY <2>1, <2>2, <2>4, <2>5
  <2>8. QED
    BY <2>3, <2>6, <2>7
<1>5. ASSUME NEW s \in Tree, SendMessage(s) PROVE IInv'
  <2>1. fire' \in [Actors -> SUBSET Calls] /\ fresh' \in [Tree -> SUBSET {"input", "notice"}]
        /\ \A x \in Tree : fresh[x] \subseteq fresh'[x]
    <3>1. CASE UNCHANGED <<fresh, fire>>
      BY <3>1
    <3>2. ASSUME NEW to \in Messaged, AppendEvent(s, to, "input")
          PROVE  /\ fire' \in [Actors -> SUBSET Calls]
                 /\ fresh' \in [Tree -> SUBSET {"input", "notice"}]
                 /\ \A x \in Tree : fresh[x] \subseteq fresh'[x]
      BY <3>2, AppendFits
    <3>3. QED
      BY <1>5, <3>1, <3>2 DEF SendMessage
  <2>2. QED
    BY <1>5, <2>1 DEF SendMessage
<1>6. ASSUME NEW s \in Tree, Cascade(s) PROVE IInv'
  <2>1. <<[of |-> s, at |-> "list", left |-> {}, quiet |-> TRUE, ended |-> FALSE]>> \in Seq(Fitting)
    BY DEF Fitting, Frames
  <2>2. FramesFit' /\ stack' \in [Actors -> Seq(Frames)]
    BY <1>6, <2>1, FittingTyped DEF Cascade
  <2>3. QED
    BY <1>6, <2>2 DEF Cascade
<1>7. ASSUME NEW s \in Tree, NEW t \in Actors, NEW v \in Terminal, 
             TerminateAndNotifyParent(t, s, v),
             UNCHANGED <<ctxDone, woken>>,
             FramesFit', stack' \in [Actors -> Seq(Frames)],
             \/ t = s /\ pc[s] = "terminate" /\ v = "concluded" /\ pc' = [pc EXCEPT ![s] = "exit"]
             \/ t = s /\ v = "crashed" /\ pc' = [pc EXCEPT ![s] = "exit"]
             \/ s \in Reached /\ v = "cancelled" /\ UNCHANGED pc
      PROVE  IInv'
  <2>1. CASE UNCHANGED <<row, fire>>
    <3>1. CASE s \in Reached /\ UNCHANGED pc
      BY <1>7, <2>1, <3>1
    <3>2. CASE pc' = [pc EXCEPT ![s] = "exit"]
      BY <1>7, <2>1, <3>2
    <3>3. QED
      BY <1>7, <3>1, <3>2
  <2>2. CASE WriteVerdict(t, s, v) /\ status[s] \notin Terminal
    <3>1. /\ status' = [status EXCEPT ![s] = v]
          /\ told' = [told EXCEPT ![s] = IF s \in clobbered THEN 2 ELSE 1]
          /\ resting' = [resting EXCEPT ![s] = @ /\ v = "concluded"]
          /\ UNCHANGED <<midCall, interactive, clobbered, crossed>>
      <4>1. IF s \in clobbered THEN told[s] \in 1..2 ELSE told[s] = 0
        BY <2>2
      <4>2. (IF told[s] = 2 THEN 2 ELSE told[s] + 1) = IF s \in clobbered THEN 2 ELSE 1
        BY <4>1
      <4>3. QED
        BY <2>2, <4>2 DEF WriteVerdict
    <3>2. fresh' \in [Tree -> SUBSET {"input", "notice"}]
          /\ \A x \in Tree : fresh[x] \subseteq fresh'[x]
      BY <2>2 DEF WriteVerdict
    <3>3. fire' \in [Actors -> SUBSET Calls]
      BY <2>2 DEF WriteVerdict, Calls, Parent
    <3>4. TypeOK'
      <4>1. told' \in [Tree -> 0..2]
        BY <3>1
      <4>2. /\ status' \in [Tree -> Statuses \cup {None}] /\ resting' \in [Tree -> BOOLEAN]
            /\ midCall' \in [Tree -> BOOLEAN] /\ interactive' \subseteq Interactive
            /\ clobbered' \subseteq Tree /\ crossed' \subseteq Tree
        BY <3>1
      <4>3. pc' \in [Tree -> PCs]
        BY <1>7
      <4>4. ctxDone' \in [Tree -> BOOLEAN] /\ woken' \in [Tree -> BOOLEAN]
        BY <1>7
      <4>5. QED
        BY <1>7, <3>2, <3>3, <4>1, <4>2, <4>3, <4>4
    <3>7. ASSUME NEW x \in Tree
          PROVE  /\ x \notin clobbered' => told'[x] = IF status'[x] \in Terminal THEN 1 ELSE 0
                 /\ x \in clobbered' =>
                      told'[x] \in 1..2 /\ x \in Reached \cap (interactive' \cup Awaiters)
      <4>1. CASE x = s
        BY <3>1, <4>1
      <4>2. CASE x # s
        BY <3>1, <4>2
      <4>3. QED
        BY <4>1, <4>2
    <3>8. ToldOnce'
      BY <3>7
    <3>5. ASSUME NEW x \in Tree PROVE PlaceFits(x)' /\ StatusFits(x)'
      <4>1. CASE x # s
        BY <1>7, <3>1, <3>2, <4>1
      <4>2. CASE x = s /\ pc' = [pc EXCEPT ![s] = "exit"]
        BY <1>7, <3>1, <3>2, <4>2
      <4>3. CASE x = s /\ s \in Reached /\ UNCHANGED pc
        BY <1>7, <3>1, <3>2, <4>3
      <4>4. QED
        BY <1>7, <4>1, <4>2, <4>3
    <3>6. QED
      BY <1>7, <3>4, <3>8, <3>5
  <2>3. QED
    BY <1>7, <2>1, <2>2 DEF TerminateAndNotifyParent
<1>8. ASSUME NEW s \in Tree, Conclude(s) PROVE IInv'
  <2>1. pc[s] = "terminate" /\ TerminateAndNotifyParent(s, s, "concluded")
        /\ pc' = [pc EXCEPT ![s] = "exit"] /\ UNCHANGED <<ctxDone, woken, stack>>
    BY <1>8 DEF Conclude
  <2>2. QED
    BY <1>7, <2>1
<1>9. ASSUME NEW s \in Tree, ProviderFails(s) PROVE IInv'
  <2>1. TerminateAndNotifyParent(s, s, "crashed")
        /\ pc' = [pc EXCEPT ![s] = "exit"] /\ UNCHANGED <<ctxDone, woken, stack>>
    BY <1>9 DEF ProviderFails
  <2>2. QED
    BY <1>7, <2>1
<1>10. ASSUME NEW s \in Tree, StartCancel(s) PROVE IInv'
  <2>1. <<Calling(s)>> \in Seq(Fitting)
    BY <1>10 DEF StartCancel, Calling, Fitting, Frames
  <2>2. FramesFit' /\ stack' \in [Actors -> Seq(Frames)]
    BY <1>10, <2>1, FittingTyped DEF StartCancel
  <2>3. QED
    BY <1>10, <2>2 DEF StartCancel
<1>11. ASSUME NEW s \in Tree, NEW class \in {"input", "env"}, Post(s, class) PROVE IInv'
  <2>1. /\ fire' \in [Actors -> SUBSET Calls]
        /\ fresh' \in [Tree -> SUBSET {"input", "notice"}]
        /\ \A x \in Tree : fresh[x] \subseteq fresh'[x]
    <3>1. User \in Actors /\ AppendEvent(User, s, class) /\ class \in {"input", "env", "notice"}
      BY <1>11 DEF Post
    <3>2. TypeOK
      OBVIOUS
    <3> HIDE DEF TypeOK, IInv
    <3>3. QED
      BY <3>1, <3>2, AppendFits
  <2>2. QED
    BY <1>11, <2>1 DEF Post
<1>12. ASSUME NEW s \in Tree, Recover(s) PROVE IInv'
  <2>1. CASE AtRest(s)
    <3>1. pc[s] = "down" /\ pc' = [pc EXCEPT ![s] = "enter"]
          /\ UNCHANGED <<row, ctxDone, woken, fire, stack>>
      BY <1>12, <2>1 DEF Recover
    <3>2. QED
      BY <3>1
  <2>2. CASE ~AtRest(s)
    <3>1. AppendEvent(User, s, "input")
          /\ UNCHANGED <<pc, status, midCall, resting, interactive, history, ctxDone, woken, stack>>
      BY <1>12, <2>2 DEF Recover
    <3>2. /\ fire' \in [Actors -> SUBSET Calls]
          /\ fresh' \in [Tree -> SUBSET {"input", "notice"}]
          /\ \A x \in Tree : fresh[x] \subseteq fresh'[x]
      BY <3>1, AppendFits
    <3>3. QED
      BY <3>1, <3>2
  <2>3. QED
    BY <2>1, <2>2
<1>13. ASSUME NEW t \in Actors, Notify(t) PROVE IInv'
  <2>1. PICK call \in fire[t] :
          \/ pc[call.to] # "down" /\ woken' = [woken EXCEPT ![call.to] = TRUE] /\ UNCHANGED pc
          \/ pc[call.to] = "down" /\ UNCHANGED woken
             /\ (UNCHANGED pc \/ pc' = [pc EXCEPT ![call.to] = "enter"])
    BY <1>13 DEF Notify
  <2>2. call.to \in Tree
    BY DEF Calls
  <2>3. fire' \in [Actors -> SUBSET Calls] /\ UNCHANGED <<row, ctxDone, stack>>
    BY <1>13 DEF Notify
  <2>4. CASE UNCHANGED pc
    <3>1. woken' \in [Tree -> BOOLEAN]
      BY <2>1, <2>2
    <3>2. QED
      BY <2>3, <2>4, <3>1
  <2>5. CASE pc' = [pc EXCEPT ![call.to] = "enter"] /\ UNCHANGED woken /\ pc[call.to] = "down"
    BY <2>2, <2>3, <2>5
  <2>6. QED
    BY <2>1, <2>4, <2>5
<1>14. ASSUME NEW t \in Actors, CancelRead(t) PROVE IInv'
  <2>1. Frame(t) \in Fitting /\ Frame(t).at = "read" /\ stack[t] # <<>>
    BY <1>14, InnermostFits DEF CancelRead, InCall
  <2>2. <<[Frame(t) EXCEPT !.at = "term"]>> \in Seq(Fitting) /\ <<>> \in Seq(Fitting)
    BY <2>1, MoveFits, EmptySeq DEF Fitting
  <2>3. FramesFit' /\ stack' \in [Actors -> Seq(Frames)]
    BY <1>14, <2>1, <2>2, PushFits DEF CancelRead, NextInCall, Return
  <2>4. QED
    BY <1>14, <2>3 DEF CancelRead
<1>15. ASSUME NEW t \in Actors, CancelTerminate(t) PROVE IInv'
  <2>1. Frame(t) \in Fitting /\ Frame(t).at = "term" /\ stack[t] # <<>>
    BY <1>15, InnermostFits DEF CancelTerminate, InCall
  <2>2. Frame(t).of \in Reached /\ Frame(t).of \in Tree
    BY <2>1 DEF Fitting, Frames
  <2>3. status'[Frame(t).of] \in Terminal
    BY <1>15, <2>2 DEF CancelTerminate, TerminateAndNotifyParent, WriteVerdict
  <2>4. [Frame(t) EXCEPT !.at = "list", !.ended = status'[Frame(t).of] \in Terminal] \in Fitting
    BY <2>1, <2>2, <2>3 DEF Fitting, Frames
  <2>5. PICK f \in Fitting : Replace(t, <<f>>)
    BY <1>15, <2>4 DEF CancelTerminate
  <2>6. <<f>> \in Seq(Fitting)
    OBVIOUS
  <2>7. FramesFit' /\ stack' \in [Actors -> Seq(Frames)]
    BY <2>1, <2>5, <2>6, PushFits
  <2>8. QED
    BY <1>7, <1>15, <2>2, <2>7 DEF CancelTerminate
<1>16. ASSUME NEW t \in Actors, CancelList(t) PROVE IInv'
  <2>1. Frame(t) \in Fitting /\ Frame(t).at = "list" /\ stack[t] # <<>>
    BY <1>16, InnermostFits DEF CancelList, InCall
  <2>2. {c \in ChildrenOf(Frame(t).of) : Exists(c)} \subseteq Kids
    BY <2>1 DEF ChildrenOf, Parent, Fitting, Frames
  <2>3. <<[Frame(t) EXCEPT !.at = "kids",
             !.left = {c \in ChildrenOf(Frame(t).of) : Exists(c)}]>> \in Seq(Fitting)
    BY <2>1, <2>2, ListFits DEF Fitting
  <2>4. FramesFit' /\ stack' \in [Actors -> Seq(Frames)]
    BY <1>16, <2>1, <2>3, PushFits DEF CancelList
  <2>5. QED
    BY <1>16, <2>4 DEF CancelList
<1>17. ASSUME NEW t \in Actors, CancelChild(t) PROVE IInv'
  <2>1. Frame(t) \in Fitting /\ Frame(t).at = "kids" /\ stack[t] # <<>>
    BY <1>17, InnermostFits DEF CancelChild, InCall
  <2>2. PICK c \in Frame(t).left :
          Replace(t, <<[Frame(t) EXCEPT !.left = @ \ {c}], Calling(c)>>)
    BY <1>17 DEF CancelChild
  <2>3. [Frame(t) EXCEPT !.left = @ \ {c}] \in Fitting /\ Calling(c) \in Fitting
    BY <2>1 DEF Fitting, Frames, Calling
  <2>4. <<[Frame(t) EXCEPT !.left = @ \ {c}], Calling(c)>> \in Seq(Fitting)
    BY <2>3
  <2>5. FramesFit' /\ stack' \in [Actors -> Seq(Frames)]
    BY <2>1, <2>2, <2>4, PushFits
  <2>6. QED
    BY <1>17, <2>5 DEF CancelChild
<1>18. ASSUME NEW t \in Actors, CancelledChildren(t) PROVE IInv'
  <2>1. Frame(t) \in Fitting /\ Frame(t).at = "kids" /\ stack[t] # <<>>
    BY <1>18, InnermostFits DEF CancelledChildren, InCall
  <2>2. ~Frame(t).quiet => <<[Frame(t) EXCEPT !.at = "interrupt"]>> \in Seq(Fitting)
    BY <2>1, MoveFits DEF Fitting
  <2>3. <<>> \in Seq(Fitting)
    BY EmptySeq
  <2>4. FramesFit' /\ stack' \in [Actors -> Seq(Frames)]
    BY <1>18, <2>1, <2>2, <2>3, PushFits DEF CancelledChildren, NextInCall, Return
  <2>5. QED
    BY <1>18, <2>4 DEF CancelledChildren
<1>19. ASSUME NEW t \in Actors, CancelInterrupt(t) PROVE IInv'
  <2>1. Frame(t) \in Fitting /\ stack[t] # <<>>
    BY <1>19, InnermostFits DEF CancelInterrupt, InCall
  <2>2. <<>> \in Seq(Fitting)
    BY EmptySeq
  <2>3. FramesFit' /\ stack' \in [Actors -> Seq(Frames)]
    BY <1>19, <2>1, <2>2, PushFits DEF CancelInterrupt, Return
  <2>4. QED
    <3>1. /\ ctxDone' = [ctxDone EXCEPT ![Frame(t).of] = pc[Frame(t).of] # "down"]
          /\ crossed' \in {crossed, crossed \cup {Frame(t).of}}
          /\ UNCHANGED <<status, fresh, midCall, resting, interactive, told, clobbered,
                         pc, woken, fire>>
      BY <1>19 DEF CancelInterrupt
    <3>2. Frame(t).of \in Tree
      BY <2>1 DEF Fitting, Frames
    <3>3. TypeOK'
      BY <2>3, <3>1, <3>2
    <3>4. (\A x \in Tree : PlaceFits(x)' /\ StatusFits(x)') /\ ToldOnce'
      BY <3>1
    <3>5. QED
      BY <2>3, <3>3, <3>4
<1>20. ASSUME Crash PROVE IInv'
  <2>1. FramesFit' /\ stack' \in [Actors -> Seq(Frames)]
    BY <1>20, EmptySeq, FittingTyped DEF Crash
  <2>2. QED
    BY <1>20, <2>1 DEF Crash
<1>21. CASE UNCHANGED vars
  BY <1>21 DEF vars
<1>22. ASSUME NEW s \in Tree, Resume(s) PROVE IInv'
  BY <1>22 DEF Resume, AtRest
<1>23. ASSUME NEW s \in Tree, CheckStatus(s) PROVE IInv'
  BY <1>23 DEF CheckStatus
<1>24. ASSUME NEW s \in Tree, Revive(s) PROVE IInv'
  BY <1>24 DEF Revive
<1>25. ASSUME NEW s \in Tree, ParkSnapshot(s) PROVE IInv'
  BY <1>25 DEF ParkSnapshot
<1>26. ASSUME NEW s \in Tree, ParkCheck(s) PROVE IInv'
  BY <1>26 DEF ParkCheck
<1>27. ASSUME NEW s \in Tree, ParkWoken(s) PROVE IInv'
  BY <1>27 DEF ParkWoken
<1>28. ASSUME NEW s \in Tree, ParkTimeout(s) PROVE IInv'
  BY <1>28 DEF ParkTimeout
<1>29. ASSUME NEW s \in Tree, Top(s) PROVE IInv'
  BY <1>29 DEF Top
<1>30. ASSUME NEW s \in Tree, AnswerWithText(s) PROVE IInv'
  BY <1>30 DEF AnswerWithText, Answer
<1>31. ASSUME NEW s \in Tree, SpawnNothing(s) PROVE IInv'
  BY <1>31 DEF SpawnNothing
<1>32. ASSUME NEW s \in Tree, FinishTools(s) PROVE IInv'
  BY <1>32 DEF FinishTools
<1>33. ASSUME NEW s \in Tree, CountArrivals(s) PROVE IInv'
  BY <1>33 DEF CountArrivals
<1>34. ASSUME NEW s \in Tree, ParkIdle(s) PROVE IInv'
  <2>1. WriteBlindly(s, "idle") /\ pc[s] = "idle" /\ pc' = [pc EXCEPT ![s] = "park"]
        /\ UNCHANGED <<fresh, midCall, resting, interactive, ctxDone, woken, fire, stack>>
    BY <1>34 DEF ParkIdle
  <2>2. QED
    BY <1>2, <2>1 DEF BlindPlaces
<1>35. ASSUME NEW s \in Tree, AwaitFast(s) PROVE IInv'
  BY <1>35 DEF AwaitFast
<1>36. ASSUME NEW s \in Tree, AwaitMark(s) PROVE IInv'
  <2>1. WriteBlindly(s, "awaiting") /\ pc[s] = "mark" /\ pc' = [pc EXCEPT ![s] = "snap"]
        /\ UNCHANGED <<fresh, midCall, resting, interactive, ctxDone, woken, fire, stack>>
    BY <1>36 DEF AwaitMark
  <2>2. QED
    BY <1>2, <2>1 DEF BlindPlaces
<1>37. ASSUME NEW s \in Tree, AwaitSnapshot(s) PROVE IInv'
  BY <1>37 DEF AwaitSnapshot
<1>38. ASSUME NEW s \in Tree, AwaitCheck(s) PROVE IInv'
  BY <1>38 DEF AwaitCheck
<1>39. ASSUME NEW s \in Tree, AwaitWoken(s) PROVE IInv'
  BY <1>39 DEF AwaitWoken
<1>40. ASSUME NEW s \in Tree, AwaitTimeout(s) PROVE IInv'
  BY <1>40 DEF AwaitTimeout
<1>41. ASSUME NEW s \in Tree, AwaitReadStatus(s) PROVE IInv'
  BY <1>41 DEF AwaitReadStatus
<1>42. ASSUME NEW s \in Tree, AwaitRestore(s) PROVE IInv'
  <2>1. WriteBlindly(s, "ongoing") /\ pc[s] = "restore" /\ pc' = [pc EXCEPT ![s] = "results"]
        /\ UNCHANGED <<fresh, midCall, resting, interactive, ctxDone, woken, fire, stack>>
    BY <1>42 DEF AwaitRestore
  <2>2. QED
    BY <1>2, <2>1 DEF BlindPlaces
<1>43. ASSUME NEW s \in Tree, ContextDone(s) PROVE IInv'
  BY <1>43 DEF ContextDone, ContextPlaces
<1>44. ASSUME NEW s \in Tree, Exit(s) PROVE IInv'
  BY <1>44 DEF Exit
<1> HIDE DEF IInv
<1>45. QED
  BY <1>1, <1>3, <1>4, <1>5, <1>6, <1>8, <1>9, <1>10, <1>11, <1>12, <1>13, <1>14, <1>15, <1>16, <1>17, <1>18, <1>19, <1>20, <1>21, <1>22, <1>23, <1>24, <1>25, <1>26, <1>27, <1>28, <1>29, <1>30, <1>31, <1>32, <1>33, <1>34, <1>35, <1>36, <1>37, <1>38, <1>39, <1>40, <1>41, <1>42, <1>43, <1>44, <1>46
     DEF NextOrCrash, Next, Goroutine, Enter, Park, Loop, Await, CancelStep

\* The invariant, for any tree and any roles, through any number of crashes.
THEOREM Invariance == CrashSpec => []IInv
<1>1. Init => IInv
  BY InitInv
<1>2. QED
  BY <1>1, NextInv, PTL DEF CrashSpec

\* The types the model declares for the rows, the goroutines and the cancels.
THEOREM TypeCorrect == CrashSpec => []TypeOK
<1>1. IInv => TypeOK
  BY DEF IInv
<1>2. QED
  BY <1>1, Invariance, PTL

\* A life that has ended was reported to its parent, and once, whoever raced to end
\* it, and one that goes on was not, unless it wrote over a cancel's verdict (the
\* status condition TerminateAndNotifyParent has in its transaction, sqlite.go).
THEOREM EndsAreToldOnce == CrashSpec => []ToldOnce
<1>1. IInv => ToldOnce
  BY DEF IInv
<1>2. QED
  BY <1>1, Invariance, PTL

-----------------------------------------------------------------------------
\* Without a process crash the goroutine of a session that works is there.

\* The root's goroutine is there when its run is created.
LEMMA InitLive == Init => LInv
  BY InitInv, SessionsAssumption DEF LInv, Init, LifeFits, Tree, Active, Terminal, None

\* Every step of a process keeps the invariant of lives: the checks a goroutine
\* makes before it works, and the order of CancelSession, verdict first and
\* interrupt last.  Step <1>2 is what the writes share that look at nothing: the
\* life goes on over a verdict as one that is crossed.
LEMMA NextLive == LInv /\ [Next]_vars => LInv'
<1> SUFFICES ASSUME LInv, [Next]_vars PROVE LInv'
  OBVIOUS
<1> DEFINE Keeps == \A x \in Tree : LifeFits(x)'
<1>1. IInv'
  BY NextInv DEF LInv, NextOrCrash
<1> USE SessionsAssumption, RolesAssumption
    DEF LInv, IInv, TypeOK, PlaceFits, StatusFits, LifeFits, Active, history, row, At, Goto,
        Tree, Actors, PCs, Statuses, Terminal, AwaitPlaces, Dormant, Ending
<1>2. ASSUME NEW s \in Tree, NEW to \in {"ongoing", "awaiting", "idle"}, WriteBlindly(s, to),
             pc[s] \in BlindPlaces, pc[s] = "rest" => s \in interactive,
             NEW next \in {"wake", "park", "snap", "results"}, pc' = [pc EXCEPT ![s] = next],
             to # "idle" => next \in {"snap", "results"}, UNCHANGED ctxDone
      PROVE  Keeps
  <2>1. /\ status' = [status EXCEPT ![s] = to]
        /\ crossed' = crossed \cup (IF status[s] \in Terminal THEN {s} ELSE {})
    BY <1>2 DEF WriteBlindly, UpdateSessionStatus
  <2>2. status[s] \in Terminal => s \in Reached
    BY <1>2 DEF BlindPlaces
  <2>3. QED
    BY <1>2, <2>1, <2>2
<1>3. ASSUME NEW s \in Tree, ResumeAtRest(s) PROVE Keeps
  <2>1. CASE s \in interactive
    <3>1. WriteBlindly(s, "idle") /\ pc[s] = "rest" /\ pc' = [pc EXCEPT ![s] = "wake"]
          /\ UNCHANGED ctxDone
      BY <1>3, <2>1 DEF ResumeAtRest
    <3>2. QED
      BY <1>2, <2>1, <3>1 DEF BlindPlaces
  <2>2. CASE s \notin interactive
    BY <1>3, <2>2 DEF ResumeAtRest
  <2>3. QED
    BY <2>1, <2>2
<1>4. ASSUME NEW s \in Tree, ParkIdle(s) PROVE Keeps
  <2>1. WriteBlindly(s, "idle") /\ pc[s] = "idle" /\ pc' = [pc EXCEPT ![s] = "park"]
        /\ UNCHANGED ctxDone
    BY <1>4 DEF ParkIdle
  <2>2. QED
    BY <1>2, <2>1 DEF BlindPlaces
<1>5. ASSUME NEW s \in Tree, AwaitMark(s) PROVE Keeps
  <2>1. WriteBlindly(s, "awaiting") /\ pc[s] = "mark" /\ pc' = [pc EXCEPT ![s] = "snap"]
        /\ UNCHANGED ctxDone
    BY <1>5 DEF AwaitMark
  <2>2. QED
    BY <1>2, <2>1 DEF BlindPlaces
<1>6. ASSUME NEW s \in Tree, AwaitRestore(s) PROVE Keeps
  <2>1. WriteBlindly(s, "ongoing") /\ pc[s] = "restore" /\ pc' = [pc EXCEPT ![s] = "results"]
        /\ UNCHANGED ctxDone
    BY <1>6 DEF AwaitRestore
  <2>2. QED
    BY <1>2, <2>1 DEF BlindPlaces
<1>7. ASSUME NEW s \in Tree, Bootstrap(s) PROVE Keeps
  BY <1>7 DEF Bootstrap, UpdateSessionStatus
<1>8. ASSUME NEW s \in Tree, Resume(s) PROVE Keeps
  BY <1>8 DEF Resume
<1>9. ASSUME NEW s \in Tree, CheckStatus(s) PROVE Keeps
  BY <1>9 DEF CheckStatus
<1>10. ASSUME NEW s \in Tree, Revive(s) PROVE Keeps
  BY <1>10 DEF Revive, UpdateSessionStatus
<1>11. ASSUME NEW s \in Tree, ParkSnapshot(s) PROVE Keeps
  BY <1>11 DEF ParkSnapshot
<1>12. ASSUME NEW s \in Tree, ParkCheck(s) PROVE Keeps
  BY <1>12 DEF ParkCheck
<1>13. ASSUME NEW s \in Tree, ParkWoken(s) PROVE Keeps
  BY <1>13 DEF ParkWoken
<1>14. ASSUME NEW s \in Tree, ParkTimeout(s) PROVE Keeps
  BY <1>14 DEF ParkTimeout
<1>15. ASSUME NEW s \in Tree, Top(s) PROVE Keeps
  BY <1>15 DEF Top
<1>16. ASSUME NEW s \in Tree, AnswerWithTools(s) PROVE Keeps
  BY <1>16 DEF AnswerWithTools, Answer
<1>17. ASSUME NEW s \in Tree, AnswerWithText(s) PROVE Keeps
  BY <1>17 DEF AnswerWithText, Answer
<1>18. ASSUME NEW s \in Tree, SpawnAgent(s) PROVE Keeps
  BY <1>18 DEF SpawnAgent, ChildrenOf, Exists, None
<1>19. ASSUME NEW s \in Tree, SpawnNothing(s) PROVE Keeps
  BY <1>19 DEF SpawnNothing
<1>20. ASSUME NEW s \in Tree, SendMessage(s) PROVE Keeps
  BY <1>20 DEF SendMessage, AppendEvent
<1>21. ASSUME NEW s \in Tree, FinishTools(s) PROVE Keeps
  BY <1>21 DEF FinishTools
<1>22. ASSUME NEW s \in Tree, CountArrivals(s) PROVE Keeps
  BY <1>22 DEF CountArrivals
<1>23. ASSUME NEW s \in Tree, Cascade(s) PROVE Keeps
  BY <1>23 DEF Cascade
<1>24. ASSUME NEW s \in Tree, Conclude(s) PROVE Keeps
  BY <1>24 DEF Conclude, TerminateAndNotifyParent, WriteVerdict
<1>25. ASSUME NEW s \in Tree, ProviderFails(s) PROVE Keeps
  BY <1>25 DEF ProviderFails, TerminateAndNotifyParent, WriteVerdict
<1>26. ASSUME NEW s \in Tree, AwaitFast(s) PROVE Keeps
  BY <1>26 DEF AwaitFast
<1>27. ASSUME NEW s \in Tree, AwaitSnapshot(s) PROVE Keeps
  BY <1>27 DEF AwaitSnapshot
<1>28. ASSUME NEW s \in Tree, AwaitCheck(s) PROVE Keeps
  BY <1>28 DEF AwaitCheck
<1>29. ASSUME NEW s \in Tree, AwaitWoken(s) PROVE Keeps
  BY <1>29 DEF AwaitWoken
<1>30. ASSUME NEW s \in Tree, AwaitTimeout(s) PROVE Keeps
  BY <1>30 DEF AwaitTimeout
<1>31. ASSUME NEW s \in Tree, AwaitReadStatus(s) PROVE Keeps
  BY <1>31 DEF AwaitReadStatus
<1>32. ASSUME NEW s \in Tree, ContextDone(s) PROVE Keeps
  BY <1>32 DEF ContextDone, ContextPlaces
<1>33. ASSUME NEW s \in Tree, Exit(s) PROVE Keeps
  BY <1>33 DEF Exit
<1>34. ASSUME NEW s \in Tree, StartCancel(s) PROVE Keeps
  BY <1>34 DEF StartCancel
<1>35. ASSUME NEW s \in Tree, Recover(s) PROVE Keeps
  BY <1>35 DEF Recover, AppendEvent
<1>36. ASSUME NEW s \in Tree, NEW class \in {"input", "env"}, Post(s, class) PROVE Keeps
  BY <1>36 DEF Post
<1>37. ASSUME NEW t \in Actors, Notify(t) PROVE Keeps
  BY <1>37 DEF Notify, Calls
<1>38. ASSUME NEW t \in Actors, CancelRead(t) \/ CancelList(t) \/ CancelChild(t) \/ CancelledChildren(t)
      PROVE  Keeps
  BY <1>38 DEF CancelRead, CancelList, CancelChild, CancelledChildren
<1>39. ASSUME NEW t \in Actors, CancelTerminate(t) PROVE Keeps
  BY <1>39 DEF CancelTerminate, TerminateAndNotifyParent, WriteVerdict
<1>40. ASSUME NEW t \in Actors, CancelInterrupt(t) PROVE Keeps
  <2>1. Frame(t) \in Fitting /\ Frame(t).at = "interrupt"
    BY <1>40, InnermostFits DEF CancelInterrupt, InCall
  <2>2. Frame(t).of \in Reached /\ Frame(t).of \in Tree /\ Frame(t).ended
    BY <2>1 DEF Fitting, Frames
  <2>3. /\ ctxDone' = [ctxDone EXCEPT ![Frame(t).of] = pc[Frame(t).of] # "down"]
        /\ crossed' = IF pc[Frame(t).of] # "down" /\ status[Frame(t).of] \notin Terminal
                       THEN crossed \cup {Frame(t).of} ELSE crossed
        /\ UNCHANGED <<status, pc>>
    BY <1>40, <2>2 DEF CancelInterrupt
  <2>4. QED
    BY <2>2, <2>3
<1>41. ASSUME UNCHANGED vars PROVE Keeps
  <2>1. UNCHANGED <<status, pc, ctxDone, crossed>>
    BY <1>41 DEF vars
  <2>2. QED
    BY <2>1
<1> HIDE DEF LInv, Keeps
<1>42. ASSUME NEW s \in Tree, Goroutine(s) PROVE Keeps
  <2>1. CASE Enter(s)
    BY <1>3, <1>7, <1>8, <1>9, <1>10, <2>1 DEF Enter
  <2>2. CASE Park(s)
    BY <1>11, <1>12, <1>13, <2>2 DEF Park
  <2>3. CASE Loop(s)
    BY <1>4, <1>15, <1>16, <1>17, <1>18, <1>19, <1>20, <1>21, <1>22, <1>23, <1>24, <2>3 DEF Loop
  <2>4. CASE Await(s)
    BY <1>5, <1>6, <1>26, <1>27, <1>28, <1>29, <1>31, <2>4 DEF Await
  <2>5. QED
    BY <1>32, <1>33, <1>42, <2>1, <2>2, <2>3, <2>4 DEF Goroutine
<1>44. Keeps
  BY <1>14, <1>25, <1>30, <1>34, <1>35, <1>36, <1>37, <1>38, <1>39, <1>40, <1>41, <1>42
     DEF Next, CancelStep
<1>43. QED
  BY <1>1, <1>44 DEF LInv, Keeps

\* The invariant of lives, without a process crash.
THEOREM LifeInvariance == Spec => []LInv
<1>1. Init => LInv
  BY InitLive
<1>2. QED
  BY <1>1, NextLive, PTL DEF Spec

\* A session that is ongoing or awaiting has its goroutine at work, unless a cancel
\* reached it and was overtaken: every other way out of the event loop writes idle
\* or a verdict first, or finds one.
THEOREM WorkersAreLive == Spec => []NoStranding
<1>1. LInv => NoStranding
  BY DEF LInv, LifeFits, NoStranding, Live, Active, Dormant
<1>2. QED
  BY <1>1, LifeInvariance, PTL

-----------------------------------------------------------------------------
\* The restart matrix.

\* What a step may do to one row.
RowStep(s) ==
  status[s] \in Terminal \cup {"idle"} /\ status'[s] # status[s]
    => \/ (status'[s] = "ongoing" /\ "input" \in fresh[s])
       \/ (status[s] = "idle" /\ status'[s] \in Terminal)
       \/ (status[s] = "cancelled" /\ pc[s] \in BlindPlaces
             /\ s \in Reached \cap (interactive \cup Awaiters))

\* No step does anything else to a row: each caller of UpdateSessionStatus, which
\* looks at nothing, and TerminateAndNotifyParent.
LEMMA RowsStep == IInv /\ [NextOrCrash]_vars => \A s \in Tree : RowStep(s)
<1> SUFFICES ASSUME IInv, [NextOrCrash]_vars, NEW x \in Tree PROVE RowStep(x)
  OBVIOUS
<1> USE SessionsAssumption, RolesAssumption
    DEF RowStep, Tree, Terminal
<1>1. /\ status \in [Tree -> Statuses \cup {None}] /\ interactive \subseteq Interactive
  BY DEF IInv, TypeOK
<1>2. PlaceFits(x) /\ StatusFits(x)
  BY DEF IInv
<1>3. CASE UNCHANGED status
  BY <1>3
<1>4. ASSUME NEW s \in Tree, NEW to \in {"ongoing", "awaiting", "idle"}, UpdateSessionStatus(s, to),
             s = x => status[s] \notin Terminal \cup {"idle"} \/ status[s] = to
                      \/ (to = "ongoing" /\ "input" \in fresh[s])
                      \/ (status[s] = "cancelled" /\ pc[s] \in BlindPlaces
                            /\ s \in Reached \cap (interactive \cup Awaiters))
      PROVE  RowStep(x)
  BY <1>1, <1>4 DEF UpdateSessionStatus
<1>5. ASSUME NEW s \in Tree, NEW v \in Terminal, NEW t \in Actors, TerminateAndNotifyParent(t, s, v)
      PROVE  RowStep(x)
  BY <1>1, <1>5 DEF TerminateAndNotifyParent, WriteVerdict, row
<1>6. ASSUME NEW s \in Tree, Bootstrap(s) PROVE RowStep(x)
  BY <1>1, <1>6 DEF Bootstrap, UpdateSessionStatus, Exists, None
<1>7. ASSUME NEW s \in Tree, ResumeAtRest(s) PROVE RowStep(x)
  BY <1>1, <1>2, <1>7 DEF ResumeAtRest, WriteBlindly, UpdateSessionStatus, At, PlaceFits,
     StatusFits, BlindPlaces
<1>8. ASSUME NEW s \in Tree, Revive(s) PROVE RowStep(x)
  BY <1>1, <1>2, <1>8 DEF Revive, UpdateSessionStatus, At, PlaceFits
<1>9. ASSUME NEW s \in Tree, ParkIdle(s) PROVE RowStep(x)
  BY <1>1, <1>2, <1>9 DEF ParkIdle, WriteBlindly, UpdateSessionStatus, At, PlaceFits, StatusFits,
     BlindPlaces, AwaitPlaces, Dormant, Ending
<1>10. ASSUME NEW s \in Tree, AwaitMark(s) PROVE RowStep(x)
  BY <1>1, <1>2, <1>10 DEF AwaitMark, WriteBlindly, UpdateSessionStatus, At, PlaceFits, StatusFits,
     BlindPlaces, AwaitPlaces, Dormant, Ending
<1>11. ASSUME NEW s \in Tree, AwaitRestore(s) PROVE RowStep(x)
  BY <1>1, <1>2, <1>11 DEF AwaitRestore, WriteBlindly, UpdateSessionStatus, At, PlaceFits, StatusFits,
     BlindPlaces, AwaitPlaces, Dormant, Ending
<1>12. ASSUME NEW s \in Tree, Conclude(s) \/ ProviderFails(s) PROVE RowStep(x)
  BY <1>5, <1>12 DEF Conclude, ProviderFails, Actors
<1>13. ASSUME NEW t \in Actors, CancelTerminate(t) PROVE RowStep(x)
  <2>1. FramesFit /\ stack[t] # <<>>
    BY <1>13 DEF IInv, CancelTerminate, InCall
  <2>2. Frame(t).of \in Tree
    BY <2>1, InnermostFits DEF Fitting, Frames
  <2>3. QED
    BY <1>5, <1>13, <2>2 DEF CancelTerminate
<1> HIDE DEF RowStep
<1>14. ASSUME NEW s \in Tree,
              \/ Resume(s) \/ CheckStatus(s) \/ Park(s) \/ ParkTimeout(s) \/ AwaitTimeout(s)
              \/ Top(s) \/ AnswerWithTools(s) \/ AnswerWithText(s) \/ SpawnAgent(s)
              \/ SpawnNothing(s) \/ SendMessage(s) \/ FinishTools(s) \/ CountArrivals(s)
              \/ Cascade(s) \/ AwaitFast(s) \/ AwaitSnapshot(s) \/ AwaitCheck(s)
              \/ AwaitWoken(s) \/ AwaitReadStatus(s) \/ ContextDone(s) \/ Exit(s)
              \/ StartCancel(s) \/ Recover(s) \/ Post(s, "input") \/ Post(s, "env")
       PROVE  UNCHANGED status
  BY <1>14 DEF Resume, CheckStatus, Park, ParkSnapshot, ParkCheck, ParkWoken, ParkTimeout,
     AwaitTimeout, Top, AnswerWithTools, AnswerWithText, Answer, SpawnAgent, SpawnNothing,
     SendMessage, FinishTools, CountArrivals, Cascade, AwaitFast, AwaitSnapshot, AwaitCheck,
     AwaitWoken, AwaitReadStatus, ContextDone, Exit, StartCancel, Recover, Post, row
<1>15. ASSUME NEW t \in Actors,
              \/ Notify(t) \/ CancelRead(t) \/ CancelList(t) \/ CancelChild(t)
              \/ CancelledChildren(t) \/ CancelInterrupt(t)
       PROVE  UNCHANGED status
  BY <1>15 DEF Notify, CancelRead, CancelList, CancelChild, CancelledChildren,
     CancelInterrupt, row
<1>16. CASE Crash \/ UNCHANGED vars
  BY <1>3, <1>16 DEF Crash, vars, row
<1>17. QED
  BY <1>3, <1>6, <1>7, <1>8, <1>9, <1>10, <1>11, <1>12, <1>13, <1>14, <1>15, <1>16
     DEF NextOrCrash, Next, Goroutine, Enter, Loop, Await, CancelStep

\* A session leaves idle or a terminal status by an Input it has not read, for
\* ongoing, or by an end it had not come to; only a cancel's verdict is written
\* over, at four places, in sessions that park idle or await (bootstrap.go,
\* eventloop.go, coordination.go).
THEOREM RestartMatrix == CrashSpec => StatusMatrix
<1>1. IInv /\ [NextOrCrash]_vars
        => [\A s \in Tree :
              status[s] \in Terminal \cup {"idle"} /\ status'[s] # status[s]
                => \/ (status'[s] = "ongoing" /\ "input" \in fresh[s])
                   \/ (status[s] = "idle" /\ status'[s] \in Terminal)
                   \/ (status[s] = "cancelled" /\ pc[s] \in BlindPlaces
                         /\ s \in Reached \cap (interactive \cup Awaiters))]_vars
  BY RowsStep DEF RowStep
<1>2. QED
  BY <1>1, Invariance, PTL DEF CrashSpec, StatusMatrix
=============================================================================

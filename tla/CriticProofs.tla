----------------------------- MODULE CriticProofs ----------------------------
(***************************************************************************)
(* Proofs about the critic, for any sessions, lessons, grades, thresholds  *)
(* and numbers of steps, through any number of crashes.  The invariant     *)
(* says what the per-run mutex is for: as long as a job holds it the last  *)
(* report stays the last one, so what the gate has found out about it is   *)
(* still true when the next one is written; and that only the lesson being *)
(* scored, or one that a crashed job was scoring, has a score and no       *)
(* sentinel.                                                               *)
(***************************************************************************)
EXTENDS Critic, SequenceTheorems, WellFoundedInduction, TLAPS

Places == {"free", "check", "snapshot", "gather", "write", "grade", "mine",
           "mined", "attribute", "score", "sentinel"}
Jobs == [at : Places, kind : {"none", "auto", "operator"}, draft : Reports,
         said : [Lessons -> Verdicts], todo : SUBSET Lessons, now : SUBSET Lessons]

\* After the checks of its gate, and until its report is written.
Drafting == {"gather", "write"}

\* From the report's row on.
Told == {"grade", "mine", "mined", "attribute", "score", "sentinel"}

\* Enough happened since the last report for the steps given.
FarEnough(steps) ==
  reports # <<>> => \E s \in Sessions : steps[s] - Watermark[s] >= MinSteps

\* The report in the making is a step on from the last one, which stays the last
\* one as long as the job holds the mutex.
DraftGoesOn ==
  /\ \A s \in Sessions : Watermark[s] <= current[s] /\ job.draft.steps[s] <= current[s]
  /\ At("snapshot") => FarEnough(current)
  /\ job.at \in Drafting =>
       /\ FarEnough(job.draft.steps)
       /\ \A s \in Sessions : Watermark[s] <= job.draft.steps[s]
  /\ At("write") => \A p \in job.draft.phases : p[2] > Watermark[p[1]]

\* The job's report is the last one until the mutex is free again.
DraftIsTold == job.at \in Told => reports # <<>> /\ job.draft = LatestReport

GradeIsCached ==
  crashes = 0 /\ ~At("grade") => runGrade = LatestReport.grade

\* A lesson that has no sentinel, and is not about to get one, was scored by
\* crashed jobs only.
ScoresAreOwed ==
  /\ job.todo \cap (attributed \cup job.now) = {}
  /\ job.now # {} => At("sentinel")
  /\ \A l \in Lessons :
       scored[l] <= IF l \in attributed \cup job.now THEN 1 + crashes ELSE crashes

\* The inductive invariant.
IInv ==
  /\ TypeOK /\ job \in Jobs
  /\ ReportsSpaced
  /\ DraftGoesOn
  /\ DraftIsTold
  /\ GradeIsCached
  /\ ScoresAreOwed

-----------------------------------------------------------------------------
\* Lemmas about the reports and the phases.

\* A run without a report has one all the same: the one about nothing.
LEMMA LatestTyped ==
  ASSUME TypeOK
  PROVE  /\ NoReport \in Reports /\ LatestReport \in Reports
         /\ Watermark \in [Sessions -> Steps]
         /\ reports # <<>> => Len(reports) \in 1..Len(reports)
<1>1. NoReport \in Reports
  BY CriticAssumption DEF NoReport, Reports, Floor0, Steps
<1>2. Len(reports) \in Nat /\ (reports # <<>> => Len(reports) \in 1..Len(reports))
  BY EmptySeq, LenProperties DEF TypeOK
<1>3. LatestReport \in Reports
  BY <1>1, <1>2, ElementOfSeq DEF LatestReport, TypeOK
<1>4. QED
  BY <1>1, <1>2, <1>3 DEF Watermark, Reports

\* The cursor of the phases is the end of one of them, or the start.
LEMMA CursorTyped ==
  ASSUME TypeOK, NEW s \in Sessions
  PROVE  PhasedTo(s) \in Nat
<1> DEFINE ends == {p.to : p \in {q \in phases : q.of = s}}
           back == {MaxStep - e : e \in ends}
<1>1. MaxStep \in Nat /\ ends \subseteq 1..MaxStep
  BY CriticAssumption DEF TypeOK, PhaseRows
<1>2. CASE ends = {}
  BY <1>2 DEF PhasedTo
<1>3. CASE ends # {}
  <2>1. back \subseteq Nat /\ back # {}
    BY <1>1, <1>3
  <2>2. PICK x \in back : \A y \in back : ~(<<y, x>> \in OpToRel(<, Nat))
    <3> HIDE DEF back
    <3> QED
      BY <2>1, NatLessThanWellFounded, WFMin
  <2>3. \A y \in back : ~(y < x)
    BY <2>1, <2>2 DEF OpToRel
  <2>4. PICK e \in ends : x = MaxStep - e
    BY <2>2
  <2>5. \A f \in ends : f <= e
    BY <1>1, <2>3, <2>4
  <2>6. PhasedTo(s) = CHOOSE m \in ends : \A f \in ends : f <= m
    BY <1>3 DEF PhasedTo
  <2>7. PhasedTo(s) \in ends
    BY <2>5, <2>6
  <2>8. QED
    BY <1>1, <2>7
<1>4. QED
  BY <1>2, <1>3

-----------------------------------------------------------------------------
\* Every step keeps the invariant.

\* A run that has just begun.
LEMMA InitInv == Init => IInv
<1> SUFFICES ASSUME Init PROVE IInv
  OBVIOUS
<1> USE CriticAssumption DEF Init
<1>1. TypeOK
  <2>1. reports \in Seq(Reports) /\ mined \subseteq 1..Len(reports) /\ 0 \in Steps
    BY EmptySeq DEF Steps
  <2>2. current \in [Sessions -> Steps] /\ scored \in [Lessons -> Nat]
    BY <2>1
  <2>3. job.at = "free" /\ crashes \in 0..MaxCrashes
    BY DEF NoJob
  <2>4. concluded \in BOOLEAN /\ due \in BOOLEAN
    BY Zenon
  <2>5. phases \subseteq PhaseRows /\ corpus \subseteq Lessons /\ attributed \subseteq Lessons
        /\ asked \subseteq {"auto", "operator"}
    OBVIOUS
  <2>6. runGrade \in 0..5
    OBVIOUS
  <2>7. QED
    BY <2>1, <2>2, <2>3, <2>4, <2>5, <2>6 DEF TypeOK
<1>2. job \in Jobs
  BY <1>1, LatestTyped DEF NoJob, Jobs, Places, Verdicts
<1>3. ReportsSpaced
  BY DEF ReportsSpaced, Versions
<1>4. DraftGoesOn
  BY DEF DraftGoesOn, Watermark, LatestReport, NoReport, Floor0, NoJob, At, Drafting
<1>5. DraftIsTold /\ GradeIsCached /\ ScoresAreOwed
  BY DEF DraftIsTold, GradeIsCached, ScoresAreOwed, NoJob, At, Told, LatestReport, NoReport
<1>6. QED
  BY <1>1, <1>2, <1>3, <1>4, <1>5 DEF IInv

\* What goes on while the mutex is held: the sessions only go forward.
LEMMA EnvironmentInv ==
  ASSUME IInv,
         UNCHANGED <<rows, job, crashes, scored>>,
         current' \in [Sessions -> Steps],
         \A s \in Sessions : current[s] <= current'[s],
         phases' \subseteq PhaseRows,
         concluded' \in BOOLEAN, due' \in BOOLEAN, corpus' \subseteq Lessons,
         asked' \subseteq {"auto", "operator"}
  PROVE  IInv'
<1>1. TypeOK' /\ job' \in Jobs'
  BY DEF IInv, TypeOK, rows, Jobs
<1>2. ReportsSpaced' /\ DraftIsTold' /\ GradeIsCached' /\ ScoresAreOwed'
  BY DEF IInv, rows, ReportsSpaced, Versions, DraftIsTold, GradeIsCached, ScoresAreOwed,
         LatestReport, At
<1>3. Watermark' = Watermark /\ Watermark \in [Sessions -> Steps]
  BY LatestTyped DEF IInv, rows, Watermark, LatestReport
<1>4. job.draft.steps \in [Sessions -> Steps] /\ current \in [Sessions -> Steps]
  BY DEF IInv, TypeOK, Jobs, Reports
<1>5. At("snapshot") => FarEnough(current)'
  <2> SUFFICES ASSUME At("snapshot"), reports # <<>>
               PROVE  \E s \in Sessions : current'[s] - Watermark[s] >= MinSteps
    BY <1>3 DEF FarEnough, rows
  <2>1. PICK s \in Sessions : current[s] - Watermark[s] >= MinSteps
    BY DEF IInv, DraftGoesOn, FarEnough
  <2>2. current[s] \in Nat /\ current'[s] \in Nat /\ Watermark[s] \in Nat /\ MinSteps \in Nat
    BY <1>3, <1>4, CriticAssumption DEF Steps
  <2>3. QED
    BY <2>1, <2>2
<1>6. \A s \in Sessions : Watermark[s] <= current'[s] /\ job.draft.steps[s] <= current'[s]
  BY <1>3, <1>4 DEF IInv, DraftGoesOn, Steps
<1>7. DraftGoesOn'
  BY <1>3, <1>5, <1>6 DEF IInv, DraftGoesOn, FarEnough, rows, At
<1>8. QED
  BY <1>1, <1>2, <1>7 DEF IInv

\* The sessions, the observer and the operator.
LEMMA OthersInv ==
  ASSUME IInv,
         \/ \E s \in Sessions : Advance(s) \/ ClosePhase(s)
         \/ Conclude \/ Revive \/ Hook \/ AskForReport \/ DeleteLesson
  PROVE  IInv'
<1>1. current \in [Sessions -> Steps] /\ Steps \subseteq Int /\ phases \subseteq PhaseRows
      /\ concluded \in BOOLEAN /\ due \in BOOLEAN /\ corpus \subseteq Lessons
      /\ asked \subseteq {"auto", "operator"}
      /\ \A s \in Sessions : current[s] \in Steps
  BY DEF IInv, TypeOK, Steps
<1> DEFINE Forward == \A s \in Sessions : current[s] <= current'[s]
<1>0. UNCHANGED current => Forward
  <2> SUFFICES ASSUME UNCHANGED current, NEW x \in Sessions PROVE current[x] <= current'[x]
    OBVIOUS
  <2>1. current[x] \in Int /\ current'[x] = current[x]
    BY <1>1
  <2>2. QED
    BY <2>1
<1>2. ASSUME NEW s \in Sessions, Advance(s) PROVE IInv'
  <2>1. current' \in [Sessions -> Steps]
    BY <1>1, <1>2, CriticAssumption DEF Advance, Steps
  <2>2. Forward
    <3> SUFFICES ASSUME NEW x \in Sessions PROVE current[x] <= current'[x]
      OBVIOUS
    <3>1. current[x] \in Int /\ (x = s => current'[x] = current[x] + 1)
          /\ (x # s => current'[x] = current[x])
      BY <1>1, <1>2 DEF Advance
    <3>2. QED
      BY <3>1
  <2>3. QED
    BY <1>1, <1>2, <2>1, <2>2, EnvironmentInv DEF Advance
<1>3. ASSUME NEW s \in Sessions, ClosePhase(s) PROVE IInv'
  <2>1. PICK e \in Steps, said \in [Lessons -> Judgements] :
          /\ PhasedTo(s) < e /\ e < current[s]
          /\ phases' = phases \cup {[of |-> s, to |-> e, said |-> said]}
    BY <1>3 DEF ClosePhase
  <2>2. PhasedTo(s) \in Nat
    BY CursorTyped DEF IInv
  <2>3. e \in 1..MaxStep
    BY <2>1, <2>2, CriticAssumption DEF Steps
  <2>0. Judgements \subseteq Verdicts
    BY CriticAssumption DEF Verdicts
  <2>8. said \in [Lessons -> Verdicts]
    BY <2>0
  <2>4. phases' \subseteq PhaseRows
    BY <1>1, <2>1, <2>3, <2>8 DEF PhaseRows
  <2>5. QED
    BY <1>0, <1>1, <1>3, <2>4, EnvironmentInv DEF ClosePhase
<1>4. CASE Conclude
  BY <1>0, <1>1, <1>4, EnvironmentInv DEF Conclude
<1>5. CASE Revive
  BY <1>0, <1>1, <1>5, EnvironmentInv DEF Revive
<1>6. CASE Hook
  BY <1>0, <1>1, <1>6, EnvironmentInv DEF Hook
<1>7. CASE AskForReport
  BY <1>0, <1>1, <1>7, EnvironmentInv DEF AskForReport, environment
<1>8. CASE DeleteLesson
  BY <1>0, <1>1, <1>8, EnvironmentInv DEF DeleteLesson, environment
<1>9. QED
  BY <1>2, <1>3, <1>4, <1>5, <1>6, <1>7, <1>8

\* The mutex is released: what is left is the last report and the scores.
LEMMA UnlockInv ==
  ASSUME IInv, UNCHANGED <<environment, rows, corpus, crashes, scored>>,
         asked' \subseteq {"auto", "operator"},
         job' \in Jobs,
         job'.at \in {"free", "check"}, job'.draft = NoReport, job'.todo = {}, job'.now = {},
         ~At("grade"), job.now = {}
  PROVE  IInv'
<1>1. TypeOK' /\ job' \in Jobs'
  BY DEF IInv, TypeOK, rows, environment, Places, Jobs
<1>2. ReportsSpaced'
  BY DEF IInv, rows, ReportsSpaced, Versions
<1>3. DraftGoesOn'
  <2>1. Watermark' = Watermark /\ current' = current
    BY DEF rows, environment, Watermark, LatestReport
  <2>2. \A s \in Sessions : job'.draft.steps[s] = 0 /\ current[s] \in Nat
    BY DEF NoReport, Floor0, IInv, TypeOK, Steps
  <2>3. QED
    BY <2>1, <2>2 DEF IInv, DraftGoesOn, At, Drafting
<1>4. DraftIsTold' /\ GradeIsCached'
  BY DEF IInv, rows, DraftIsTold, GradeIsCached, LatestReport, At, Told
<1>5. ScoresAreOwed'
  BY DEF IInv, rows, ScoresAreOwed
<1>6. QED
  BY <1>1, <1>2, <1>3, <1>4, <1>5 DEF IInv

\* The requests get the mutex, the gate, and the report in the making.
LEMMA DraftInv ==
  ASSUME IInv, Lock \/ Check \/ Snapshot \/ GatherAndGrade
  PROVE  IInv'
<1>1. /\ current \in [Sessions -> Steps] /\ Watermark \in [Sessions -> Steps]
      /\ NoReport \in Reports /\ job \in Jobs /\ asked \subseteq {"auto", "operator"}
      /\ TypeOK /\ MinSteps \in Nat
  BY LatestTyped, CriticAssumption DEF IInv, TypeOK
<1>2. UNCHANGED <<environment, rows, crashes, scored, corpus>>
  BY DEF Lock, Check, Snapshot, GatherAndGrade
<1>3. Watermark' = Watermark /\ current' = current /\ reports' = reports
      /\ LatestReport' = LatestReport
  BY <1>2 DEF rows, environment, Watermark, LatestReport
<1>4. ~At("grade") /\ ~At("sentinel") /\ job.now = {}
  BY DEF Lock, Check, Snapshot, GatherAndGrade, At, IInv, ScoresAreOwed
<1>5. NoJob \in Jobs
  BY <1>1 DEF NoJob, Jobs, Places, Verdicts
<1>6. CASE Lock
  <2>1. PICK kind \in asked : /\ asked' = asked \ {kind}
                              /\ job' = [NoJob EXCEPT !.at = "check", !.kind = kind]
    BY <1>6 DEF Lock
  <2>2. job' \in Jobs /\ job'.at = "check"
    BY <1>1, <1>5, <2>1 DEF Jobs, Places
  <2>3. job'.draft = NoReport /\ job'.todo = {} /\ job'.now = {}
    BY <2>1 DEF NoJob
  <2>4. asked' \subseteq {"auto", "operator"}
    BY <1>1, <2>1
  <2>5. QED
    BY <1>2, <1>4, <2>2, <2>3, <2>4, UnlockInv
<1>7. CASE Check /\ ~Due
  <2>1. job' = NoJob /\ asked' = asked
    BY <1>7 DEF Check, Unlock
  <2>2. job'.at = "free" /\ job'.draft = NoReport /\ job'.todo = {} /\ job'.now = {}
    BY <2>1 DEF NoJob
  <2>3. QED
    BY <1>1, <1>2, <1>4, <1>5, <2>1, <2>2, UnlockInv
<1>8. ASSUME asked' = asked, job' \in Jobs,
             job'.at \in {"snapshot", "gather", "write"}, job'.todo = job.todo, job'.now = job.now,
             DraftGoesOn'
      PROVE  IInv'
  <2>1. TypeOK' /\ job' \in Jobs'
    BY <1>2, <1>8 DEF IInv, TypeOK, rows, environment, Jobs, Places
  <2>2. ReportsSpaced'
    BY <1>3 DEF IInv, ReportsSpaced, Versions
  <2>3. DraftIsTold' /\ GradeIsCached'
    BY <1>2, <1>3, <1>4, <1>8 DEF IInv, rows, DraftIsTold, GradeIsCached, At, Told
  <2>4. ScoresAreOwed'
    BY <1>2, <1>4, <1>8 DEF IInv, rows, ScoresAreOwed, At
  <2>5. QED
    BY <1>8, <2>1, <2>2, <2>3, <2>4 DEF IInv
<1>9. CASE Check /\ Due
  <2>1. job' = [job EXCEPT !.at = "snapshot"] /\ asked' = asked
    BY <1>9 DEF Check, Goto
  <2>2. job' \in Jobs /\ job'.at = "snapshot" /\ job'.draft = job.draft
        /\ job'.todo = job.todo /\ job'.now = job.now
    BY <1>1, <2>1 DEF Jobs, Places
  <2>3. FarEnough(current)
    BY <1>9, CriticAssumption
       DEF Due, AutoDue, OperatorDue, advancedByAtLeast, FarEnough, Sessions
  <2>4. DraftGoesOn'
    BY <1>3, <2>2, <2>3 DEF IInv, DraftGoesOn, FarEnough, At, Drafting
  <2>5. QED
    BY <1>8, <2>1, <2>2, <2>4
<1>10. CASE Snapshot
  <2>1. job' = [job EXCEPT !.at = "gather", !.draft.steps = current] /\ asked' = asked
        /\ At("snapshot")
    BY <1>10 DEF Snapshot
  <2>2. job.draft \in Reports
    BY <1>1 DEF Jobs
  <2>3. job' = [job EXCEPT !.at = "gather", !.draft = [job.draft EXCEPT !.steps = current]]
    BY <1>1, <2>1 DEF Jobs
  <2>4. [job.draft EXCEPT !.steps = current] \in Reports
    BY <1>1, <2>2 DEF Reports
  <2>5. job' \in Jobs /\ job'.at = "gather" /\ job'.todo = job.todo /\ job'.now = job.now
    BY <1>1, <2>3, <2>4 DEF Jobs, Places
  <2>6. job'.draft.steps = current
    BY <1>1, <2>2, <2>3 DEF Jobs, Reports
  <2>7. \A s \in Sessions : current[s] <= current[s]
    BY <1>1 DEF Steps
  <2>8. DraftGoesOn'
    BY <1>3, <2>1, <2>5, <2>6, <2>7 DEF IInv, DraftGoesOn, FarEnough, At, Drafting
  <2>9. QED
    BY <1>8, <2>1, <2>5, <2>8
<1>11. CASE GatherAndGrade
  <2>1. PICK g \in Grades :
          job' = [job EXCEPT !.at = "write", !.draft.grade = g,
                             !.draft.phases = PhasesPast(Watermark)]
    BY <1>11 DEF GatherAndGrade
  <2>2. At("gather") /\ asked' = asked
    BY <1>11 DEF GatherAndGrade
  <2> DEFINE told == [job.draft EXCEPT !.grade = g, !.phases = PhasesPast(Watermark)]
  <2>3. job.draft \in Reports /\ g \in 0..5
    BY <1>1, CriticAssumption DEF Jobs
  <2>4. job' = [job EXCEPT !.at = "write", !.draft = told]
    BY <1>1, <2>1, <2>3 DEF Jobs, Reports
  <2>5. /\ PhasesPast(Watermark) \in SUBSET (Sessions \X (1..MaxStep))
        /\ \A p \in PhasesPast(Watermark) : p[2] > Watermark[p[1]]
    BY <1>1 DEF PhasesPast, TypeOK, PhaseRows
  <2>6. told \in Reports /\ told.steps = job.draft.steps /\ told.phases = PhasesPast(Watermark)
    BY <2>3, <2>5 DEF Reports
  <2>7. /\ job' \in Jobs /\ job'.at = "write" /\ job'.todo = job.todo /\ job'.now = job.now
        /\ job'.draft = told
    BY <1>1, <2>4, <2>6 DEF Jobs, Places
  <2>8. DraftGoesOn'
    BY <1>3, <2>2, <2>5, <2>6, <2>7 DEF IInv, DraftGoesOn, FarEnough, At, Drafting
  <2>9. QED
    BY <1>8, <2>2, <2>7, <2>8
<1>12. QED
  BY <1>6, <1>7, <1>9, <1>10, <1>11 DEF Check

\* The report is written: the row, then the grade that is kept with the run.
LEMMA WriteInv ==
  ASSUME IInv, WriteReport \/ SetRunReportGrade
  PROVE  IInv'
<1>1. /\ current \in [Sessions -> Steps] /\ Watermark \in [Sessions -> Steps]
      /\ job \in Jobs /\ job.draft \in Reports /\ reports \in Seq(Reports)
      /\ TypeOK /\ (reports # <<>> => Len(reports) \in 1..Len(reports))
  BY LatestTyped DEF IInv, TypeOK, Jobs
<1>2. CASE WriteReport
  <2>1. /\ At("write") /\ reports' = Append(reports, job.draft)
        /\ job' = [job EXCEPT !.at = "grade"]
        /\ UNCHANGED <<environment, runGrade, mined, attributed, corpus, asked, crashes, scored>>
    BY <1>2 DEF WriteReport, Goto
  <2>2. /\ reports' \in Seq(Reports) /\ reports' # <<>>
        /\ Len(reports') = Len(reports) + 1 /\ Len(reports) \in Nat
        /\ reports'[Len(reports) + 1] = job.draft
        /\ \A i \in 1..Len(reports) : reports'[i] = reports[i]
    BY <1>1, <2>1, AppendProperties, LenProperties
  <2>3. LatestReport' = job.draft /\ Watermark' = job.draft.steps
    BY <2>2 DEF LatestReport, Watermark
  <2>4. /\ job' \in Jobs /\ job'.at = "grade" /\ job'.draft = job.draft
        /\ job'.todo = job.todo /\ job'.now = job.now
    BY <1>1, <2>1 DEF Jobs, Places
  <2>5. TypeOK' /\ job' \in Jobs'
    <3>1. mined' \subseteq 1..Len(reports')
      BY <1>1, <2>1, <2>2 DEF TypeOK
    <3>2. QED
      BY <1>1, <2>1, <2>2, <2>4, <3>1 DEF TypeOK, environment, Jobs, Places
  <2>6. ReportsSpaced'
    <3> SUFFICES ASSUME NEW v \in 2..Len(reports')
                 PROVE  LET old == reports'[v - 1]
                            new == reports'[v]
                        IN /\ \E s \in Sessions : new.steps[s] - old.steps[s] >= MinSteps
                           /\ \A s \in Sessions : new.steps[s] >= old.steps[s]
                           /\ \A p \in old.phases \cap new.phases : p[2] > old.steps[p[1]]
      BY <2>2 DEF ReportsSpaced, Versions
    <3>1. CASE v <= Len(reports)
      <4>1. v \in Versions \ {1} /\ reports'[v - 1] = reports[v - 1] /\ reports'[v] = reports[v]
        BY <2>2, <3>1 DEF Versions
      <4>2. QED
        BY <4>1 DEF IInv, ReportsSpaced
    <3>2. CASE v = Len(reports) + 1
      <4>1. reports # <<>> /\ reports'[v - 1] = LatestReport /\ reports'[v] = job.draft
        <5>1. Len(reports) # 0 /\ v - 1 \in 1..Len(reports)
          BY <2>2, <3>2
        <5>2. reports # <<>>
          BY <5>1, EmptySeq
        <5>3. QED
          BY <2>2, <3>2, <5>1, <5>2 DEF LatestReport
      <4>2. /\ \E s \in Sessions : job.draft.steps[s] - Watermark[s] >= MinSteps
            /\ \A s \in Sessions : Watermark[s] <= job.draft.steps[s]
            /\ \A p \in job.draft.phases : p[2] > Watermark[p[1]]
        BY <2>1, <4>1 DEF IInv, DraftGoesOn, FarEnough, At, Drafting
      <4>3. job.draft.steps \in [Sessions -> Nat] /\ Watermark \in [Sessions -> Nat]
        BY <1>1 DEF Reports, Steps
      <4>4. QED
        BY <4>1, <4>2, <4>3 DEF Watermark
    <3>3. QED
      BY <2>2, <3>1, <3>2
  <2>7. DraftGoesOn'
    BY <2>1, <2>3, <2>4 DEF IInv, DraftGoesOn, At, Drafting, environment
  <2>8. DraftIsTold' /\ GradeIsCached'
    BY <2>2, <2>3, <2>4 DEF DraftIsTold, GradeIsCached, At, Told
  <2>9. ScoresAreOwed'
    BY <2>1, <2>4 DEF IInv, ScoresAreOwed, At
  <2>10. QED
    BY <2>5, <2>6, <2>7, <2>8, <2>9 DEF IInv
<1>3. CASE SetRunReportGrade
  <2>1. /\ At("grade") /\ runGrade' = job.draft.grade
        /\ job' = [job EXCEPT !.at = "mine"]
        /\ UNCHANGED <<environment, reports, mined, attributed, corpus, asked, crashes, scored>>
    BY <1>3 DEF SetRunReportGrade, Goto
  <2>2. /\ job' \in Jobs /\ job'.at = "mine" /\ job'.draft = job.draft
        /\ job'.todo = job.todo /\ job'.now = job.now
    BY <1>1, <2>1 DEF Jobs, Places
  <2>3. TypeOK' /\ job' \in Jobs'
    BY <1>1, <2>1, <2>2 DEF TypeOK, environment, Jobs, Places, Reports
  <2>4. ReportsSpaced' /\ LatestReport' = LatestReport /\ Watermark' = Watermark
    BY <2>1 DEF IInv, ReportsSpaced, Versions, LatestReport, Watermark
  <2>5. DraftGoesOn'
    BY <2>1, <2>2, <2>4 DEF IInv, DraftGoesOn, At, Drafting, environment
  <2>6. DraftIsTold' /\ GradeIsCached'
    BY <2>1, <2>2, <2>4 DEF IInv, DraftIsTold, GradeIsCached, At, Told
  <2>7. ScoresAreOwed'
    BY <2>1, <2>2 DEF IInv, ScoresAreOwed, At
  <2>8. QED
    BY <2>3, <2>4, <2>5, <2>6, <2>7 DEF IInv
<1>4. QED
  BY <1>2, <1>3

\* Behind the report: the lessons are mined and scored.
LEMMA ScoreInv ==
  ASSUME IInv,
         MineLessons \/ MarkMined \/ ReadVerdicts \/ ScoreLesson \/ MarkAttributed
  PROVE  IInv'
<1>1. /\ job \in Jobs /\ TypeOK /\ reports # <<>> /\ job.at \in Told \ {"grade"}
      /\ Len(reports) \in 1..Len(reports) /\ crashes \in Nat /\ scored \in [Lessons -> Nat]
  <2>1. job.at \in Told \ {"grade"}
    BY DEF MineLessons, MarkMined, ReadVerdicts, ScoreLesson, MarkAttributed, At, Told
  <2>2. QED
    BY <2>1, LatestTyped, CriticAssumption DEF IInv, TypeOK, DraftIsTold
<1>2. UNCHANGED <<environment, reports, runGrade, corpus, asked, crashes>>
  BY DEF MineLessons, MarkMined, ReadVerdicts, ScoreLesson, MarkAttributed, rows
<1>3. /\ reports' = reports /\ runGrade' = runGrade /\ crashes' = crashes /\ current' = current
      /\ LatestReport' = LatestReport /\ Watermark' = Watermark
  BY <1>2 DEF environment, LatestReport, Watermark
<1>4. ASSUME job' \in Jobs, job'.at \in Told \ {"grade"}, job'.draft = job.draft,
             mined' \subseteq 1..Len(reports), attributed' \subseteq Lessons,
             scored' \in [Lessons -> Nat], ScoresAreOwed'
      PROVE  IInv'
  <2>1. TypeOK' /\ job' \in Jobs'
    BY <1>1, <1>2, <1>4 DEF TypeOK, environment, Jobs, Places
  <2>2. ReportsSpaced'
    BY <1>3 DEF IInv, ReportsSpaced, Versions
  <2>3. DraftGoesOn'
    BY <1>1, <1>3, <1>4 DEF IInv, DraftGoesOn, At, Drafting, Told
  <2>4. DraftIsTold' /\ GradeIsCached'
    BY <1>1, <1>3, <1>4 DEF IInv, DraftIsTold, GradeIsCached, At
  <2>5. QED
    BY <1>4, <2>1, <2>2, <2>3, <2>4 DEF IInv
<1>5. mined \subseteq 1..Len(reports) /\ attributed \subseteq Lessons
  BY <1>1 DEF TypeOK
<1>6. CASE MineLessons \/ MarkMined
  <2>1. /\ \/ At("mine") /\ mined' = mined
              /\ \E where \in {"mined", "attribute"} : job' = [job EXCEPT !.at = where]
           \/ At("mined") /\ mined' = mined \cup {Len(reports)}
              /\ job' = [job EXCEPT !.at = "attribute"]
        /\ UNCHANGED <<attributed, scored>>
    BY <1>6 DEF MineLessons, MarkMined, Goto, rows
  <2>2. /\ job' \in Jobs /\ job'.at \in {"mined", "attribute"} /\ job'.draft = job.draft
        /\ job'.todo = job.todo /\ job'.now = job.now
    BY <1>1, <2>1 DEF Jobs, Places
  <2>3. mined' \subseteq 1..Len(reports)
    BY <1>1, <1>5, <2>1
  <2>4. job.at # "sentinel"
    BY <2>1 DEF At
  <2>5. ScoresAreOwed'
    BY <1>3, <2>1, <2>2, <2>4 DEF IInv, ScoresAreOwed, At
  <2>6. QED
    BY <1>1, <1>4, <1>5, <2>1, <2>2, <2>3, <2>5 DEF Told
<1>7. CASE ReadVerdicts
  <2>1. PICK said \in [Lessons -> Verdicts] :
          job' = [job EXCEPT !.at = "score", !.said = said,
                    !.todo = {l \in Lessons : said[l] # "none"} \ attributed]
    BY <1>7 DEF ReadVerdicts
  <2> DEFINE todo == {l \in Lessons : said[l] # "none"} \ attributed
  <2>2. At("attribute") /\ UNCHANGED <<mined, attributed, scored>>
    BY <1>7 DEF ReadVerdicts, rows
  <2>3. job.now = {}
    BY <2>2 DEF IInv, ScoresAreOwed, At
  <2>4. /\ job' \in Jobs /\ job'.at = "score" /\ job'.draft = job.draft
        /\ job'.todo = todo /\ job'.now = job.now
    BY <1>1, <2>1 DEF Jobs, Places
  <2>5. ScoresAreOwed'
    BY <1>3, <2>2, <2>3, <2>4 DEF IInv, ScoresAreOwed, At
  <2>6. job'.at \in Told \ {"grade"}
    BY <2>4 DEF Told
  <2>7. /\ mined' \subseteq 1..Len(reports) /\ attributed' \subseteq Lessons
        /\ scored' \in [Lessons -> Nat]
    BY <1>1, <1>5, <2>2
  <2>8. job' \in Jobs /\ job'.draft = job.draft
    BY <2>4
  <2> HIDE DEF todo
  <2>9. QED
    BY <1>4, <2>5, <2>6, <2>7, <2>8, ZenonT(40)
<1>8. CASE ScoreLesson
  <2>1. PICK l \in job.todo :
          IF l \notin corpus
          THEN job' = [job EXCEPT !.todo = @ \ {l}] /\ UNCHANGED scored
          ELSE /\ job' = [job EXCEPT !.at = "sentinel", !.todo = @ \ {l}, !.now = {l}]
               /\ scored' = IF verdictDelta[job.said[l]] = 0 THEN scored
                            ELSE [scored EXCEPT ![l] = @ + 1]
    BY <1>8 DEF ScoreLesson
  <2>2. At("score") /\ UNCHANGED <<mined, attributed>>
    BY <1>8 DEF ScoreLesson, rows
  <2>3. job.now = {} /\ l \in Lessons /\ l \notin attributed /\ job.todo \subseteq Lessons
    BY <1>1, <2>2 DEF IInv, ScoresAreOwed, At, Jobs
  <2>4. scored[l] <= crashes
    BY <2>3 DEF IInv, ScoresAreOwed
  <2>5. /\ job' \in Jobs /\ job'.at \in {"score", "sentinel"} /\ job'.draft = job.draft
        /\ job'.todo = job.todo \ {l} /\ job'.now \subseteq {l}
        /\ (job'.now = {} \/ job'.at = "sentinel")
    <3>1. CASE l \notin corpus
      <4>1. job' = [job EXCEPT !.todo = @ \ {l}] /\ job.at = "score"
        BY <2>1, <2>2, <3>1 DEF At
      <4>2. QED
        BY <1>1, <2>3, <4>1 DEF Jobs, Places
    <3>2. CASE l \in corpus
      <4>1. job' = [job EXCEPT !.at = "sentinel", !.todo = @ \ {l}, !.now = {l}]
        BY <2>1, <3>2
      <4>2. QED
        BY <1>1, <2>3, <4>1 DEF Jobs, Places
    <3>3. QED
      BY <3>1, <3>2
  <2>6. /\ scored' \in [Lessons -> Nat]
        /\ \A x \in Lessons : x # l => scored'[x] = scored[x]
        /\ job'.now = {} => scored' = scored
        /\ scored'[l] <= scored[l] + 1
    <3>1. CASE scored' = scored
      BY <1>1, <2>3, <3>1
    <3>2. CASE scored' = [scored EXCEPT ![l] = @ + 1] /\ l \in corpus
      <4>1. job' = [job EXCEPT !.at = "sentinel", !.todo = @ \ {l}, !.now = {l}]
        BY <2>1, <3>2
      <4>2. job'.now = {l}
        BY <1>1, <4>1 DEF Jobs
      <4>3. QED
        BY <1>1, <2>3, <3>2, <4>2
    <3>3. QED
      BY <2>1, <3>1, <3>2
  <2>7. ScoresAreOwed'
    <3>1. job'.todo \cap (attributed' \cup job'.now) = {}
      BY <2>2, <2>3, <2>5 DEF IInv, ScoresAreOwed
    <3>2. ASSUME NEW x \in Lessons
          PROVE  scored'[x] <= IF x \in attributed \cup job'.now THEN 1 + crashes ELSE crashes
      <4>1. CASE x # l
        BY <2>3, <2>5, <2>6, <4>1 DEF IInv, ScoresAreOwed
      <4>2. CASE x = l /\ job'.now = {}
        BY <2>3, <2>4, <2>6, <4>2
      <4>3. CASE x = l /\ job'.now = {l}
        BY <1>1, <2>3, <2>4, <2>6, <4>3
      <4>4. QED
        BY <2>5, <4>1, <4>2, <4>3
    <3>3. QED
      BY <1>3, <2>2, <2>5, <3>1, <3>2 DEF ScoresAreOwed, At
  <2>8. QED
    BY <1>1, <1>4, <1>5, <2>2, <2>5, <2>6, <2>7 DEF Told
<1>9. CASE MarkAttributed
  <2>1. /\ attributed' = attributed \cup job.now
        /\ job' = [job EXCEPT !.at = "score", !.now = {}]
        /\ UNCHANGED <<mined, scored>>
    BY <1>9 DEF MarkAttributed
  <2>2. /\ job' \in Jobs /\ job'.at = "score" /\ job'.draft = job.draft
        /\ job'.todo = job.todo /\ job'.now = {}
    BY <1>1, <2>1 DEF Jobs, Places
  <2>3. attributed' \subseteq Lessons
    BY <1>1, <1>5, <2>1 DEF Jobs
  <2>4. ScoresAreOwed'
    BY <1>3, <2>1, <2>2 DEF IInv, ScoresAreOwed
  <2>5. QED
    BY <1>1, <1>4, <1>5, <2>1, <2>2, <2>3, <2>4 DEF Told
<1>10. QED
  BY <1>6, <1>7, <1>8, <1>9

\* A crash takes the mutex along, and the sentinel that was about to be written.
LEMMA CrashInv ==
  ASSUME IInv, CrashAndRestart
  PROVE  IInv'
<1>1. /\ job' = NoJob /\ crashes' = crashes + 1 /\ crashes < MaxCrashes
      /\ (asked' = {"auto"} \/ asked' = {}) /\ due' = FALSE
      /\ UNCHANGED <<current, concluded, phases, rows, corpus, scored>>
  BY DEF CrashAndRestart
<1>2. TypeOK /\ crashes \in Nat /\ MaxCrashes \in Nat /\ NoReport \in Reports
      /\ current \in [Sessions -> Nat] /\ scored \in [Lessons -> Nat]
  BY LatestTyped, CriticAssumption DEF IInv, TypeOK, Steps
<1>3. NoJob \in Jobs /\ NoJob.at = "free" /\ NoJob.draft = NoReport /\ NoJob.todo = {} /\ NoJob.now = {}
  BY <1>2 DEF NoJob, Jobs, Places, Verdicts
<1>4. TypeOK' /\ job' \in Jobs'
  <2>1. due' \in BOOLEAN
    BY <1>1, Zenon
  <2>4. crashes' \in 0..MaxCrashes /\ asked' \subseteq {"auto", "operator"}
    BY <1>1, <1>2
  <2>2. job' \in Jobs' /\ job'.at = "free"
    BY <1>1, <1>3 DEF rows, Jobs
  <2>3. QED
    BY <1>1, <1>2, <2>1, <2>2, <2>4 DEF TypeOK, rows
<1>5. ReportsSpaced' /\ Watermark' = Watermark
  BY <1>1 DEF IInv, rows, ReportsSpaced, Versions, Watermark, LatestReport
<1>6. DraftGoesOn'
  <2>1. \A s \in Sessions : job'.draft.steps[s] = 0
    BY <1>1, <1>3 DEF NoReport, Floor0
  <2>2. QED
    BY <1>1, <1>2, <1>3, <1>5, <2>1 DEF IInv, DraftGoesOn, At, Drafting
<1>7. DraftIsTold'
  BY <1>1, <1>3 DEF DraftIsTold, Told
<1>8. GradeIsCached'
  BY <1>1, <1>2 DEF GradeIsCached
<1>9. ScoresAreOwed'
  BY <1>1, <1>2, <1>3 DEF IInv, ScoresAreOwed, rows
<1>10. QED
  BY <1>4, <1>5, <1>6, <1>7, <1>8, <1>9 DEF IInv

\* The job and everything that goes on around it.
LEMMA NextInv == IInv /\ [Next]_vars => IInv'
<1> SUFFICES ASSUME IInv, [Next]_vars PROVE IInv'
  OBVIOUS
<1>1. CASE UNCHANGED vars
  <2>1. UNCHANGED <<current, concluded, due, phases, reports, runGrade, mined, attributed,
                    corpus, asked, job, crashes, scored>>
    BY <1>1 DEF vars, environment, rows
  <2>2. (TypeOK /\ job \in Jobs)'
    BY <2>1 DEF IInv, TypeOK, Jobs
  <2>3. ReportsSpaced'
    BY <2>1 DEF IInv, ReportsSpaced, Versions
  <2>4. LatestReport' = LatestReport /\ Watermark' = Watermark
    BY <2>1 DEF LatestReport, Watermark
  <2>5. DraftGoesOn'
    BY <2>1, <2>4 DEF IInv, DraftGoesOn, At, FarEnough
  <2>6. DraftIsTold' /\ GradeIsCached'
    BY <2>1, <2>4 DEF IInv, DraftIsTold, GradeIsCached, At
  <2>7. ScoresAreOwed'
    BY <2>1 DEF IInv, ScoresAreOwed, At
  <2>8. QED
    BY <2>2, <2>3, <2>5, <2>6, <2>7 DEF IInv
<1>2. CASE Finish
  <2>1. /\ At("score") /\ job' = NoJob
        /\ UNCHANGED <<environment, rows, corpus, asked, crashes, scored>>
    BY <1>2 DEF Finish, Unlock
  <2>2. NoJob \in Jobs /\ NoJob.at = "free" /\ NoJob.draft = NoReport /\ NoJob.todo = {} /\ NoJob.now = {}
    BY LatestTyped DEF IInv, NoJob, Jobs, Places, Verdicts
  <2>3. job.now = {} /\ ~At("grade") /\ asked' \subseteq {"auto", "operator"}
    BY <2>1 DEF IInv, TypeOK, ScoresAreOwed, At
  <2>4. QED
    BY <2>1, <2>2, <2>3, UnlockInv
<1>3. QED
  BY <1>1, <1>2, OthersInv, DraftInv, WriteInv, ScoreInv, CrashInv DEF Next, JobStep

-----------------------------------------------------------------------------
\* The theorems.

\* The inductive invariant holds in every reachable state.
THEOREM Invariance == Spec => []IInv
  BY InitInv, NextInv, PTL DEF Spec

\* The types the model declares for the rows, the requests and the job.
THEOREM TypeCorrect == Spec => []TypeOK
<1>1. IInv => TypeOK
  BY DEF IInv
<1>2. QED
  BY <1>1, Invariance, PTL

\* The gate that spaces reports and the sentinels that guard their side effects
\* do what they are for, whatever conclusions, requests, phases and crashes come
\* in between (finalizer.go, attribute.go).
THEOREM NothingTwice == Spec => []ReportsAndScoresOnce
<1>1. IInv => ReportsAndScoresOnce
  <2> SUFFICES ASSUME IInv PROVE ReportsAndScoresOnce
    OBVIOUS
  <2>1. crashes \in Nat /\ scored \in [Lessons -> Nat]
    BY CriticAssumption DEF IInv, TypeOK
  <2>2. \A l \in Lessons : scored[l] <= 1 + crashes
    BY <2>1 DEF IInv, ScoresAreOwed
  <2>3. crashes = 0 /\ At("free") => runGrade = LatestReport.grade
    BY DEF IInv, GradeIsCached, At
  <2>4. QED
    BY <2>2, <2>3 DEF IInv, ReportsAndScoresOnce, SideEffectsOnce
<1>2. QED
  BY <1>1, Invariance, PTL
=============================================================================

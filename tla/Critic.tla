------------------------------- MODULE Critic -------------------------------
(***************************************************************************)
(* The critic of a run (internal/agent/critic): when the main agent        *)
(* concludes, or when the operator asks, a report is generated over what   *)
(* happened since the previous one, written, mined for lessons, and the    *)
(* lessons the agents loaded are scored by the verdicts in the phases.     *)
(*                                                                         *)
(* A per-run mutex serializes generations, so at most one job runs and its *)
(* locals are one record; requests wait for the mutex in asked.  Sessions  *)
(* advance and the observer closes phases all the while, and a crash may   *)
(* fall between any two of the job's store calls.                          *)
(*                                                                         *)
(* The observer is here only what the critic sees of it: phases close in   *)
(* order below the current step, and each conclusion is owed one call of   *)
(* the hook, by a status read after the phases were (Observer has the      *)
(* rest).  Prompts, summaries, artifacts and the critic's investigation    *)
(* are text; its grade is 0 when it produced no valid report               *)
(* (runKeenCritic's fallback).                                             *)
(***************************************************************************)
EXTENDS Integers, Sequences, FiniteSets

CONSTANTS
  Main, Others,  \* the main agent; the sub-agents a report is also about
  MinSteps,      \* ReportSkipMinSteps
  Lessons,       \* lessons in the corpus at the start
  Judgements,    \* verdicts a phase may carry
  Grades,        \* grades a report may get; 0 is the fallback's
  MaxStep,       \* bound: steps of a session
  MaxCrashes     \* bound: crashes of the process

Sessions == {Main} \cup Others

ASSUME CriticAssumption ==
  /\ Main \notin Others /\ IsFiniteSet(Sessions) /\ IsFiniteSet(Lessons)
  /\ Judgements \subseteq {"none", "helpful", "neutral", "unhelpful", "harmful"}
  /\ Grades \subseteq 0..5
  /\ MinSteps \in Nat \ {0} /\ MaxStep \in Nat /\ MaxCrashes \in Nat

VARIABLES
  current,    \* Session.current_step; the step itself is still empty at rest
  concluded,  \* the main agent's status is concluded
  due,        \* the observer owes the conclusion a call of the hook
  phases,     \* phase_summary rows, with the verdicts on the lessons loaded
  reports,    \* run_report rows, by version
  runGrade,   \* Run.report_grade, the cache of the last grade
  mined,      \* lessons_mined sentinels
  corpus,     \* lessons that exist
  attributed, \* lesson_attribution sentinels
  asked,      \* requests that wait for the run's mutex
  job,        \* the holder's locals; "free" is an unlocked mutex
  crashes,
  scored      \* history: how often a lesson was scored

rows == <<reports, runGrade, mined, attributed>>
environment == <<current, concluded, due, phases>>
vars == <<environment, rows, corpus, asked, job, crashes, scored>>

Verdicts == {"none", "helpful", "neutral", "unhelpful", "harmful"}
verdictDelta == [helpful |-> 1, neutral |-> 0, unhelpful |-> -1, harmful |-> -3]

Steps == 0..MaxStep
PhaseRows == [of : Sessions, to : 1..MaxStep, said : [Lessons -> Verdicts]]
Reports == [steps : [Sessions -> Steps], phases : SUBSET (Sessions \X (1..MaxStep)),
            grade : 0..5]
Floor0 == [s \in Sessions |-> 0]
NoReport == [steps |-> Floor0, phases |-> {}, grade |-> 0]
NoJob == [at |-> "free", kind |-> "none", draft |-> NoReport,
          said |-> [l \in Lessons |-> "none"], todo |-> {}, now |-> {}]

TypeOK ==
  /\ current \in [Sessions -> Steps]
  /\ concluded \in BOOLEAN /\ due \in BOOLEAN
  /\ phases \subseteq PhaseRows
  /\ reports \in Seq(Reports)
  /\ runGrade \in 0..5
  /\ mined \subseteq 1..Len(reports)
  /\ corpus \subseteq Lessons /\ attributed \subseteq Lessons
  /\ asked \subseteq {"auto", "operator"}
  /\ job.at \in {"free", "check", "snapshot", "gather", "write", "grade",
                 "mine", "mined", "attribute", "score", "sentinel"}
  /\ crashes \in 0..MaxCrashes
  /\ scored \in [Lessons -> Nat]

Init ==
  /\ current = [s \in Sessions |-> 0]
  /\ concluded = FALSE /\ due = FALSE /\ phases = {}
  /\ reports = <<>> /\ runGrade = 0 /\ mined = {}
  /\ corpus = Lessons /\ attributed = {}
  /\ asked = {} /\ job = NoJob /\ crashes = 0
  /\ scored = [l \in Lessons |-> 0]

-----------------------------------------------------------------------------
\* The sessions, the observer and the operator.

PhasedTo(s) ==
  LET ends == {p.to : p \in {q \in phases : q.of = s}}
  IN IF ends = {} THEN 0 ELSE CHOOSE e \in ends : \A f \in ends : f <= e

Advance(s) ==
  /\ current[s] < MaxStep /\ (s = Main => ~concluded)
  /\ current' = [current EXCEPT ![s] = @ + 1]
  /\ UNCHANGED <<concluded, due, phases, rows, corpus, asked, job, crashes, scored>>

Conclude ==
  /\ ~concluded /\ current[Main] > 0
  /\ concluded' = TRUE /\ due' = TRUE
  /\ UNCHANGED <<current, phases, rows, corpus, asked, job, crashes, scored>>

\* An Input revives a concluded main agent.
Revive ==
  /\ concluded /\ current[Main] < MaxStep
  /\ concluded' = FALSE
  /\ UNCHANGED <<current, due, phases, rows, corpus, asked, job, crashes, scored>>

\* closePhases: the steps below the current one are finalized; the summarizer
\* judges the lessons loaded in the chunk.
ClosePhase(s) ==
  /\ \E e \in Steps, said \in [Lessons -> Judgements] :
       /\ PhasedTo(s) < e /\ e < current[s]
       /\ phases' = phases \cup {[of |-> s, to |-> e, said |-> said]}
  /\ UNCHANGED <<current, concluded, due, rows, corpus, asked, job, crashes, scored>>

\* maybeFinalize reads the status once more and starts safeFinalize in a
\* goroutine; a second request of a kind that waits is one with the first.
Hook ==
  /\ due
  /\ due' = FALSE
  /\ asked' = IF concluded THEN asked \cup {"auto"} ELSE asked
  /\ UNCHANGED <<current, concluded, phases, rows, corpus, job, crashes, scored>>

\* handleGenerateReport.
AskForReport ==
  /\ "operator" \notin asked
  /\ asked' = asked \cup {"operator"}
  /\ UNCHANGED <<environment, rows, corpus, job, crashes, scored>>

DeleteLesson ==
  /\ \E l \in corpus : corpus' = corpus \ {l}
  /\ UNCHANGED <<environment, rows, asked, job, crashes, scored>>

-----------------------------------------------------------------------------
\* The job, under the run's mutex.

At(where) == job.at = where
Goto(where) == job' = [job EXCEPT !.at = where]
Unlock == job' = NoJob

LatestReport == IF reports = <<>> THEN NoReport ELSE reports[Len(reports)]

\* prev.SessionStep of every session: 0 without a report.
Watermark == LatestReport.steps

Lock ==
  /\ At("free")
  /\ \E kind \in asked :
       /\ asked' = asked \ {kind}
       /\ job' = [NoJob EXCEPT !.at = "check", !.kind = kind]
  /\ UNCHANGED <<environment, rows, corpus, crashes, scored>>

\* OnMainAgentConcluded: at rest, not covered, and far enough past the report.
AutoDue ==
  /\ concluded
  /\ \/ reports = <<>>
     \/ /\ Watermark[Main] < current[Main]
        /\ current[Main] - Watermark[Main] >= MinSteps

\* Generate: whatever the status, some subject session is far enough past it.
advancedByAtLeast(n) == \E s \in Sessions : current[s] - Watermark[s] >= n

\* Mutant of OperatorDue: any progress is enough.
OperatorDueOnProgress == reports = <<>> \/ advancedByAtLeast(1)

OperatorDue == reports = <<>> \/ advancedByAtLeast(MinSteps)

Due == IF job.kind = "auto" THEN AutoDue ELSE OperatorDue

Check ==
  /\ At("check")
  /\ IF Due THEN Goto("snapshot") ELSE Unlock
  /\ UNCHANGED <<environment, rows, corpus, asked, crashes, scored>>

\* GenerateReport lists the sessions again; its snapshot is the next floor.
Snapshot ==
  /\ At("snapshot")
  /\ job' = [job EXCEPT !.at = "gather", !.draft.steps = current]
  /\ UNCHANGED <<environment, rows, corpus, asked, crashes, scored>>

\* gatherPhasesAndArtifacts: the phases that end past the last report's floor.
PhasesPast(floor) == {<<p.of, p.to>> : p \in {q \in phases : q.to > floor[q.of]}}

GatherAndGrade ==
  /\ At("gather")
  /\ \E g \in Grades :
       job' = [job EXCEPT !.at = "write", !.draft.grade = g,
                          !.draft.phases = PhasesPast(Watermark)]
  /\ UNCHANGED <<environment, rows, corpus, asked, crashes, scored>>

\* writeReport: the row, then the cache on the Run row.
WriteReport ==
  /\ At("write")
  /\ reports' = Append(reports, job.draft)
  /\ Goto("grade")
  /\ UNCHANGED <<environment, runGrade, mined, attributed, corpus, asked, crashes,
                 scored>>

SetRunReportGrade ==
  /\ At("grade")
  /\ runGrade' = job.draft.grade
  /\ Goto("mine")
  /\ UNCHANGED <<environment, reports, mined, attributed, corpus, asked, crashes, scored>>

\* maybeMine: once per version, by a sentinel written after the fact; what
\* MineLessons inserts or updates is text.  A failed mining writes none.
MineLessons ==
  /\ At("mine")
  /\ LET version == Len(reports) IN
     \/ version \notin mined /\ Goto("mined")
     \/ (version \in mined \/ job.draft.phases # {}) /\ Goto("attribute")
  /\ UNCHANGED <<environment, rows, corpus, asked, crashes, scored>>

MarkMined ==
  /\ At("mined")
  /\ mined' = mined \cup {Len(reports)}
  /\ Goto("attribute")
  /\ UNCHANGED <<environment, reports, runGrade, attributed, corpus, asked, crashes, scored>>

\* collectLessonVerdicts: over all sessions' phases, the last one's verdict wins.
\* They are ordered by session id, then by end; any session's id may be the last.
VerdictsOn(l) ==
  LET judging == {p \in phases : p.said[l] # "none"}
      lasts == {p \in judging : \A q \in judging : q.of = p.of => q.to <= p.to}
  IN IF judging = {} THEN {"none"} ELSE {p.said[l] : p \in lasts}

\* AttributeLessons reads the phases and the sentinels before it scores.
ReadVerdicts ==
  /\ At("attribute")
  /\ \E said \in [Lessons -> Verdicts] :
       /\ \A l \in Lessons : said[l] \in VerdictsOn(l)
       /\ job' = [job EXCEPT !.at = "score", !.said = said,
                    !.todo = {l \in Lessons : said[l] # "none"} \ attributed]
  /\ UNCHANGED <<environment, rows, corpus, asked, crashes, scored>>

\* One lesson after the other; a deleted one is skipped, and a neutral verdict
\* is not a score.
ScoreLesson ==
  /\ At("score")
  /\ \E l \in job.todo :
       IF l \notin corpus
       THEN job' = [job EXCEPT !.todo = @ \ {l}] /\ UNCHANGED scored
       ELSE /\ job' = [job EXCEPT !.at = "sentinel", !.todo = @ \ {l}, !.now = {l}]
            /\ scored' = IF verdictDelta[job.said[l]] = 0 THEN scored
                         ELSE [scored EXCEPT ![l] = @ + 1]
  /\ UNCHANGED <<environment, rows, corpus, asked, crashes>>

MarkAttributed ==
  /\ At("sentinel")
  /\ attributed' = attributed \cup job.now
  /\ job' = [job EXCEPT !.at = "score", !.now = {}]
  /\ UNCHANGED <<environment, reports, runGrade, mined, corpus, asked, crashes, scored>>

Finish ==
  /\ At("score") /\ job.todo = {}
  /\ Unlock
  /\ UNCHANGED <<environment, rows, corpus, asked, crashes, scored>>

\* Mutant of CrashAndRestart: no backfill.
CrashWithoutBackfill ==
  /\ crashes < MaxCrashes
  /\ crashes' = crashes + 1
  /\ job' = NoJob
  /\ asked' = {}
  /\ due' = FALSE
  /\ UNCHANGED <<current, concluded, phases, rows, corpus, scored>>

\* A crash forgets the mutex, the job and the requests; backfillReports asks
\* again for every run it finds concluded.
CrashAndRestart ==
  /\ crashes < MaxCrashes
  /\ crashes' = crashes + 1
  /\ job' = NoJob
  /\ asked' = IF concluded THEN {"auto"} ELSE {}
  /\ due' = FALSE
  /\ UNCHANGED <<current, concluded, phases, rows, corpus, scored>>

JobStep ==
  \/ Lock \/ Check \/ Snapshot \/ GatherAndGrade \/ WriteReport
  \/ SetRunReportGrade \/ MineLessons \/ MarkMined
  \/ ReadVerdicts \/ ScoreLesson \/ MarkAttributed \/ Finish

Next ==
  \/ \E s \in Sessions : Advance(s) \/ ClosePhase(s)
  \/ Conclude \/ Revive \/ Hook \/ AskForReport \/ DeleteLesson
  \/ JobStep \/ CrashAndRestart

\* The job's goroutine runs and its calls return, and the observer gets round
\* to the session that concluded (Observer's CaughtUp).
Fairness == WF_vars(JobStep) /\ WF_vars(Hook)

Spec == Init /\ [][Next]_vars /\ Fairness
-----------------------------------------------------------------------------
\* Properties.

Versions == 1..Len(reports)

\* A new report is worth reading: some subject session went on for MinSteps
\* since the one before, no watermark goes back, and no phase is told twice
\* unless it closed while the earlier report was being gathered
\* (ReportSkipMinSteps; the per-run mutex makes check and write one).
ReportsSpaced ==
  \A v \in Versions \ {1} :
    LET old == reports[v - 1]
        new == reports[v]
    IN /\ \E s \in Sessions : new.steps[s] - old.steps[s] >= MinSteps
       /\ \A s \in Sessions : new.steps[s] >= old.steps[s]
       /\ \A p \in old.phases \cap new.phases : p[2] > old.steps[p[1]]

\* Without a crash a lesson is scored once per run and
\* the cached grade is the last report's; a crash between a write and its
\* sentinel may repeat a score, once per crash (attribute.go, finalizer.go).
SideEffectsOnce ==
  /\ \A l \in Lessons : scored[l] <= 1 + crashes
  /\ crashes = 0 /\ At("free") => runGrade = LatestReport.grade

\* Nothing is told twice without need and nothing is scored twice: the gate that
\* spaces reports and the sentinels that guard their side effects.
ReportsAndScoresOnce == ReportsSpaced /\ SideEffectsOnce

\* A main agent that stays concluded gets a report that is less than MinSteps
\* behind it, whatever is deferred, crashes or is asked for in between.
ConclusionCovered ==
  <>[]concluded =>
    <>[](reports # <<>> /\ current[Main] - Watermark[Main] < MinSteps)
=============================================================================

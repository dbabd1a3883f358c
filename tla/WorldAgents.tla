----------------------------- MODULE WorldAgents -----------------------------
(***************************************************************************)
(* Parts of agents that stand alone: the bridge process, one call over a   *)
(* bridge, the turn of an ephemeral agent, the lesson corpus, the bash     *)
(* tool, the skill index.  Each has its constants and variables here, and  *)
(* its properties for the behaviours in which instance names it; MCAgents  *)
(* runs them in small worlds, and WorldProofs is about all values of the   *)
(* constants.                                                              *)
(***************************************************************************)
EXTENDS Integers, Sequences

CONSTANTS
  Requests, restartCooldown, startCooldown, MaxStarts, MaxTime,
  maxBridgeAttempts, Modes, idleTimeout, defaultIdleTimeout, Statuses, BridgeErrors, MaxDeltas,
  Agents, Final, MaxCalls,
  Mined, Topics, Sim, Threshold, Batches, Setups, MaxLessonStarts, MaxEvents,
  Commands, CallerRun, Viewers, ViewOf, Pids, Outputs, MaxOutputs, procCacheTTL, MaxTicks, MaxAsks,
  SkillSources, SkillNames, SkillVersions, Recall, SeedLimit, MaxBuilds, MaxEdits, MaxSkillStarts

VARIABLES
  instance,
  procNow, process, reaped, started, cmd, alive, startedAt, lastFailAt, holder,
  procPc, client, again, down,
  mode, callPc, callAttempt, replay, callShown, callResult, ctx, silent,
  limit, net, far, deltas, pinger, said,
  agent, turnPc, iter, finalizing, attempts, messages, open, request, calls, defied,
  turnResult, outcome,
  lessonConf, lessonStarts, lessonRows, lessonIndex, lessonPc, todo, hit,
  changed, listed, events, counted, lessonShown,
  procs, toolCalls, viewers, toolCache, clock, slain,
  disk, edits, guideStarts, guideConf, cache, guideIndex, guidePc, guideAttempt,
  guideAt, parsed, scanned, guideKnown, guideRows, moved, guideQuery, seed

ProcVars == <<procNow, process, reaped, started, cmd, alive, startedAt, lastFailAt,
            holder, procPc, client, again, down>>
CallVars == <<mode, callPc, callAttempt, replay, callShown, callResult, ctx, silent,
            limit, net, far, deltas, pinger, said>>
TurnVars == <<agent, turnPc, iter, finalizing, attempts, messages, open, request,
            calls, defied, turnResult, outcome>>
LessonVars == <<lessonConf, lessonStarts, lessonRows, lessonIndex, lessonPc, todo,
              hit, changed, listed, events, counted, lessonShown>>
BashVars == <<procs, toolCalls, viewers, toolCache, clock, slain>>
GuideVars == <<disk, edits, guideStarts, guideConf, cache, guideIndex, guidePc,
             guideAttempt, guideAt, parsed, scanned, guideKnown, guideRows, moved,
             guideQuery, seed>>

Proc == INSTANCE BridgeProc WITH now <- procNow, pc <- procPc
ASSUME ProcAssumption == Proc!BridgeProcAssumption

Call == INSTANCE BridgeCall WITH
  maxAttempts <- maxBridgeAttempts, Errors <- BridgeErrors,
  pc <- callPc, attempt <- callAttempt, shown <- callShown, result <- callResult
ASSUME CallAssumption == Call!BridgeCallAssumption

Turn == INSTANCE Ephemeral WITH pc <- turnPc, result <- turnResult
ASSUME TurnAssumption == Turn!EphemeralAssumption

Lesson == INSTANCE Lessons WITH
  Runs <- Mined, MaxStarts <- MaxLessonStarts,
  conf <- lessonConf, starts <- lessonStarts, rows <- lessonRows,
  index <- lessonIndex, pc <- lessonPc, shown <- lessonShown
ASSUME LessonAssumption == Lesson!LessonsAssumption

Bash == INSTANCE BashTool WITH
  Calls <- Commands, RunOf <- CallerRun, MaxTime <- MaxTicks,
  calls <- toolCalls, cache <- toolCache
ASSUME ToolAssumption == Bash!BashAssumption

Guide == INSTANCE Skills WITH
  Sources <- SkillSources, Names <- SkillNames, Versions <- SkillVersions,
  Configs <- Recall, MaxAttempts <- MaxBuilds, MaxStarts <- MaxSkillStarts,
  starts <- guideStarts, conf <- guideConf, index <- guideIndex,
  pc <- guidePc, attempt <- guideAttempt, at <- guideAt, known <- guideKnown,
  rows <- guideRows, query <- guideQuery
ASSUME GuideAssumption == Guide!SkillsAssumption

-----------------------------------------------------------------------------
\* BridgeProc: one bridge runs at a time, and a request brings down only the
\* process it has failed on (transport_spawn.go).
OneBridgeAtATime ==
  /\ [](instance = "proc" => Proc!OneBridge)
  /\ [][instance = "proc" => Proc!KillsOnlyItsOwn]_ProcVars

\* BridgeCall: a caller is shown each delta once, an overflow reaches it as an
\* overflow, and the pinger is joined before the handler returns.
StreamIsFaithful ==
  instance = "call" => Call!ShownOnce /\ Call!OverflowReaches /\ Call!PingerJoined

\* Ephemeral: a forced answer comes within the budget, with room to repair it,
\* unless the provider calls tools that were disabled.
ForcedAnswerLands == instance = "turn" => Turn!ForcedAnswerLands

\* Lessons: no use of a lesson is lost and no near duplicate is inserted
\* without a verdict, by one miner or by several.
LessonsAreKept ==
  /\ [](instance \in {"lesson", "miners"} => Lesson!UsesSurvive)
  /\ [][(instance \in {"lesson", "miners"}) => Lesson!DuplicatesAreJudged]_LessonVars

\* BashTool: a deadline or an interrupt reaches the whole group of a command,
\* and what got away is found by a scan, under forks and exits during it.
NothingHides ==
  instance \in {"output", "procs", "cached"} =>
    Bash!DeadlineKillsTheGroup /\ Bash!ScanFindsSurvivors

\* BashTool: however its output is cut, the answer tells how the command ended.
StatusSurvives == instance \in {"output", "procs", "cached"} => Bash!StatusSurvives

\* Skills: the index follows the disk, and a seed is taken from one snapshot.
GuidesAreCurrent ==
  instance = "guide" => Guide!IndexFollowsDisk /\ Guide!SeedIsOneSnapshot
=============================================================================

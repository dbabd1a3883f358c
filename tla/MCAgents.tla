------------------------------ MODULE MCAgents ------------------------------
(***************************************************************************)
(* What agents are made of besides the loop, each in small worlds of its   *)
(* own: the projection of a log onto the wire formats (several turns; many *)
(* images), the skill index, the edits of MCTools, and those of            *)
(* WorldAgents: the bridge process, one call over the bridge, the calls of *)
(* an ephemeral agent, the lesson corpus under one miner and under two, a  *)
(* command with long output, with the processes it leaves behind, and with *)
(* a cached list of them.  One of the worlds is chosen at the start; the   *)
(* variables of the others stay "".                                        *)
(***************************************************************************)
EXTENDS WorldAgents

VARIABLES
  provider, style, captureExtras, log, turns, phase, wireAttempt, wire, meant, sent, heard,
  lost, faults, acc, wireShown, pending,
  file, viewed, toolShown, toolPc, batch, read, resolved, echo, complete, disturbed

WireVars == <<provider, style, captureExtras, log, turns, phase, wireAttempt, wire, meant, sent,
            heard, lost, faults, acc, wireShown, pending>>

Tools == INSTANCE MCTools WITH
  shown <- toolShown, pc <- toolPc

ToolVars == <<file, viewed, toolShown, toolPc, batch, read, resolved, echo, complete,
            disturbed>>

NoTurn ==
  /\ agent = "" /\ turnPc = "" /\ iter = "" /\ finalizing = ""
  /\ attempts = "" /\ messages = "" /\ open = "" /\ request = ""
  /\ calls = "" /\ defied = "" /\ turnResult = "" /\ outcome = ""
NoWire ==
  /\ provider = "" /\ style = "" /\ captureExtras = "" /\ heard = ""
  /\ lost = "" /\ faults = "" /\ log = "" /\ turns = "" /\ phase = ""
  /\ wireAttempt = "" /\ wire = "" /\ meant = "" /\ sent = ""
  /\ acc = "" /\ wireShown = "" /\ pending = ""
NoProc ==
  /\ procNow = "" /\ process = "" /\ reaped = "" /\ started = "" /\ cmd = ""
  /\ alive = "" /\ startedAt = "" /\ lastFailAt = "" /\ holder = ""
  /\ procPc = "" /\ client = "" /\ again = "" /\ down = ""
NoCall ==
  /\ mode = "" /\ callPc = "" /\ callAttempt = "" /\ replay = ""
  /\ callShown = "" /\ callResult = "" /\ ctx = "" /\ silent = ""
  /\ limit = "" /\ net = "" /\ far = "" /\ deltas = "" /\ pinger = ""
  /\ said = ""
NoGuide ==
  /\ disk = "" /\ edits = "" /\ guideStarts = "" /\ guideConf = ""
  /\ cache = "" /\ guideIndex = "" /\ guidePc = "" /\ guideAttempt = ""
  /\ guideAt = "" /\ parsed = "" /\ scanned = "" /\ guideKnown = "" /\ guideRows = "" /\ moved = ""
  /\ guideQuery = "" /\ seed = ""
NoLesson ==
  /\ lessonConf = "" /\ lessonStarts = "" /\ lessonRows = ""
  /\ lessonIndex = "" /\ lessonPc = "" /\ todo = "" /\ hit = ""
  /\ changed = "" /\ listed = "" /\ events = "" /\ counted = ""
  /\ lessonShown = ""
NoBash ==
  /\ procs = "" /\ toolCalls = "" /\ viewers = "" /\ toolCache = "" /\ clock = 0
  /\ slain = {}
NoTools == Tools!NoFile /\ NoBash

-----------------------------------------------------------------------------
(* The wire.                                                               *)

Calls(n, s) == [pieces |-> n, signed |-> s]
Turns ==
  {[thoughts |-> <<TRUE, FALSE>>, text |-> 2, calls |-> <<Calls(2, FALSE), Calls(2, TRUE)>>],
   [thoughts |-> <<>>, text |-> 0, calls |-> <<Calls(1, TRUE)>>],
   [thoughts |-> <<TRUE>>, text |-> 0, calls |-> <<>>]}

Limit(i, b, t) == [maxImages |-> i, maxImageBytes |-> b, maxTotalBytes |-> t]
Limits == [gemini |-> Limit(4, 0, 8), anthropic |-> Limit(4, 3, 9), openai |-> Limit(0, 0, 0)]

Wire == INSTANCE Projection WITH
  Providers <- {"gemini", "anthropic", "openai"},
  Styles <- {"indexed", "late", "reused", "tagged"}, Turns <- Turns,
  Images <- {<<2>>}, Limits <- Limits, MaxTurns <- 2, MaxMessages <- 0, MaxFaults <- 1,
  attempt <- wireAttempt, shown <- wireShown

Album == INSTANCE Projection WITH
  Providers <- {"gemini", "anthropic"}, Styles <- {}, Turns <- {},
  Images <- {<<2, 4>>, <<9>>}, Limits <- Limits, MaxTurns <- 1, MaxMessages <- 6, MaxFaults <- 0,
  attempt <- wireAttempt, shown <- wireShown

\* A server of which the adapter says that its ids are unique only in a turn.
Bare == INSTANCE Projection WITH
  Providers <- {"openai"}, Styles <- {"bare"}, Turns <- Turns, Images <- {<<>>},
  Limits <- Limits, MaxTurns <- 2, MaxMessages <- 0, MaxFaults <- 1,
  attempt <- wireAttempt, shown <- wireShown

-----------------------------------------------------------------------------
(* The constants of the bridge, of ephemeral agents and of the lessons.    *)

Posts == {"r1", "r2"}
Ways == {"call", "stream"}
Failures == {{"transient"}, {"transient", "overflow"}, {"overflow"}, {"other"}}

Budget(k, t, f, m, r) == [kind |-> k, tools |-> t, force |-> f, maxIter |-> m, repairs |-> r]
Budgets ==
  {Budget(k, t, f, m, r) : k \in {"plain", "typed"}, t \in BOOLEAN, f \in BOOLEAN,
                           m \in 4..6, r \in 1..3}
  \cup {Budget("extract", FALSE, FALSE, 1, r) : r \in 1..2}
Replies == {"valid", "invalid", "malformed", "empty"}

TwoRuns == {"r1", "r2"}
\* Topics 1 and 2 are alike, 4 is like neither.
Closeness == [p \in {1, 2, 4} \X {1, 2, 4} |->
                IF p[1] = p[2] THEN 3 ELSE IF p[1] + p[2] = 3 THEN 2 ELSE 0]
Proposals == {<<2>>, <<4, 1>>}
Embedders ==
  {[embedder |-> "api1", reads |-> TRUE], [embedder |-> "api2", reads |-> FALSE],
   [embedder |-> "local", reads |-> TRUE], [embedder |-> "none", reads |-> FALSE]}

\* One run is mined, over two starts; or two at once, over one.
OneMiner == lessonPc'["r2"] = "new"
TwoMiners == lessonStarts' <= 1 /\ lessonConf'.embedder \in {"off", "api1"}

(* Commands.  In a stream 6 and 7 are the halves of one character.         *)

OneCommand == {"c1"}
OneViewer == {"v1"}
CommandRun == [c \in OneCommand |-> "r1"]
ViewerRun == [v \in OneViewer |-> "r1"]
Short == [stdout |-> <<1>>, stderr |-> << >>]
Long == [stdout |-> <<1, 6, 7, 6, 7, 6, 7, 6, 7, 6, 7, 6, 7, 6, 7, 6, 7, 6, 7>>, stderr |-> << >>]
ShortAndLong == {Short, Long}

\* Output of any length and nobody who asks; three processes and one scan;
\* one process and a list asked for several times.
MaxIs(S) == toolCalls'["c1"].max \in S \cup {0}
Born(n) == \A p \in Pids : procs'[p].at = "unborn" \/ p < 3 + n
OutputOnly == MaxIs({2, 9, 16}) /\ Born(2) /\ viewers' = viewers /\ clock' = clock
OneScan ==
  /\ MaxIs({1}) /\ toolCalls'["c1"].code # 1 /\ clock' = 0
  /\ \/ viewers'["v1"].asks = 0
     \/ viewers'["v1"].asks = 1 /\ viewers'["v1"].pc # "idle"
ManyAsks == MaxIs({1}) /\ Born(1)

-----------------------------------------------------------------------------
(* The constants of the skill index.                                       *)

Nothing == [base |-> {}, over |-> {}]
Layers == <<"base", "over">>
Recalls ==
  {[model |-> "api", blocked |-> Nothing, pinned |-> {"base"}],
   [model |-> "lexical", blocked |-> [Nothing EXCEPT !.over = {1}], pinned |-> {"over"}]}

-----------------------------------------------------------------------------
Init ==
  \/ /\ instance = "wire" /\ Wire!Init
     /\ NoTurn /\ NoProc /\ NoCall /\ NoGuide /\ NoLesson /\ NoTools
  \/ /\ instance = "album" /\ Album!Init
     /\ NoTurn /\ NoProc /\ NoCall /\ NoGuide /\ NoLesson /\ NoTools
  \/ /\ instance = "proc" /\ Proc!Init
     /\ NoTurn /\ NoWire /\ NoCall /\ NoGuide /\ NoLesson /\ NoTools
  \/ /\ instance = "call" /\ Call!Init
     /\ NoTurn /\ NoWire /\ NoProc /\ NoGuide /\ NoLesson /\ NoTools
  \/ /\ instance = "turn" /\ Turn!Init
     /\ NoWire /\ NoProc /\ NoCall /\ NoGuide /\ NoLesson /\ NoTools
  \/ /\ instance = "guide" /\ Guide!Init
     /\ NoTurn /\ NoWire /\ NoProc /\ NoCall /\ NoLesson /\ NoTools
  \/ /\ instance \in {"lesson", "miners"} /\ Lesson!Init
     /\ NoTurn /\ NoWire /\ NoProc /\ NoCall /\ NoGuide /\ NoTools
  \/ /\ instance \in {"output", "procs", "cached"} /\ Bash!Init
     /\ NoTurn /\ NoWire /\ NoProc /\ NoCall /\ NoGuide /\ NoLesson /\ Tools!NoFile
  \/ /\ Tools!Init
     /\ NoTurn /\ NoWire /\ NoProc /\ NoCall /\ NoGuide /\ NoLesson /\ NoBash

Next ==
  /\ UNCHANGED instance
  /\ \/ /\ instance = "wire" /\ Wire!Next
        /\ UNCHANGED <<TurnVars, ProcVars, CallVars, GuideVars, LessonVars, ToolVars, BashVars>>
     \/ /\ instance = "album" /\ Album!Next
        /\ UNCHANGED <<TurnVars, ProcVars, CallVars, GuideVars, LessonVars, ToolVars, BashVars>>
     \/ /\ instance = "proc" /\ Proc!Next
        /\ UNCHANGED <<TurnVars, WireVars, CallVars, GuideVars, LessonVars, ToolVars, BashVars>>
     \/ /\ instance = "call" /\ Call!Next
        /\ UNCHANGED <<TurnVars, WireVars, ProcVars, GuideVars, LessonVars, ToolVars, BashVars>>
     \/ /\ instance = "turn" /\ Turn!Next
        /\ UNCHANGED <<WireVars, ProcVars, CallVars, GuideVars, LessonVars, ToolVars, BashVars>>
     \/ /\ instance = "guide" /\ Guide!Next
        /\ UNCHANGED <<TurnVars, WireVars, ProcVars, CallVars, LessonVars, ToolVars, BashVars>>
     \/ /\ instance = "lesson" /\ Lesson!Next /\ OneMiner
        /\ UNCHANGED <<TurnVars, WireVars, ProcVars, CallVars, GuideVars, ToolVars, BashVars>>
     \/ /\ instance = "miners" /\ Lesson!Next /\ TwoMiners
        /\ UNCHANGED <<TurnVars, WireVars, ProcVars, CallVars, GuideVars, ToolVars, BashVars>>
     \/ /\ \/ instance = "output" /\ Bash!Next /\ OutputOnly
           \/ instance = "procs" /\ Bash!Next /\ OneScan
           \/ instance = "cached" /\ Bash!Next /\ ManyAsks
        /\ UNCHANGED <<TurnVars, WireVars, ProcVars, CallVars, GuideVars, LessonVars,
                       ToolVars>>
     \/ /\ Tools!Next
        /\ UNCHANGED <<TurnVars, WireVars, ProcVars, CallVars, GuideVars, LessonVars,
                       BashVars>>

Spec ==
  Init /\ [][Next]_<<instance, TurnVars, WireVars, ProcVars, CallVars, GuideVars,
                     LessonVars, ToolVars, BashVars>>

\* The server with bare ids by itself.
BareSpec ==
  /\ instance = "bare" /\ Bare!Init
  /\ NoTurn /\ NoProc /\ NoCall /\ NoGuide /\ NoLesson /\ NoTools
  /\ [][/\ Bare!Next
        /\ UNCHANGED <<instance, TurnVars, ProcVars, CallVars, GuideVars, LessonVars,
                       ToolVars, BashVars>>]_<<instance, TurnVars, WireVars, ProcVars,
                                               CallVars, GuideVars, LessonVars, ToolVars,
                                               BashVars>>

-----------------------------------------------------------------------------
\* The properties of the other modules, each in the worlds it is about.

\* Projection: what the server meant by a turn is what the log keeps, what it
\* signed goes back as it was, and no request holds a call without its result.
TurnsComeBack ==
  instance = "wire" =>
    /\ Wire!TurnKept /\ Wire!ReplayedAsSigned
    /\ Wire!IdsDistinct => Wire!EveryCallAnswered

\* Projection: no request holds a call without its result, whatever the ids.
EveryCallAnswered == instance = "bare" => Bare!EveryCallAnswered

\* Projection: a request is within the image limits of the provider, and the
\* cut among the images moves only when they are exceeded.
ImagesFit ==
  /\ [](instance \in {"wire", "album"} => Album!ImagesWithinLimits)
  /\ [][(instance \in {"wire", "album"}) => Album!CutMovesRarely]_WireVars

\* EditFile: a batch that is applied does all its edits, on the lines they were
\* read from, no reader and no crash finds half a file, and the diff the agent
\* is shown is the edit that was made.
EditsLand == Tools!EditsLand
=============================================================================

------------------------------ MODULE Lessons ------------------------------
(***************************************************************************)
(* Lessons learned from runs (critic/mine.go, lessons/, tool/recall):      *)
(* miners of several runs propose candidates, look for the nearest lesson  *)
(* in the index, ask a judge, and write; an index of the rows is rebuilt   *)
(* when a miner is done; agents search and load; verdicts move scores.     *)
(*                                                                         *)
(* What a lesson is about is a topic; Sim is the closeness of two topics.  *)
(* An index is a copy of rows.  The embedder is "api1", "api2" (cosine     *)
(* against stored vectors), "local" (vectors made by Build) or "none".     *)
(***************************************************************************)
EXTENDS Integers, Sequences, FiniteSets

CONSTANTS
  Runs,       \* runs whose reports are mined, each once
  Topics,
  Sim,        \* closeness of two topics
  Threshold,  \* dedupSimilarityThreshold
  Batches,    \* what a model may propose: sequences of topics
  Setups,     \* configurations of a start: [embedder, reads]
  MaxStarts,  \* bound: starts of the server
  MaxEvents   \* bound: loads and verdicts

\* Nothing is closer to a text than some text is: a cosine is at most 1.
LessonsAssumption ==
  /\ Sim \in [Topics \X Topics -> Int] /\ Threshold \in Int
  /\ \E p \in Topics \X Topics : \A q \in Topics \X Topics : Sim[q] <= Sim[p]
  /\ \A b \in Batches : b \in Seq(Topics)

VARIABLES
  conf, starts,
  rows,     \* the Lesson table: id -> [topic, embedder, score, loads]
  index,    \* id -> the row as the last Build read it
  pc,       \* miner -> "new" | "next" | "judge" | "list" | "swap" | "mined"
  todo,     \* miner -> candidates left
  hit,      \* miner -> the lesson to be judged against, or 0
  changed,  \* miner -> it wrote something
  listed,   \* miner -> the rows its Build read
  events,
  counted,  \* history: id -> loads that were recorded
  shown     \* what agents were shown last: ids

vars == <<conf, starts, rows, index, pc, todo, hit, changed, listed, events, counted, shown>>

Off == [embedder |-> "off", reads |-> FALSE]
Ids == DOMAIN rows
Fused(c) == c.embedder \in {"local", "none"}
Embedded == conf.embedder # "none"

Adopt(f, id, x) == [i \in DOMAIN f \cup {id} |-> IF i = id THEN x ELSE f[i]]

Init ==
  /\ conf = Off /\ starts = 0
  /\ \E t \in Topics : \E s \in {-1, 0} :
       rows = [i \in {1} |-> [topic |-> t, embedder |-> "api1", score |-> s, loads |-> 0]]
  /\ index = << >>
  /\ pc = [r \in Runs |-> "new"] /\ todo = [r \in Runs |-> << >>]
  /\ hit = [r \in Runs |-> 0] /\ changed = [r \in Runs |-> FALSE]
  /\ listed = [r \in Runs |-> << >>]
  /\ events = 0 /\ counted = [i \in {1} |-> 0] /\ shown = {}

(* Index.Build: every row when the index makes its own vectors, else those *)
(* embedded by the model the queries are embedded with.                    *)
Indexable(c, x) == Fused(c) \/ x.embedder = c.embedder

IndexOf(c, table) == [i \in {i \in DOMAIN table : Indexable(c, table[i])} |-> table[i]]

(* setupRecall builds the index before the server takes any work.          *)
Start(c) ==
  /\ conf = Off /\ starts < MaxStarts
  /\ conf' = c /\ starts' = starts + 1
  /\ index' = IndexOf(c, rows)
  /\ UNCHANGED <<rows, pc, todo, hit, changed, listed, events, counted, shown>>

(* A process that ends takes its miners with it; MarkMined comes after     *)
(* them, so the report of the run is mined again.                          *)
Stop ==
  /\ conf # Off
  /\ conf' = Off /\ index' = << >> /\ shown' = {}
  /\ pc' = [r \in Runs |-> IF pc[r] = "mined" THEN "mined" ELSE "new"]
  /\ todo' = [r \in Runs |-> << >>] /\ hit' = [r \in Runs |-> 0]
  /\ changed' = [r \in Runs |-> FALSE] /\ listed' = [r \in Runs |-> << >>]
  /\ UNCHANGED <<starts, rows, events, counted>>

-----------------------------------------------------------------------------
(* MineLessons.                                                            *)

(* proposeCandidates and the embedding of all candidates at once; a        *)
(* failure of either mines nothing.                                        *)
Propose(r) ==
  /\ conf # Off /\ pc[r] = "new"
  /\ \/ \E b \in Batches : todo' = [todo EXCEPT ![r] = b] /\ pc' = [pc EXCEPT ![r] = "next"]
     \/ pc' = [pc EXCEPT ![r] = "mined"] /\ UNCHANGED todo
  /\ UNCHANGED <<conf, starts, rows, index, hit, changed, listed, events, counted, shown>>

Candidate(r) == Head(todo[r])

(* Mutant of Nearest: the top of the ranking agents see, in which a bad    *)
(* record costs a lesson more than a step of closeness.                    *)
NearestByRank(t) ==
  LET rank(i) == Sim[<<t, index[i].topic>>] + 2 * index[i].score
  IN  CHOOSE i \in DOMAIN index : \A j \in DOMAIN index : rank(i) >= rank(j)

(* Index.Nearest: by raw cosine.                                           *)
Nearest(t) ==
  LET near(i) == Sim[<<t, index[i].topic>>]
  IN  CHOOSE i \in DOMAIN index : \A j \in DOMAIN index : near(i) >= near(j)

Close(t) == /\ Embedded /\ DOMAIN index # {}
            /\ Sim[<<t, index[Nearest(t)].topic>>] >= Threshold

Insert(r) ==
  LET id == Cardinality(Ids) + 1
  IN  /\ rows' = Adopt(rows, id, [topic |-> Candidate(r), embedder |-> conf.embedder,
                                  score |-> 0, loads |-> 0])
      /\ counted' = Adopt(counted, id, 0)
      /\ changed' = [changed EXCEPT ![r] = TRUE]

Proceed(r) ==
  /\ todo' = [todo EXCEPT ![r] = Tail(@)]
  /\ pc' = [pc EXCEPT ![r] = "next"]
  /\ hit' = [hit EXCEPT ![r] = 0]

(* A write that fails is logged and the candidate skipped.                 *)
InsertNew(r) ==
  /\ pc[r] = "next" /\ todo[r] # << >> /\ ~Close(Candidate(r))
  /\ Insert(r) \/ UNCHANGED <<rows, counted, changed>>
  /\ Proceed(r)
  /\ UNCHANGED <<conf, starts, index, listed, events, shown>>

AskJudge(r) ==
  /\ pc[r] = "next" /\ todo[r] # << >> /\ Close(Candidate(r))
  /\ hit' = [hit EXCEPT ![r] = Nearest(Candidate(r))]
  /\ pc' = [pc EXCEPT ![r] = "judge"]
  /\ UNCHANGED <<conf, starts, rows, index, todo, changed, listed, events, counted, shown>>

(* UpdateLesson: text and vector; score and loads belong to others.        *)
Supersede(r) ==
  rows' = [rows EXCEPT ![hit[r]].topic = Candidate(r), ![hit[r]].embedder = conf.embedder]

(* decideDedup: anything that is not a verdict counts as complementary.    *)
Verdict(r) ==
  /\ pc[r] = "judge"
  /\ \/ UNCHANGED <<rows, counted, changed>>
     \/ Supersede(r) /\ changed' = [changed EXCEPT ![r] = TRUE] /\ UNCHANGED counted
     \/ Insert(r)
  /\ Proceed(r)
  /\ UNCHANGED <<conf, starts, index, listed, events, shown>>

(* The end of the candidates: rebuild the index if anything was written.   *)
ListRows(r) ==
  /\ pc[r] = "next" /\ todo[r] = << >>
  /\ IF changed[r]
       THEN listed' = [listed EXCEPT ![r] = rows] /\ pc' = [pc EXCEPT ![r] = "swap"]
       ELSE pc' = [pc EXCEPT ![r] = "mined"] /\ UNCHANGED listed
  /\ UNCHANGED <<conf, starts, rows, index, todo, hit, changed, events, counted, shown>>

(* The listing or the embedding may fail: the old index stays.             *)
SwapIndex(r) ==
  /\ pc[r] = "swap"
  /\ index' \in {IndexOf(conf, listed[r]), index}
  /\ pc' = [pc EXCEPT ![r] = "mined"]
  /\ listed' = [listed EXCEPT ![r] = << >>]
  /\ UNCHANGED <<conf, starts, rows, todo, hit, changed, events, counted, shown>>

-----------------------------------------------------------------------------
(* Readers and verdicts.                                                   *)

(* lessonReady: the gate before recall_search, recall_load and the seed.   *)
LessonReady == conf # Off /\ conf.reads

(* recall_search and the seed of a session, at most the lessons of the     *)
(* index.                                                                  *)
Search ==
  /\ LessonReady
  /\ shown' = DOMAIN index
  /\ UNCHANGED <<conf, starts, rows, index, pc, todo, hit, changed, listed, events, counted>>

(* recall_load: the body from the index, the use counted on the row, or    *)
(* not counted if the write fails.                                         *)
Load(id) ==
  /\ LessonReady /\ id \in DOMAIN index /\ events < MaxEvents
  /\ events' = events + 1
  /\ shown' = {id}
  /\ rows' = [rows EXCEPT ![id].loads = @ + 1]
  /\ counted' = [counted EXCEPT ![id] = @ + 1]
  /\ UNCHANGED <<conf, starts, index, pc, todo, hit, changed, listed>>

(* AddToLessonScore, from the attribution of a run.                        *)
Judged(id) ==
  /\ conf # Off /\ events < MaxEvents
  /\ events' = events + 1
  /\ \E d \in {-1, 1} : rows' = [rows EXCEPT ![id].score = @ + d]
  /\ UNCHANGED <<conf, starts, index, pc, todo, hit, changed, listed, counted, shown>>

Next ==
  \/ (\E c \in Setups : Start(c)) \/ Stop \/ Search
  \/ \E r \in Runs : \/ Propose(r) \/ InsertNew(r) \/ AskJudge(r) \/ Verdict(r)
                     \/ ListRows(r) \/ SwapIndex(r)
  \/ \E id \in Ids : Load(id) \/ Judged(id)

Spec == Init /\ [][Next]_vars

-----------------------------------------------------------------------------
(* Several hands write one row (UpdateLesson, IncrementLessonLoadCount,    *)
(* AddToLessonScore), and the index they decide by is older than the row:  *)
(* a lesson that is superseded keeps every use that was counted, and an    *)
(* instance with lesson search off shows agents none while its runs go on  *)
(* adding to the corpus ("mining + scoring still run").                    *)
UsesSurvive ==
  /\ \A id \in Ids : rows[id].loads = counted[id]
  /\ conf # Off /\ ~conf.reads => shown = {}

(* Mining asks before it repeats itself (MineLessons, Nearest): a lesson   *)
(* is inserted without a verdict only if no lesson of the index, which has *)
(* only vectors the candidate can be compared with, is close to it,        *)
(* however well or badly the lessons were rated.                           *)
DuplicatesAreJudged ==
  \A id \in DOMAIN rows' \ DOMAIN rows :
    (\A r \in Runs : pc[r] # "judge" \/ pc'[r] = "judge") =>
      \/ ~Embedded
      \/ \A i \in DOMAIN index :
           /\ Sim[<<rows'[id].topic, index[i].topic>>] < Threshold
           /\ Fused(conf) \/ index[i].embedder = conf.embedder
=============================================================================

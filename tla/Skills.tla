------------------------------- MODULE Skills -------------------------------
(***************************************************************************)
(* The skill index (skills/, tool/recall, cmd/amplio/recall.go): guides in *)
(* directory trees are scanned, embedded and cached in the database; a     *)
(* start serves the cache at once and reconciles it with the disk in the   *)
(* background, while agents search, load and are seeded from snapshots.    *)
(*                                                                         *)
(* A directory holds a guide [name, ver] or none; the version stands for   *)
(* the content and its hash.  A vector is what was embedded, with which    *)
(* model: [model, name, ver], or NoVec.                                    *)
(***************************************************************************)
EXTENDS Naturals, Sequences, FiniteSets

CONSTANTS
  Sources,     \* the skill directories in their order, a sequence
  Names,       \* names guides give themselves, numbers in their order
  Versions,    \* contents of a guide
  Configs,     \* [model, blocked, pinned]: the embedder or "lexical", the
               \* blocked names of each source and the pinned sources
  SeedLimit,   \* [skills].initial
  MaxAttempts, \* attempts of Build
  MaxEdits,    \* bound: edits of the disk
  MaxStarts    \* bound: starts of the server

Roots == {Sources[i] : i \in DOMAIN Sources}

SkillsAssumption ==
  /\ Sources \in Seq(Roots) /\ Names \subseteq Nat \ {0} /\ 1 \in Versions
  /\ SeedLimit \in Nat
  /\ \A c \in Configs : c = [model |-> c.model, blocked |-> c.blocked, pinned |-> c.pinned]
                        /\ c.model # "down"

VARIABLES
  disk,     \* <<source, dir>> -> a guide, or NoGuide
  edits, starts,
  conf,     \* the configuration of this process, or Down
  cache,    \* model -> set of entries (SkillEmbedding)
  index,    \* [built, rows, pinned]: rows a sequence of entries
  pc,       \* Build: "idle" | "scan" | "embed" | "save" | "swap"
  attempt,  \* of Build
  at,       \* the source being scanned
  parsed,   \* what was read of its directories so far
  scanned,  \* the entries of the sources before it, merged
  known,    \* the cache it loaded
  rows,     \* the rows it built
  moved,    \* history: the disk changed since the scan began
  query,    \* an agent's query: [pc, snap, task]
  seed      \* what the query returned: [pinned, relevant], sequences of hits

disks == <<disk, edits>>
scan == <<at, parsed, scanned>>
seeding == <<query, seed>>
vars == <<disks, starts, conf, cache, index, pc, attempt, scan, known, rows, moved, seeding>>

Dirs == {"a", "b"}
NoGuide == [name |-> 0, ver |-> 0]
NoVec == [model |-> "none", name |-> 0, ver |-> 0]
Down == [model |-> "down", blocked |-> [s \in Roots |-> {}], pinned |-> {}]
Models == {c.model : c \in Configs}
Empty == [built |-> FALSE, rows |-> << >>, pinned |-> {}]
NoQuery == [pc |-> "none", snap |-> Empty, task |-> FALSE]
NoSeed == [pinned |-> << >>, relevant |-> << >>]

Guides == [name : Names, ver : Versions]

-----------------------------------------------------------------------------
(* Scanning.                                                               *)

NothingRead == [d \in {} |-> NoGuide]

(* The first of a name in a tree counts, unless the source blocks it.      *)
Dropped(d) ==
  \/ parsed[d].name \in {0} \cup conf.blocked[Sources[at]]
  \/ d = "b" /\ parsed["a"].name = parsed["b"].name

Entry(d) == [name |-> parsed[d].name, ver |-> parsed[d].ver, source |-> Sources[at], dir |-> d]

(* Mutant of Put: the first source of a name wins.                         *)
PutFirst(es, d) ==
  IF Dropped(d) \/ \E i \in DOMAIN es : es[i].name = parsed[d].name THEN es
  ELSE Append(es, Entry(d))

(* A later source replaces an entry of the name at its place.              *)
Put(es, d) ==
  IF Dropped(d) THEN es
  ELSE IF \E i \in DOMAIN es : es[i].name = parsed[d].name
  THEN [i \in DOMAIN es |-> IF es[i].name = parsed[d].name THEN Entry(d) ELSE es[i]]
  ELSE Append(es, Entry(d))

(* pinnedNames: by the path of the winning entry, scanned or cached.       *)
PinnedNames(rs) == {rs[i].name : i \in {i \in DOMAIN rs : rs[i].source \in conf.pinned}}

(* Lists of k members of a set, none twice, and of all of them, by name.   *)
Lists(S, k) == {q \in [1..k -> S] : \A i, j \in 1..k : q[i] = q[j] => i = j}
Orders(S) == {q \in Lists(S, Cardinality(S)) : \A x \in S : \E i \in DOMAIN q : q[i] = x}

-----------------------------------------------------------------------------
(* The process and the disk.                                               *)

Init ==
  /\ disk \in {[p \in Roots \X Dirs |->
                  IF p[2] = "a" THEN [name |-> n[p[1]], ver |-> 1] ELSE NoGuide]
               : n \in [Roots -> Names]}
  /\ edits = 0 /\ starts = 0
  /\ conf = Down /\ cache = [m \in Models |-> {}]
  /\ index = Empty /\ pc = "idle" /\ attempt = 0
  /\ at = 1 /\ parsed = NothingRead /\ scanned = << >>
  /\ known = {} /\ rows = << >> /\ moved = FALSE
  /\ query = NoQuery /\ seed = NoSeed

Edit ==
  /\ edits < MaxEdits
  /\ \E p \in DOMAIN disk : \E g \in Guides \cup {NoGuide} :
       g # disk[p] /\ disk' = [disk EXCEPT ![p] = g]
  /\ edits' = edits + 1 /\ moved' = TRUE
  /\ UNCHANGED <<starts, conf, cache, index, pc, attempt, scan, known, rows, seeding>>

(* setupRecall: the index is hydrated from the cache of its model, in name *)
(* order; empty or unreadable, the start waits for Build, else Build runs  *)
(* behind it.                                                              *)
LoadCached(c, es) ==
  IF es = << >> THEN Empty
  ELSE [built |-> TRUE, rows |-> es,
        pinned |-> {es[i].name : i \in {i \in DOMAIN es : es[i].source \in c.pinned}}]

NewScan == pc' = "scan" /\ at' = 1 /\ parsed' = NothingRead /\ scanned' = << >> /\ moved' = FALSE

Start(c) ==
  /\ conf = Down /\ starts < MaxStarts
  /\ starts' = starts + 1
  /\ conf' = c
  /\ \E es \in Orders(cache[c.model]) :
       /\ \A i, j \in DOMAIN es : i < j => es[i].name < es[j].name
       /\ index' \in {LoadCached(c, es), Empty}
  /\ attempt' = 1 /\ NewScan
  /\ UNCHANGED <<disks, cache, known, rows, seeding>>

(* The process ends or dies: the database is what stays.                   *)
Stop ==
  /\ conf # Down
  /\ conf' = Down /\ index' = Empty /\ pc' = "idle" /\ attempt' = 0
  /\ at' = 1 /\ parsed' = NothingRead /\ scanned' = << >>
  /\ known' = {} /\ rows' = << >>
  /\ query' = NoQuery /\ seed' = NoSeed
  /\ UNCHANGED <<disks, starts, cache, moved>>

-----------------------------------------------------------------------------
(* Build.                                                                  *)

(* scanSkills reads the directories of a tree in parallel, each when its   *)
(* turn comes; scanSources merges one tree after another.                  *)
ReadGuide(d) ==
  /\ pc = "scan" /\ at <= Len(Sources) /\ d \notin DOMAIN parsed
  /\ parsed' = [x \in DOMAIN parsed \cup {d} |->
                  IF x = d THEN disk[<<Sources[at], d>>] ELSE parsed[x]]
  /\ UNCHANGED <<disks, starts, conf, cache, index, pc, attempt, at, scanned, known, rows,
                 moved, seeding>>

MergeSource ==
  /\ pc = "scan" /\ at <= Len(Sources) /\ DOMAIN parsed = Dirs
  /\ scanned' = Put(Put(scanned, "a"), "b")
  /\ at' = at + 1 /\ parsed' = NothingRead
  /\ UNCHANGED <<disks, starts, conf, cache, index, pc, attempt, known, rows, moved, seeding>>

(* A cache that cannot be read is taken as empty.                          *)
LoadKnown ==
  /\ pc = "scan" /\ at > Len(Sources)
  /\ known' \in {cache[conf.model], {}} /\ pc' = "embed"
  /\ UNCHANGED <<disks, starts, conf, cache, index, attempt, scan, rows, moved, seeding>>

Fresh(e) == IF conf.model = "lexical" THEN NoVec
            ELSE [model |-> conf.model, name |-> e.name, ver |-> e.ver]

(* The cached vector of an unchanged guide.                                *)
Reuse(e) == {k \in known : k.name = e.name /\ k.ver = e.ver}

Row(e) ==
  [name |-> e.name, ver |-> e.ver, source |-> e.source, dir |-> e.dir,
   vec |-> IF conf.model = "lexical" \/ Reuse(e) = {} THEN Fresh(e)
           ELSE (CHOOSE k \in Reuse(e) : TRUE).vec]

Embed ==
  /\ pc = "embed"
  /\ rows' = [i \in DOMAIN scanned |-> Row(scanned[i])]
  /\ pc' = "save"
  /\ UNCHANGED <<disks, starts, conf, cache, index, attempt, scan, known, moved, seeding>>

(* The embedder fails: Build tries again from the scan, then gives up and  *)
(* the hydrated index goes on serving.                                     *)
EmbedFails ==
  /\ pc = "embed" /\ conf.model # "lexical"
  /\ \E i \in DOMAIN scanned : Reuse(scanned[i]) = {}
  /\ IF attempt < MaxAttempts THEN NewScan /\ attempt' = attempt + 1
     ELSE pc' = "idle" /\ UNCHANGED <<attempt, scan, moved>>
  /\ UNCHANGED <<disks, starts, conf, cache, index, known, rows, seeding>>

(* PutSkillVectors replaces the rows of the model, in one transaction; a   *)
(* failure is logged and the build goes on.                                *)
Save ==
  /\ pc = "save"
  /\ cache' \in {[cache EXCEPT ![conf.model] = {rows[i] : i \in DOMAIN rows}], cache}
  /\ pc' = "swap"
  /\ UNCHANGED <<disks, starts, conf, index, attempt, scan, known, rows, moved, seeding>>

Swap ==
  /\ pc = "swap"
  /\ index' = [built |-> TRUE, rows |-> rows, pinned |-> PinnedNames(rows)]
  /\ pc' = "idle"
  /\ UNCHANGED <<disks, starts, conf, cache, attempt, scan, known, rows, moved, seeding>>

-----------------------------------------------------------------------------
(* Seeding a session (Index.Initial, recall.InitialContent).               *)

(* Reads the snapshot under the lock; with a task the query is embedded.   *)
Ask ==
  /\ conf # Down /\ index.built /\ query.pc = "none"
  /\ \E task \in BOOLEAN : query' = [pc |-> "rank", snap |-> index, task |-> task]
  /\ seed' = NoSeed
  /\ UNCHANGED <<disks, starts, conf, cache, index, pc, attempt, scan, known, rows, moved>>

(* A hit pairs an entry with the row whose score ranked it.                *)
Hit(names, matrix, i) == [entry |-> names[i], vec |-> matrix[i].vec]

(* The vectors the scores are computed over.                               *)
Matrix == query.snap.rows

(* The order of the scores is any order of the rows.  Without a vector of  *)
(* the query (no embedder, or a query it makes nothing of) a row that      *)
(* shares no term with it is not relevant; with no task, no signal at all, *)
(* or when the embedder fails, only the pinned entries are listed.         *)
Rank ==
  /\ query.pc = "rank"
  /\ LET rs     == query.snap.rows
         within == {i \in DOMAIN rs : i \in DOMAIN Matrix}
         pin    == {i \in DOMAIN rs : rs[i].name \in query.snap.pinned}
         left   == Cardinality(within \ pin)
         most   == IF left < SeedLimit THEN left ELSE SeedLimit
     IN  \/ \E first \in Orders(pin \cap within) :
            \E k \in 0..most :
              \E rest \in Lists(within \ pin, k) :
                /\ query.task
                /\ seed' = [pinned |-> [n \in DOMAIN first |-> Hit(rs, Matrix, first[n])],
                            relevant |-> [n \in DOMAIN rest |-> Hit(rs, Matrix, rest[n])]]
         \/ \E byName \in Orders(pin) :
              /\ \A i, j \in DOMAIN byName : i < j => rs[byName[i]].name < rs[byName[j]].name
              /\ seed' = [pinned |-> [n \in DOMAIN byName |-> Hit(rs, rs, byName[n])],
                          relevant |-> << >>]
  /\ query' = [query EXCEPT !.pc = "done"]
  /\ UNCHANGED <<disks, starts, conf, cache, index, pc, attempt, scan, known, rows, moved>>

Forget ==
  /\ query.pc = "done"
  /\ query' = NoQuery /\ seed' = NoSeed
  /\ UNCHANGED <<disks, starts, conf, cache, index, pc, attempt, scan, known, rows, moved>>

Next ==
  \/ Edit \/ (\E c \in Configs : Start(c)) \/ Stop
  \/ (\E d \in Dirs : ReadGuide(d)) \/ MergeSource \/ LoadKnown \/ Embed \/ EmbedFails \/ Save \/ Swap
  \/ Ask \/ Rank \/ Forget

Spec == Init /\ [][Next]_vars

-----------------------------------------------------------------------------
(* The guide of a name that layered directories promise: of the last      *)
(* source that has it and does not block it, the one in the first tree.    *)
Has(s, n) == n \notin conf.blocked[s] /\ \E d \in Dirs : disk[<<s, d>>].name = n
Wins(i, n) == Has(Sources[i], n) /\ \A j \in DOMAIN Sources : j > i => ~Has(Sources[j], n)
FirstDir(s, n) == IF disk[<<s, "a">>].name = n THEN "a" ELSE "b"
Offer(i, n) == [name |-> n, ver |-> disk[<<Sources[i], FirstDir(Sources[i], n)>>].ver,
                source |-> Sources[i], dir |-> FirstDir(Sources[i], n)]
Promised == {Offer(p[1], p[2]) : p \in {p \in (DOMAIN Sources) \X Names : Wins(p[1], p[2])}}
Plain(e) == [name |-> e.name, ver |-> e.ver, source |-> e.source, dir |-> e.dir]

(* What recall serves is the guides on disk (skills/index.go buildOnce,    *)
(* LoadCached; sqlite PutSkillVectors): once a build has swapped and the   *)
(* disk has not moved since its scan began, the index holds exactly the    *)
(* merged sources; and under any sequence of edits, failures, restarts and *)
(* changes of the embedder no name is served twice, and no entry, served   *)
(* or cached, hydrated or rebuilt, is ranked by a vector of another        *)
(* content or of another model.                                            *)
IndexFollowsDisk ==
  /\ pc = "idle" /\ index.built /\ index.rows = rows /\ ~moved =>
       {Plain(index.rows[i]) : i \in DOMAIN index.rows} = Promised
  /\ \A i, j \in DOMAIN index.rows : i # j => index.rows[i].name # index.rows[j].name
  /\ \A i \in DOMAIN index.rows : index.rows[i].vec = Fresh(index.rows[i])
  /\ \A m \in Models : \A e \in cache[m] :
       /\ e.vec = IF m = "lexical" THEN NoVec ELSE [model |-> m, name |-> e.name, ver |-> e.ver]
       /\ \A f \in cache[m] : f.name = e.name => f = e

(* What a session is seeded with (skills/index.go Initial): every pinned   *)
(* guide of the snapshot once, at most SeedLimit others, never one twice,  *)
(* each ranked by its own vector, whatever is swapped in while the query   *)
(* is embedded and even when the embedding fails.                          *)
SeedIsOneSnapshot ==
  query.pc = "done" =>
    LET all == seed.pinned \o seed.relevant
    IN  /\ {seed.pinned[i].entry.name : i \in DOMAIN seed.pinned} = query.snap.pinned
        /\ Len(seed.relevant) <= SeedLimit
        /\ \A i, j \in DOMAIN all : i # j => all[i].entry.name # all[j].entry.name
        /\ \A i \in DOMAIN all : all[i].vec = all[i].entry.vec
=============================================================================

------------------------------ MODULE EditFile ------------------------------
(***************************************************************************)
(* view_file and edit_file (internal/tool/viewfile, editfile, anchor) on   *)
(* one file: a view hands out content anchors, a batch of edits is         *)
(* resolved against one reading of the file, checked for overlaps, applied *)
(* bottom-up and written through a temporary file. The tools of a turn run *)
(* in parallel, other programs write the file too, and the process may die *)
(* between any two steps.                                                  *)
(*                                                                         *)
(* A content is a sequence of bytes, 0 the newline. An anchor is the       *)
(* window of lines it is the hash of: hashes do not collide here.          *)
(***************************************************************************)
EXTENDS Integers, Sequences, SequencesExt, FiniteSetsExt

CONSTANTS
  Callers,            \* tool calls that may run at the same time
  Contents,           \* contents the file may have at first, Absent for none
  Batches,            \* caller -> the batches of edits it may send
  Others,             \* contents another program may write
  Views,              \* the ranges and flags a view may ask for
  WindowRadius, autoAnchorMaxLines,
  maxLines,           \* a longer side of a diff is not aligned
  MaxEchoed,          \* rows of an answer after which no further edit is shown
  Absent

VARIABLES
  file,       \* what is on disk
  viewed,     \* caller -> the content it viewed last
  shown,      \* caller -> the lines it got anchors for
  pc,         \* caller -> where its call is
  batch,      \* caller -> the edits it sent
  read,       \* caller -> the content its edits are resolved against
  resolved,   \* caller -> the splices, and the result they make
  echo,       \* caller -> the diffs of a successful call
  complete,   \* every content somebody meant the file to have
  disturbed   \* bound on the other programs and crashes

vars == <<file, viewed, shown, pc, batch, read, resolved, echo, complete, disturbed>>

-----------------------------------------------------------------------------
(* Lines and anchors.                                                      *)

\* The places of the newlines, the loop of lineByteOffsets.
LineEnds(text) == SelectSeq([i \in DOMAIN text |-> i], LAMBDA i : text[i] = 0)

\* lineByteOffsets: where each line starts, the end of the text included.
lineByteOffsets(text) == <<0>> \o LineEnds(text)

HasTrailingNewline(text) == text # <<>> /\ text[Len(text)] = 0

CutAt(text, offsets, n) ==
  [i \in 1..n |->
    SubSeq(text, offsets[i] + 1, IF i < Len(offsets) THEN offsets[i + 1] - 1 ELSE Len(text))]

\* SplitTextForAnchors
Lines(text) ==
  CutAt(text, lineByteOffsets(text),
        IF text = <<>> THEN 0
        ELSE Len(LineEnds(text)) + (IF HasTrailingNewline(text) THEN 0 ELSE 1))

\* WindowHash: the line and its neighbours, nothing beyond the ends.
WindowHash(lines, i) ==
  [d \in (-WindowRadius)..WindowRadius |-> IF i + d \in DOMAIN lines THEN lines[i + d] ELSE <<>>]

ComputeAnchors(lines) == [i \in DOMAIN lines |-> WindowHash(lines, i)]

\* FileFingerprint
Fingerprint(text) == <<Lines(text), HasTrailingNewline(text) /\ Lines(text) # <<>>>>

Fail(code) == [error |-> code]
At(line) == [line |-> line]
Failed(r) == "error" \in DOMAIN r

\* ResolveAnchor: exactly one line has the window, or the hint @N names one.
ResolveAnchor(address, anchors) ==
  IF address.name = "BOF" THEN At(0)
  ELSE IF address.name = "EOF" THEN At(Len(anchors) + 1)
  ELSE LET hits == {i \in DOMAIN anchors : anchors[i] = address.window} IN
       IF hits = {} THEN Fail("target_not_found")
       ELSE IF address.hint > 0
       THEN IF address.hint \in hits THEN At(address.hint) ELSE Fail("stale_anchor")
       ELSE IF Cardinality(hits) > 1 THEN Fail("stale_anchor") ELSE At(Min(hits))

\* What the agent writes for a line it was shown.
Address(c, where, hinted) ==
  IF where \in {0, Len(Lines(viewed[c])) + 1}
  THEN [name |-> IF where = 0 THEN "BOF" ELSE "EOF"]
  ELSE [name |-> "hash", window |-> WindowHash(Lines(viewed[c]), where),
        hint |-> IF hinted THEN where ELSE 0]

-----------------------------------------------------------------------------
(* view_file.                                                              *)

Low(x) == IF x < 1 THEN 1 ELSE x

\* viewText: the range is clamped to the file; small views carry anchors.
View(c, v) ==
  /\ pc[c] = "idle" /\ file # Absent
  /\ LET total == Len(Lines(file))
         start == Low(v.start)
         end == IF v.end > total THEN total ELSE v.end
         anchorsOn == IF v.show = "auto" THEN end - start + 1 <= autoAnchorMaxLines
                      ELSE v.show = "yes"
     IN shown' = [shown EXCEPT ![c] = IF start <= end /\ anchorsOn THEN start..end ELSE {}]
  /\ viewed' = [viewed EXCEPT ![c] = file]
  /\ pc' = [pc EXCEPT ![c] = "viewed"]
  /\ UNCHANGED <<file, batch, read, resolved, echo, complete, disturbed>>

-----------------------------------------------------------------------------
(* edit_file: resolution.                                                  *)

Splice(start, end, text, i) == [start |-> start, end |-> end, text |-> text, edit |-> i]

EndsLine(text) == text # <<>> /\ text[Len(text)] = 0
WithNewline(text) == IF text = <<>> \/ EndsLine(text) THEN text ELSE Append(text, 0)

\* The leftmost non-overlapping occurrences of old in the bytes [from, to).
Occurrences(text, old, from, to) ==
  LET n == Len(old)
      Is(p) == p + n <= to /\ SubSeq(text, p + 1, p + n) = old
      step(found, p) == IF Is(p) /\ (found = <<>> \/ p >= Last(found) + n) THEN Append(found, p) ELSE found
  IN FoldLeft(step, <<>>, [k \in 1..(to - from) |-> from + k - 1])

Replaced(found, i, e) ==
  IF found = <<>> THEN Fail("target_not_found")
  ELSE IF Len(found) # e.count THEN Fail("multiple_matches")
  ELSE [splices |-> [k \in DOMAIN found |-> Splice(found[k], found[k] + Len(e.old), e.new, i)]]

\* resolveStrEdit: as many matches as expected in the window of lines.
resolveWithin(text, i, e, offsets, first, last) ==
  IF e.old = <<>> THEN Fail("malformed_args")
  ELSE IF e.old = e.new THEN Fail("no_op")
  ELSE IF first > Len(offsets) THEN Fail("target_not_found")
  ELSE IF last < first THEN Fail("malformed_args")
  ELSE Replaced(Occurrences(text, e.old, offsets[first],
                            IF last < Len(offsets) THEN offsets[last + 1] ELSE Len(text)), i, e)

resolveStrEdit(text, i, e) ==
  resolveWithin(text, i, e, lineByteOffsets(text), Low(e.startLine),
                IF e.endLine = 0 THEN Len(lineByteOffsets(text))
                ELSE Min({e.endLine, Len(lineByteOffsets(text))}))

\* resolveAnchorEdit: an insert before or after the line, between lines.
Inserted(text, i, e, line, offsets, n) ==
  LET start == IF line <= Len(offsets) THEN offsets[line] ELSE Len(text)
  IN [splices |-> <<Splice(start, start,
        IF line = n + 1 /\ ~HasTrailingNewline(text) THEN e.new ELSE WithNewline(e.new), i)>>]

InsertLines(text, i, e, at, n) ==
  IF Failed(at) THEN at
  ELSE Inserted(text, i, e,
         Min({n + 1, Low(IF e.kind = "insert_before" THEN at.line ELSE at.line + 1)}),
         lineByteOffsets(text), n)

resolveInsert(c, text, i, e) ==
  InsertLines(text, i, e,
           ResolveAnchor(Address(c, e.from, e.hinted), ComputeAnchors(Lines(text))), Len(Lines(text)))

\* resolveAnchorEdit: the lines from at_from to at_to are replaced.
Overwritten(text, i, e, start, end) ==
  [splices |-> <<Splice(start, end,
     IF EndsLine(SubSeq(text, start + 1, end)) THEN WithNewline(e.new) ELSE e.new, i)>>]

ReplaceLines(text, i, e, from, to, offsets, n) ==
  IF Failed(from) THEN from
  ELSE IF Failed(to) THEN to
  ELSE IF from.line \notin 1..n \/ to.line \notin 1..n \/ from.line > to.line
  THEN Fail("malformed_args")
  ELSE Overwritten(text, i, e, offsets[from.line],
                   IF to.line < Len(offsets) THEN offsets[to.line + 1] ELSE Len(text))

resolveReplace(c, text, i, e) ==
  ReplaceLines(text, i, e,
            ResolveAnchor(Address(c, e.from, e.hinted), ComputeAnchors(Lines(text))),
            ResolveAnchor(Address(c, e.to, e.hinted), ComputeAnchors(Lines(text))),
            lineByteOffsets(text), Len(Lines(text)))

Resolve(c, text, i, e) ==
  CASE e.kind = "str_replace" -> resolveStrEdit(text, i, e)
    [] e.kind = "replace" -> resolveReplace(c, text, i, e)
    [] OTHER -> resolveInsert(c, text, i, e)

\* Mutant of Overlap: two inserts at one place are let through.
OverlapOfRanges(a, b) == a.start < b.end /\ b.start < a.end

\* Two splices overlap when they intersect, or when two edits insert at one place.
Overlap(a, b) ==
  \/ a.start = a.end /\ b.start = b.end /\ a.start = b.start /\ a.edit # b.edit
  \/ a.start < b.end /\ b.start < a.end

\* sortByStartDesc: splices at the same place stay in the order of the batch.
sortByStartDesc(splices) ==
  LET idx == SetToSortSeq(DOMAIN splices, LAMBDA a, b :
               splices[a].start > splices[b].start \/ (splices[a].start = splices[b].start /\ a < b))
  IN [k \in DOMAIN idx |-> splices[idx[k]]]

Apply(text, splices) ==
  FoldLeft(LAMBDA t, s : SubSeq(t, 1, s.start) \o s.text \o SubSeq(t, s.end + 1, Len(t)),
           text, sortByStartDesc(splices))

Changed(text, splices, result) ==
  IF \E j, k \in DOMAIN splices : j < k /\ Overlap(splices[j], splices[k])
  THEN Fail("edit_overlap")
  ELSE IF result = text THEN Fail("no_op")
  ELSE [splices |-> sortByStartDesc(splices), result |-> result]

AllOf(text, splices) == Changed(text, splices, Apply(text, splices))

Together(text, each) ==
  LET bad == {i \in DOMAIN each : Failed(each[i])}
  IN IF bad # {} THEN each[Min(bad)]
     ELSE AllOf(text, FlattenSeq([i \in DOMAIN each |-> each[i].splices]))

\* execute, up to the write: every edit resolves against one reading.
Outcome(c, b, text) ==
  CASE text = Absent -> Fail("file_not_found")
    [] text # Absent /\ b.guarded /\ Fingerprint(text) # Fingerprint(viewed[c]) ->
         Fail("expected_hash_mismatch")
    [] OTHER -> Together(text, [i \in DOMAIN b.edits |-> Resolve(c, text, i, b.edits[i])])

-----------------------------------------------------------------------------
(* The diff a successful call answers with.                                *)

\* The table of diffLines: the longest common subsequence of the rests.
LcsTable(a, b) ==
  LET dp[i \in 1..(Len(a) + 1), j \in 1..(Len(b) + 1)] ==
        IF i > Len(a) \/ j > Len(b) THEN 0
        ELSE IF a[i] = b[j] THEN dp[i + 1, j + 1] + 1
        ELSE IF dp[i + 1, j] >= dp[i, j + 1] THEN dp[i + 1, j] ELSE dp[i, j + 1]
  IN dp

\* diffLines: removals before additions, shared lines as context.
diffLines(a, b) ==
  LET dp == LcsTable(a, b)
      walk[i \in 1..(Len(a) + 1), j \in 1..(Len(b) + 1)] ==
        IF i > Len(a) /\ j > Len(b) THEN <<>>
        ELSE IF i > Len(a) THEN <<<<"+", b[j]>>>> \o walk[i, j + 1]
        ELSE IF j > Len(b) THEN <<<<"-", a[i]>>>> \o walk[i + 1, j]
        ELSE IF a[i] = b[j] THEN <<<<" ", a[i]>>>> \o walk[i + 1, j + 1]
        ELSE IF dp[i + 1, j] >= dp[i, j + 1] THEN <<<<"-", a[i]>>>> \o walk[i + 1, j]
        ELSE <<<<"+", b[j]>>>> \o walk[i, j + 1]
  IN walk[1, 1]

\* lineSpan: the line a byte is in, the lines of a splice.
LineOf(text, p) == Max({k \in DOMAIN lineByteOffsets(text) : lineByteOffsets(text)[k] <= p})

lineSpan(text, s) ==
  <<LineOf(text, s.start), LineOf(text, IF s.start = s.end THEN s.start ELSE s.end - 1)>>

\* splitNonEmpty: no line of "", and none after a final newline.
splitNonEmpty(text) == IF text = <<>> THEN <<>> ELSE Lines(text)

TrimNewline(text) == IF EndsLine(text) THEN Front(text) ELSE text

\* unifiedDiff: all removals and then all additions when a side is too long.
unifiedDiff(removed, added) ==
  LET del == splitNonEmpty(removed)
      add == splitNonEmpty(added)
  IN IF Len(del) > maxLines \/ Len(add) > maxLines
     THEN [k \in DOMAIN del |-> <<"-", del[k]>>] \o [k \in DOMAIN add |-> <<"+", add[k]>>]
     ELSE diffLines(del, add)

\* What an edit took away: the text it named, or the range it replaced less
\* its final newline.
Removed(text, e, first) ==
  CASE e.kind = "str_replace" -> e.old
    [] e.kind = "replace" -> TrimNewline(SubSeq(text, first.start + 1, first.end))
    [] OTHER -> <<>>

Echoed(echoed) == FoldLeft(LAMBDA n, one : n + Len(one.diff), 0, echoed)

\* formatSuccess: for every edit, until the answer is long, the lines it took
\* away and brought, at its first splice in the order they were applied.
formatSuccess(text, edits, splices) ==
  LET One(i) ==
        LET first == splices[Min({k \in DOMAIN splices : splices[k].edit = i})]
        IN [span |-> lineSpan(text, first),
            diff |-> unifiedDiff(Removed(text, edits[i], first), edits[i].new)]
  IN FoldLeft(LAMBDA echoed, i : IF Echoed(echoed) > MaxEchoed THEN echoed
                                 ELSE Append(echoed, One(i)),
              <<>>, [i \in DOMAIN edits |-> i])

-----------------------------------------------------------------------------
(* The calls.                                                              *)

Init ==
  /\ file \in Contents
  /\ viewed = [c \in Callers |-> Absent] /\ shown = [c \in Callers |-> {}]
  /\ pc = [c \in Callers |-> "idle"]
  /\ batch = [c \in Callers |-> [edits |-> <<>>, guarded |-> FALSE]]
  /\ read = [c \in Callers |-> Absent] /\ resolved = [c \in Callers |-> Fail("none")]
  /\ echo = [c \in Callers |-> <<>>]
  /\ complete = {file} /\ disturbed = 0

IsCreate(b) == Len(b.edits) = 1 /\ b.edits[1].kind = "str_replace" /\ b.edits[1].old = <<>>

\* An anchor can be sent only for a line that was shown.
Addressed(c, e) ==
  e.kind # "str_replace" =>
    pc[c] = "viewed" /\ {e.from, e.to} \subseteq shown[c] \cup {0, Len(Lines(viewed[c])) + 1}

\* execute: the file is read and the batch resolved against that reading, a
\* failure of one edit failing them all; nothing is written yet.
Read(c, b) ==
  /\ pc[c] \in {"idle", "viewed"} /\ ~IsCreate(b)
  /\ b.guarded => pc[c] = "viewed"
  /\ \A i \in DOMAIN b.edits : Addressed(c, b.edits[i])
  /\ LET out == Outcome(c, b, file) IN
     /\ resolved' = [resolved EXCEPT ![c] = out]
     /\ pc' = [pc EXCEPT ![c] = IF Failed(out) THEN "done" ELSE "writing"]
     /\ complete' = IF Failed(out) THEN complete ELSE complete \cup {out.result}
  /\ batch' = [batch EXCEPT ![c] = b]
  /\ read' = [read EXCEPT ![c] = file]
  /\ UNCHANGED <<file, viewed, shown, echo, disturbed>>

Answer(c) == formatSuccess(read[c], batch[c].edits, resolved[c].splices)

\* atomicWrite: a temporary file of the call's own is renamed over the file.
Write(c) ==
  /\ pc[c] = "writing"
  /\ file' = resolved[c].result
  /\ echo' = [echo EXCEPT ![c] = Answer(c)]
  /\ pc' = [pc EXCEPT ![c] = "done"]
  /\ UNCHANGED <<viewed, shown, batch, read, resolved, complete, disturbed>>

\* createFile: the file must be absent or empty when it is looked at.
CreateStat(c, b) ==
  /\ pc[c] = "idle" /\ IsCreate(b)
  /\ batch' = [batch EXCEPT ![c] = b]
  /\ pc' = [pc EXCEPT ![c] = IF file \in {Absent, <<>>} THEN "creating" ELSE "done"]
  /\ resolved' = [resolved EXCEPT ![c] =
       IF file \in {Absent, <<>>} THEN [splices |-> <<>>, result |-> b.edits[1].new]
       ELSE Fail("malformed_args")]
  /\ UNCHANGED <<file, viewed, shown, read, echo, complete, disturbed>>

\* createFile: WriteFile truncates, then fills.
CreateWrite(c) ==
  /\ pc[c] \in {"creating", "created"}
  /\ file' = IF pc[c] = "creating" THEN <<>> ELSE resolved[c].result
  /\ complete' = complete \cup {file'}
  /\ pc' = [pc EXCEPT ![c] = IF @ = "creating" THEN "created" ELSE "done"]
  /\ UNCHANGED <<viewed, shown, batch, read, resolved, echo, disturbed>>

\* The agent sends the next batch.
Again(c) ==
  /\ pc[c] = "done" /\ disturbed = 0
  /\ pc' = [pc EXCEPT ![c] = "idle"] /\ echo' = [echo EXCEPT ![c] = <<>>]
  /\ disturbed' = 1
  /\ UNCHANGED <<file, viewed, shown, batch, read, resolved, complete>>

\* Another program writes the file.
Other(text) ==
  /\ disturbed = 0 /\ disturbed' = 1
  /\ file' = text /\ complete' = complete \cup {text}
  /\ UNCHANGED <<viewed, shown, pc, batch, read, resolved, echo>>

\* The process dies; its calls are gone.
Crash ==
  /\ disturbed = 0 /\ disturbed' = 1
  /\ pc' = [c \in Callers |-> "dead"]
  /\ UNCHANGED <<file, viewed, shown, batch, read, resolved, echo, complete>>

Next ==
  \/ \E c \in Callers :
       \/ \E v \in Views : View(c, v)
       \/ \E b \in Batches[c] : Read(c, b) \/ CreateStat(c, b)
       \/ Write(c) \/ CreateWrite(c) \/ Again(c)
  \/ \E text \in Others : Other(text)
  \/ Crash

Spec == Init /\ [][Next]_vars

-----------------------------------------------------------------------------
(* What an edit owes the agent.                                            *)

Applied(c) == pc[c] \in {"writing", "done"} /\ ~Failed(resolved[c])

\* All splices at once, each at its place in the text it was resolved against.
Spliced(text, splices) ==
  LET Gone(p) == \E k \in DOMAIN splices : splices[k].start < p /\ p <= splices[k].end
      At0(p, wide) == SelectSeq(splices, LAMBDA s : s.start = p /\ (s.start < s.end) = wide)
      New(p) == FlattenSeq([k \in DOMAIN At0(p, FALSE) |-> At0(p, FALSE)[k].text])
                \o FlattenSeq([k \in DOMAIN At0(p, TRUE) |-> At0(p, TRUE)[k].text])
  IN FlattenSeq([q \in 1..(Len(text) + 1) |->
       New(q - 1) \o (IF q > Len(text) \/ Gone(q) THEN <<>> ELSE <<text[q]>>)])

\* An insert at the first byte of a replaced range.
SharedStart(splices) ==
  \E a, b \in DOMAIN splices :
    splices[a].start = splices[b].start /\ splices[a].start = splices[a].end /\ splices[b].start < splices[b].end

\* execute: "applied bottom-up so earlier byte offsets stay valid" -- a batch
\* does to the text what all its edits do at their places, whatever their order.
BatchSplices ==
  \A c \in Callers : Applied(c) /\ batch[c].edits # <<>> /\ ~IsCreate(batch[c]) =>
    resolved[c].result = Spliced(read[c], resolved[c].splices)

\* execute: the same where no insert is at the start of a replaced range; two
\* inserts at one place never get this far.
DistinctBatchSplices ==
  \A c \in Callers :
    Applied(c) /\ ~IsCreate(batch[c]) /\ ~SharedStart(resolved[c].splices) =>
      resolved[c].result = Spliced(read[c], resolved[c].splices)

\* ResolveAnchor: an edit addressed by anchor lands on the line it was read
\* from when the file is as it was viewed, and otherwise on a line that looks
\* the same with all its neighbours; it never lands on another one of several.
AnchorsHitTheirLine ==
  \A c \in Callers : Applied(c) =>
    \A s \in Range(resolved[c].splices) :
      LET e == batch[c].edits[s.edit]
          line == LineOf(read[c], IF e.kind = "insert_after" THEN s.start - 1 ELSE s.start)
      IN e.kind # "str_replace" /\ e.from \in shown[c] =>
           /\ read[c] = viewed[c] => line = e.from
           /\ WindowHash(Lines(read[c]), line) = WindowHash(Lines(viewed[c]), e.from)

\* atomicWrite: whoever reads the file, at any moment and after any crash,
\* finds a content somebody meant it to have (createFile makes an empty file
\* first, and means it).
NeverTorn == file \in complete

\* The side of a diff: the rows with these marks, as lines.
Side(diff, marks) ==
  LET rows == SelectSeq(diff, LAMBDA r : r[1] \in marks)
  IN [k \in DOMAIN rows |-> rows[k][2]]

\* The lines a splice covers in the text it was resolved against.
Covered(text, s) == Lines(SubSeq(text, s.start + 1, s.end))

\* A splice of whole lines: a diff of lines can tell what it does.
WholeLines(text, splices) ==
  \A k \in DOMAIN splices :
    LET s == splices[k] IN
    /\ s.start \in Range(lineByteOffsets(text))
    /\ s.end \in Range(lineByteOffsets(text)) \cup {Len(text)}
    /\ s.text = <<>> \/ EndsLine(s.text) \/ (k = 1 /\ s.end = Len(text))

\* The calls whose answer is a diff of lines.
ShownInLines(c) ==
  /\ echo[c] # <<>> /\ WholeLines(read[c], resolved[c].splices)
  /\ ~SharedStart(resolved[c].splices)

\* The lines after the edits, for an agent that has the lines the edits were
\* resolved against and puts the new side of each diff in the place it names.
Patched(c) ==
  FoldLeft(LAMBDA lines, s :
             LET at == LineOf(read[c], s.start) IN
             SubSeq(lines, 1, at - 1) \o Side(echo[c][s.edit].diff, {"+", " "})
             \o SubSeq(lines, at + Len(Covered(read[c], s)), Len(lines)),
           Lines(read[c]), resolved[c].splices)

\* formatSuccess, "the diff stays self-verifying": the rows taken away are the
\* lines the file had there, a blank last one perhaps left out; the rows brought,
\* put in their place, make the lines the file has now; and a diff that is
\* aligned keeps as many lines as it can.
DiffIsTheEdit ==
  \A c \in Callers : ShownInLines(c) =>
    LET Common(x, y) == \E f \in [DOMAIN x -> DOMAIN y] :
          /\ \A k \in DOMAIN x : y[f[k]] = x[k]
          /\ \A k, l \in DOMAIN x : k < l => f[k] < f[l]
        Kept(x, keep) == LET at == SetToSortSeq(keep, <) IN [k \in DOMAIN at |-> x[at[k]]]
    IN /\ \A s \in Range(resolved[c].splices) : s.edit \in DOMAIN echo[c] =>
            LET had == Covered(read[c], s)
                old == Side(echo[c][s.edit].diff, {"-", " "})
            IN had \in {old, Append(old, <<>>)}
       /\ Len(echo[c]) = Len(batch[c].edits) => Patched(c) = Lines(resolved[c].result)
       /\ \A i \in DOMAIN echo[c] :
            LET d == echo[c][i].diff
                old == Side(d, {"-", " "})
                new == Side(d, {"+", " "})
            IN Len(old) <= maxLines /\ Len(new) <= maxLines =>
                 \A keep \in SUBSET (DOMAIN old) :
                   Common(Kept(old, keep), new) => Cardinality(keep) <= Len(Side(d, {" "}))

\* formatSuccess: "Every removed line is prefixed "- "", or is context.
RemovedLinesAreShown ==
  \A c \in Callers : ShownInLines(c) =>
    \A s \in Range(resolved[c].splices) : s.edit \in DOMAIN echo[c] =>
      Side(echo[c][s.edit].diff, {"-", " "}) = Covered(read[c], s)
=============================================================================

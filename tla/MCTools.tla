------------------------------ MODULE MCTools ------------------------------
(***************************************************************************)
(* Edits of files, in three small worlds: edits and views of one file by   *)
(* two calls; one call that replaces any short text by any other; and one  *)
(* that replaces lines of a text with blank ones, long answers cut short.  *)
(***************************************************************************)
EXTENDS Integers, Sequences

VARIABLES
  instance,
  file, viewed, shown, pc, batch, read, resolved, echo, complete, disturbed

edit == <<file, viewed, shown, pc, batch, read, resolved, echo, complete, disturbed>>

-----------------------------------------------------------------------------
(* Edits.  In a text 0 ends a line and other numbers are words.            *)

StrIn(old, new, n, a, b) ==
  [kind |-> "str_replace", old |-> old, new |-> new, count |-> n, startLine |-> a, endLine |-> b]
Str(old, new, n) == StrIn(old, new, n, 0, 0)
Rep(f, t, new, h) == [kind |-> "replace", from |-> f, to |-> t, new |-> new, hinted |-> h]
Ins(k, f, new, h) == [kind |-> k, from |-> f, to |-> f, new |-> new, hinted |-> h]
B(es, g) == [edits |-> es, guarded |-> g]
V(a, b, s) == [start |-> a, end |-> b, show |-> s]

Edits ==
  {Str(<<1>>, <<2>>, 1), Str(<<0, 1>>, << >>, 2), StrIn(<<2>>, <<1, 0, 1>>, 1, 2, 3),
   Rep(1, 2, <<2>>, FALSE), Rep(2, 2, << >>, TRUE), Rep(3, 3, <<1, 0>>, FALSE),
   Ins("insert_before", 2, <<1>>, FALSE), Ins("insert_after", 3, <<2>>, TRUE),
   Ins("insert_before", 0, <<2>>, FALSE), Ins("insert_after", 4, <<1>>, FALSE)}

Pairs ==
  {B(<<e, f>>, FALSE) : e \in Edits,
     f \in {Rep(2, 2, << >>, TRUE), Ins("insert_before", 2, <<1>>, FALSE)}}
  \cup {B(<<e>>, TRUE) : e \in Edits}

Rivals ==
  {B(<<Str(<<2>>, <<1>>, 1)>>, FALSE), B(<<Str(<< >>, <<1, 0, 1>>, 1)>>, FALSE),
   B(<<Rep(2, 3, <<1>>, FALSE)>>, TRUE)}

Shared == INSTANCE EditFile WITH
  Callers <- {"c1", "c2"}, Batches <- [c1 |-> Pairs, c2 |-> Rivals],
  Contents <- {<<1, 0, 2, 0, 1, 0>>, <<1, 0, 1, 0, 1, 0, 1>>, << >>, <<9>>}, Absent <- <<9>>,
  Others <- {<<1, 0, 1, 0, 2, 0>>}, Views <- {V(1, 9, "auto"), V(2, 3, "yes")},
  WindowRadius <- 1, autoAnchorMaxLines <- 3, maxLines <- 9, MaxEchoed <- 9

Words == {<< >>, <<1>>} \cup [1..3 -> {1, 2}]
Text(w) == [i \in 1..(2 * Len(w)) |-> IF i % 2 = 0 THEN 0 ELSE w[(i + 1) \div 2]]

Diffs == INSTANCE EditFile WITH
  Callers <- {"c1"},
  Batches <- [c1 |-> {B(<<Str(Text(x), Text(y), 1)>>, FALSE) : x \in Words, y \in Words}],
  Contents <- {Text(w) : w \in Words}, Absent <- <<9>>, Others <- {}, Views <- {},
  WindowRadius <- 1, autoAnchorMaxLines <- 3, maxLines <- 3, MaxEchoed <- 9

News == {<< >>, <<0>>, <<2, 0, 1, 0, 0>>}
Ranges == {p \in (1..4) \X (1..4) : p[1] <= p[2]}
Lone == {B(<<Rep(p[1], p[2], x, TRUE)>>, FALSE) : p \in Ranges, x \in News}
Both ==
  UNION {{B(<<Rep(p[1], p[2], x, TRUE), Rep(n, n, << >>, TRUE)>>, FALSE) :
            n \in (1..4) \ (p[1]..p[2])} : p \in Ranges, x \in News}

Blanks == INSTANCE EditFile WITH
  Callers <- {"c1"}, Batches <- [c1 |-> Lone \cup Both],
  Contents <- {<<0, 1, 0, 1, 0, 0>>, <<1, 0, 0, 2>>}, Absent <- <<9>>,
  Others <- {}, Views <- {V(1, 9, "yes")},
  WindowRadius <- 1, autoAnchorMaxLines <- 3, maxLines <- 2, MaxEchoed <- 2

-----------------------------------------------------------------------------
NoFile ==
  /\ file = "" /\ viewed = "" /\ shown = "" /\ pc = "" /\ batch = "" /\ read = ""
  /\ resolved = "" /\ echo = "" /\ complete = "" /\ disturbed = 0

Init ==
  \/ instance = "shared" /\ Shared!Init
  \/ instance = "diffs" /\ Diffs!Init
  \/ instance = "blanks" /\ Blanks!Init

Next ==
  /\ UNCHANGED instance
  /\ \/ instance = "shared" /\ Shared!Next
     \/ instance = "diffs" /\ Diffs!Next
     \/ instance = "blanks" /\ Blanks!Next

Spec == Init /\ [][Next]_<<instance, edit>>

-----------------------------------------------------------------------------
\* The properties of EditFile, each in the world it is about.

\* EditFile: a batch that is applied does all its edits at their places, an
\* anchored edit lands on the line it was read from or on none, and no reader
\* and no crash finds half a file; the diff the agent is shown is the edit made.
EditsLand ==
  /\ instance = "shared" =>
       Shared!DistinctBatchSplices /\ Shared!AnchorsHitTheirLine /\ Shared!NeverTorn
  /\ instance = "diffs" => Diffs!DiffIsTheEdit
  /\ instance = "blanks" => Blanks!DiffIsTheEdit

\* EditFile: the same for every applied batch, as the comment on execute says.
BatchSplices == instance = "shared" => Shared!BatchSplices
=============================================================================

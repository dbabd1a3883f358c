--------------------------- MODULE StepLoopProofs ---------------------------
(***************************************************************************)
(* The step model of a session's log, proved for every bound: over any     *)
(* number of deaths, cancels, revivals and compactions every completed     *)
(* step has one assistant turn, each call one result before its step       *)
(* counts as finalized, the provider gets a context it accepts, what is    *)
(* finalized stays, and the output-limit budget outlives its goroutine.    *)
(*                                                                         *)
(* The invariant has two halves.  DurableInv is about the rows alone: it   *)
(* holds of what a life finds, and no stop can break it.  LifeInv is about *)
(* what the goroutine knows of those rows at each place of its code; a     *)
(* stop empties it and reconcileResume makes it true again.                *)
(***************************************************************************)
EXTENDS StepLoop, SequenceTheorems, FiniteSetTheorems, FunctionTheorems,
        WellFoundedInduction, TLAPS

\* A step has its assistant turn, in whatever generation.
HasTurn(s) == \E i \in DOMAIN log[s] : IsAsst(log[s][i])

\* The calls of a step and its results, whatever context they are in.
Calls(s) == {n \in 1..MaxCalls : \E i \in DOMAIN log[s] :
               log[s][i].k = "tools" /\ n <= log[s][i].n}
Results(s) == {n \in 1..MaxCalls : \E i \in DOMAIN log[s] :
                 log[s][i].k = "result" /\ log[s][i].n = n}
Complete(s) == Calls(s) \subseteq Results(s)

\* Where a goroutine is: in bootstrap, before its decision about the step is
\* carried out, and behind its turn.
Booting == {"create", "frame", "seed", "recall", "advance", "first", "noTask"}
Deciding == {"repair", "tail", "wake", "top"}
Answering == {"tools", "count", "verdict"}

-----------------------------------------------------------------------------
\* What holds of the durable state, and so in the hands of any life.

\* The steps up to the current one have a turn each, the last perhaps not yet.
StepsInOrder ==
  \A s \in Steps :
    /\ \A i, j \in DOMAIN log[s] : IsAsst(log[s][i]) /\ IsAsst(log[s][j]) => i = j
    /\ s >= curStep => ~HasTurn(s)
    /\ 0 < s /\ s < curStep - 1 => HasTurn(s)
    /\ s > curStep => DOMAIN log[s] = {}

\* What the step being called has, and what is past it, was never summarized;
\* a turn in the context has its whole step with it; a summary covers the rest.
GenerationsInOrder ==
  \A s \in Steps : \A i \in DOMAIN log[s] :
    /\ log[s][i].g <= gen
    /\ 0 < s /\ curStep - 1 <= s => log[s][i].g = gen
    /\ 0 < s /\ IsAsst(log[s][i]) /\ log[s][i].g = gen =>
         \A j \in DOMAIN log[s] : log[s][j].g = gen
    /\ 0 < s /\ log[s][i].g < gen =>
         \E t \in Steps : \E j \in DOMAIN log[t] :
           s <= t /\ log[t][j].k = "compaction" /\ log[t][j].g = gen

\* A result follows its call, and no call has two.
CallsInOrder ==
  \A s \in Steps : \A i \in DOMAIN log[s] :
    /\ log[s][i].k = "tools" => log[s][i].n \in 1..MaxCalls
    /\ log[s][i].k = "result" =>
         /\ log[s][i].n \in 1..MaxCalls
         /\ \E j \in DOMAIN log[s] :
              j < i /\ log[s][j].k = "tools" /\ log[s][i].n <= log[s][j].n
         /\ \A j \in DOMAIN log[s] :
              log[s][j].k = "result" /\ log[s][j].n = log[s][i].n => i = j

\* Only the last step with a turn may have open calls; no finalized one has.
StepsFinished ==
  /\ \A s \in Steps : s < curStep - 1 => Complete(s)
  /\ lastFin = 0 \/ lastFin < curStep
  /\ \A s \in Steps : 0 < s /\ s <= lastFin => HasTurn(s) /\ Complete(s)

Turns == {r \in Rows : IsAsst(Event(r))}
LastTurn(kind) == EndsIn(Turns, {kind})

\* Up to a step, nothing follows the last turn of the context.
TurnIsTail(s) == EndsIn({r \in Context : r[1] <= s}, AsstKinds)

\* There is something to say up to a step.
SpokenUpTo(s) ==
  \E r \in Context : r[1] <= s /\ Event(r).k \notin {"system", "marker"}

\* A step without a turn may be called again on what the context has for it.
StepCallable ==
  /\ curStep >= 1 /\ ~HasTurn(curStep - 1) => ~TurnIsTail(curStep - 1)
  /\ curStep >= 2 => SpokenUpTo(curStep - 1)

LimitCount == Cardinality(LimitNudges(Context))

\* The limit nudges since the last tool turn stay within the budget; the open
\* step has one only once the turn it is about is written.
NudgesInBudget ==
  /\ LimitCount <= maxOutputLimitNudges
  /\ \A s \in Steps : \A i \in DOMAIN log[s] :
       log[s][i].k = "nudgeLimit" =>
         0 < s /\ (s = curStep => HasTurn(curStep - 1))

DurableInv ==
  /\ StepsInOrder /\ GenerationsInOrder /\ CallsInOrder /\ StepsFinished
  /\ StepCallable /\ NudgesInBudget

-----------------------------------------------------------------------------
\* What the goroutine knows, where it is.

\* The calls a dead life left open are found by the next, and then answered.
CallsKnown ==
  /\ pc \in {"tail", "wake", "top", "llm", "count", "verdict"} =>
       \A s \in Steps : Complete(s)
  /\ pc = "repair" => \A s \in Steps, n \in 1..MaxCalls :
       <<s, n>> \in orphans <=> n \in Calls(s) \ Results(s)

\* Where the goroutine is, and the step it is about.
PlaceFits ==
  /\ pc \in {"create", "frame", "seed", "recall", "advance"} => curStep = 0
  /\ pc \in {"first", "noTask"} => curStep = 1
  /\ pc \in Booting => \A s \in Steps : ~HasTurn(s)
  /\ pc \in Booting \cup Deciding \cup {"down", "resume"} => callStep = -1
  /\ pc \in {"llm"} \cup Answering => callStep = curStep - 1 /\ callStep \in Steps
  /\ pc \notin Deciding => needsAdvance
  /\ pc \in Deciding => (needsAdvance <=> curStep <= 1 \/ HasTurn(curStep - 1))
  /\ pc = "llm" => ~HasTurn(callStep)
  /\ pc = "tools" => \E i \in DOMAIN log[callStep] : log[callStep][i].k = "tools"

\* A turn that waits for its verdict is the last one; nobody is about to call
\* the model on a turn that nothing followed.
VerdictFits ==
  /\ pc \in {"count", "verdict"} =>
       /\ reply \in NoToolKinds
       /\ \E i \in DOMAIN log[callStep] : log[callStep][i].k = reply
  /\ pc \in {"repair", "tail"} /\ reply # "none" => LastTurn(reply) /\ needsAdvance
  /\ pc = "tail" => reply # "none"
  /\ pc = "repair" /\ reply = "none" => ~StreamAtRest
  /\ pc = "wake" /\ status = "ongoing" => ~StreamAtRest
  /\ pc = "top" => ~StreamAtRest

\* There is something to say before the model is called.
SomethingSaid ==
  /\ pc \in {"resume", "repair", "tail", "top"} => SpokenUpTo(curStep)
  /\ pc = "wake" /\ status = "ongoing" => SpokenUpTo(curStep)
  /\ profile = "task" /\ pc \in {"recall", "advance", "first", "noTask"} =>
       SpokenUpTo(curStep)
  /\ profile = "chatFirst" /\ pc = "noTask" => SpokenUpTo(curStep)
  /\ pc = "llm" => SpokenUpTo(callStep)

\* A life counts at least the limit nudges its context holds.
NudgesCounted ==
  /\ pc \in {"llm"} \cup Deciding \cup Answering => LimitCount <= nudges.limit
  /\ \A s \in Steps : \A i \in DOMAIN log[s] :
       log[s][i].k = "nudgeLimit" =>
         pc \notin Booting /\ (pc \in {"llm"} \cup Answering => s < curStep)

LifeInv == CallsKnown /\ PlaceFits /\ VerdictFits /\ SomethingSaid /\ NudgesCounted

IInv == TypeOK /\ DurableInv /\ LifeInv

-----------------------------------------------------------------------------
\* The log.

\* An event was inserted behind those of its step, as the row <<t, new>>.
Inserted(t, new, e) ==
  /\ DOMAIN log = Steps /\ DOMAIN log' = Steps
  /\ t \in Steps /\ new \in Nat /\ new \notin DOMAIN log[t]
  /\ \A s \in Steps : s # t => log'[s] = log[s]
  /\ DOMAIN log'[t] = DOMAIN log[t] \cup {new}
  /\ \A i \in DOMAIN log[t] : i \in Nat /\ i < new /\ log'[t][i] = log[t][i]
  /\ log'[t][new] = e

RowInserted(n, e) ==
  /\ Rows' = Rows \cup {n} /\ n \notin Rows
  /\ \A r \in Rows \cup {n} : r[1] \in Steps /\ r[2] \in Nat
  /\ \A r \in Rows : Event(r)' = Event(r) /\ (r[1] = n[1] => r[2] < n[2])
  /\ Event(n)' = e

\* What no event of another kind than a turn or a limit nudge changes.
Kept ==
  /\ \A s \in Steps : /\ HasTurn(s)' <=> HasTurn(s)
                      /\ Calls(s)' = Calls(s)
                      /\ Results(s) \subseteq Results(s)'
  /\ \A kind \in NoToolKinds : LastTurn(kind) => LastTurn(kind)'
  /\ StreamAtRest' => StreamAtRest
  /\ \A s \in Int : TurnIsTail(s)' => TurnIsTail(s)
  /\ \A s \in Int : SpokenUpTo(s) => SpokenUpTo(s)'
  /\ LimitNudges(Context)' = LimitNudges(Context)
  /\ \A s \in Steps : \A i \in DOMAIN log[s] :
       i \in DOMAIN log'[s] /\ log'[s][i] = log[s][i]
  /\ \A s \in Steps : \A i \in DOMAIN log'[s] :
       log'[s][i].k = "nudgeLimit" => i \in DOMAIN log[s]

\* The context was compacted: a summary behind the step b, and what is later
\* carried into the new generation.
Compacted(b, new) ==
  /\ log' \in [Steps -> Seq(Events)]
  /\ new \in Nat /\ new \notin DOMAIN log[b]
  /\ DOMAIN log'[b] = DOMAIN log[b] \cup {new}
  /\ log'[b][new] = [k |-> "compaction", n |-> 0, g |-> gen + 1]
  /\ \A s \in Steps : s # b => DOMAIN log'[s] = DOMAIN log[s]
  /\ \A s \in Steps : \A i \in DOMAIN log[s] :
       /\ log'[s][i].k = log[s][i].k /\ log'[s][i].n = log[s][i].n
       /\ log'[s][i].g = IF log[s][i].g = gen /\ s > b THEN gen + 1 ELSE log[s][i].g
       /\ i \in Nat /\ (s = b => i < new)

\* An insert adds one row, behind those of its step (AppendEventAtStep).
LEMMA InsertRow ==
  ASSUME TypeOK, NEW t \in Steps, NEW kind \in Kinds, NEW m \in 0..MaxCalls,
         log' = LogWith(t, kind, m)
  PROVE  /\ log' \in [Steps -> Seq(Events)]
         /\ \E new \in Nat :
              /\ Inserted(t, new, [k |-> kind, n |-> m, g |-> gen])
              /\ RowInserted(<<t, new>>, [k |-> kind, n |-> m, g |-> gen])
<1> DEFINE e == [k |-> kind, n |-> m, g |-> gen]
<1>1. log \in [Steps -> Seq(Events)] /\ e \in Events
  BY DEF TypeOK, Events
<1>2. \A s \in Steps : log[s] \in Seq(Events) /\ Len(log[s]) \in Nat
                       /\ DOMAIN log[s] = 1..Len(log[s])
  BY <1>1, LenProperties
<1>3. PICK new \in Nat : new = Len(log[t]) + 1
  BY <1>2
<1>4. log' = [log EXCEPT ![t] = Append(log[t], e)]
  BY DEF LogWith
<1> HIDE DEF e
<1>5. /\ Append(log[t], e) \in Seq(Events)
      /\ DOMAIN Append(log[t], e) = 1..new
      /\ Append(log[t], e)[new] = e
      /\ \A i \in 1..Len(log[t]) : Append(log[t], e)[i] = log[t][i]
  <2>1. /\ Append(log[t], e) \in Seq(Events)
        /\ Len(Append(log[t], e)) = Len(log[t]) + 1
        /\ \A i \in 1..Len(log[t]) : Append(log[t], e)[i] = log[t][i]
        /\ Append(log[t], e)[Len(log[t]) + 1] = e
    BY <1>1, <1>2, AppendProperties
  <2>2. DOMAIN Append(log[t], e) = 1..Len(Append(log[t], e))
    BY <2>1, LenProperties
  <2> QED  BY <2>1, <2>2, <1>3
<1>6. log' \in [Steps -> Seq(Events)]
  BY <1>1, <1>4, <1>5
<1>7. log'[t] = Append(log[t], e) /\ \A s \in Steps : s # t => log'[s] = log[s]
  BY <1>1, <1>4
<1>8. Inserted(t, new, e)
  <2>1. DOMAIN log = Steps /\ DOMAIN log' = Steps
    BY <1>1, <1>6
  <2>2. DOMAIN log[t] = 1..Len(log[t]) /\ Len(log[t]) \in Nat
    BY <1>2
  <2>3. DOMAIN log'[t] = DOMAIN log[t] \cup {new} /\ new \notin DOMAIN log[t]
    BY <2>2, <1>3, <1>5, <1>7
  <2>4. \A i \in DOMAIN log[t] : i \in Nat /\ i < new /\ log'[t][i] = log[t][i]
    BY <2>2, <1>3, <1>5, <1>7
  <2> QED  BY <2>1, <2>3, <2>4, <1>5, <1>7 DEF Inserted
<1>9. RowInserted(<<t, new>>, e)
  <2>1. \A r : r \in Rows <=> \E s \in Steps : \E i \in DOMAIN log[s] : r = <<s, i>>
    BY <1>8 DEF Rows, Inserted
  <2>2. \A r : r \in Rows' <=> \E s \in Steps : \E i \in DOMAIN log'[s] : r = <<s, i>>
    BY <1>8 DEF Rows, Inserted
  <2>3. \A s \in Steps :
          DOMAIN log'[s] = IF s = t THEN DOMAIN log[s] \cup {new} ELSE DOMAIN log[s]
    BY <1>8 DEF Inserted
  <2>4. \A s \in Steps : \A i \in DOMAIN log[s] :
          i \in Nat /\ log'[s][i] = log[s][i] /\ (s = t => i < new)
    BY <1>2, <1>8 DEF Inserted
  <2>5. <<t, new>> \notin Rows /\ <<t, new>> \in Rows'
    BY <2>1, <2>2, <2>3, <1>8 DEF Inserted
  <2>6. Rows' = Rows \cup {<<t, new>>}
    <3>1. ASSUME NEW r \in Rows  PROVE r \in Rows'
      <4>1. PICK s \in Steps : \E i \in DOMAIN log[s] : r = <<s, i>>
        BY <3>1, <2>1
      <4>2. PICK i \in DOMAIN log[s] : r = <<s, i>>
        BY <4>1
      <4>3. i \in DOMAIN log'[s]
        BY <4>2, <2>3
      <4> QED  BY <4>2, <4>3, <2>2
    <3>2. ASSUME NEW r \in Rows'  PROVE r \in Rows \/ r = <<t, new>>
      <4>1. PICK s \in Steps : \E i \in DOMAIN log'[s] : r = <<s, i>>
        BY <3>2, <2>2
      <4>2. PICK i \in DOMAIN log'[s] : r = <<s, i>>
        BY <4>1
      <4>3. CASE i \in DOMAIN log[s]
        BY <4>2, <4>3, <2>1
      <4>4. CASE s = t /\ i = new
        BY <4>2, <4>4
      <4> QED  BY <4>3, <4>4, <2>3
    <3> QED  BY <3>1, <3>2, <2>5
  <2>7. ASSUME NEW r \in Rows
        PROVE  /\ r[1] \in Steps /\ r[2] \in Nat
               /\ Event(r)' = Event(r) /\ (r[1] = t => r[2] < new)
    <3>1. PICK s \in Steps : \E i \in DOMAIN log[s] : r = <<s, i>>
      BY <2>7, <2>1
    <3>2. PICK i \in DOMAIN log[s] : r = <<s, i>>
      BY <3>1
    <3>3. r[1] = s /\ r[2] = i
      BY <3>2
    <3> QED  BY <3>3, <2>4 DEF Event
  <2>8. Event(<<t, new>>)' = e
    BY <1>8 DEF Event, Inserted
  <2> QED  BY <2>5, <2>6, <2>7, <2>8 DEF RowInserted
<1> QED  BY <1>6, <1>8, <1>9 DEF e

\* Rows and places of the log, each from the other.
LEMMA LogShape ==
  ASSUME TypeOK
  PROVE  /\ DOMAIN log = Steps
         /\ \A s \in Steps : /\ Len(log[s]) \in Nat /\ DOMAIN log[s] = 1..Len(log[s])
                             /\ \A i \in DOMAIN log[s] : i \in Nat /\ log[s][i] \in Events
         /\ \A s \in Steps : \A i \in DOMAIN log[s] :
              <<s, i>> \in Rows /\ Event(<<s, i>>) = log[s][i]
         /\ \A r \in Rows : /\ r[1] \in Steps /\ r[2] \in DOMAIN log[r[1]] /\ r[2] \in Nat
                            /\ r = <<r[1], r[2]>> /\ Event(r) = log[r[1]][r[2]]
                            /\ Event(r) \in Events
<1>1. log \in [Steps -> Seq(Events)] /\ DOMAIN log = Steps
  BY DEF TypeOK
<1>2. \A s \in Steps : Len(log[s]) \in Nat /\ DOMAIN log[s] = 1..Len(log[s])
  BY <1>1, LenProperties
<1>3. \A s \in Steps : \A i \in DOMAIN log[s] : i \in Nat /\ log[s][i] \in Events
  <2>1. \A s \in Steps : \A i \in 1..Len(log[s]) : log[s][i] \in Events
    BY <1>1, ElementOfSeq
  <2> QED  BY <1>2, <2>1
<1>4. \A s \in Steps : \A i \in DOMAIN log[s] :
        <<s, i>> \in Rows /\ Event(<<s, i>>) = log[s][i]
  BY <1>1 DEF Rows, Event
<1>5. ASSUME NEW r \in Rows
      PROVE  /\ r[1] \in Steps /\ r[2] \in DOMAIN log[r[1]] /\ r[2] \in Nat
             /\ r = <<r[1], r[2]>> /\ Event(r) = log[r[1]][r[2]]
             /\ Event(r) \in Events
  <2>1. PICK s \in Steps : \E i \in DOMAIN log[s] : r = <<s, i>>
    BY <1>1 DEF Rows
  <2>2. PICK i \in DOMAIN log[s] : r = <<s, i>>
    BY <2>1
  <2>3. r[1] = s /\ r[2] = i
    BY <2>2
  <2> QED  BY <2>2, <2>3, <1>3 DEF Event
<1> QED  BY <1>1, <1>2, <1>3, <1>4, <1>5

\* The log is finite: finitely many steps, each with a sequence of rows.
LEMMA RowsAreFinite ==
  ASSUME TypeOK  PROVE IsFiniteSet(Rows)
<1> DEFINE RowsOf == [s \in Steps |-> {s} \X (DOMAIN log[s])]
           S == {RowsOf[s] : s \in Steps}
<1>1. \A s \in Steps : IsFiniteSet(RowsOf[s])
  <2>1. ASSUME NEW s \in Steps  PROVE IsFiniteSet(RowsOf[s])
    <3>1. DOMAIN log[s] = 1..Len(log[s]) /\ Len(log[s]) \in Int /\ 1 \in Int
      BY LogShape
    <3>2. IsFiniteSet(1..Len(log[s]))
      BY <3>1, FS_Interval
    <3>3. IsFiniteSet({s}) /\ IsFiniteSet(DOMAIN log[s])
      BY <3>1, <3>2, FS_Singleton
    <3>4. IsFiniteSet({s} \X (DOMAIN log[s]))
      BY <3>3, FS_Product
    <3> QED  BY <3>4
  <2> QED  BY <2>1
<1>2. IsFiniteSet(S)
  <2>1. RowsOf \in Surjection(Steps, S)
    BY Fun_IsSurj
  <2>2. IsFiniteSet(Steps)
    <3>1. MaxStep \in Int /\ 0 \in Int
      BY BoundsAssumption
    <3> QED  BY <3>1, FS_Interval DEF Steps
  <2> QED  BY <2>1, <2>2, FS_Surjection
<1>3. IsFiniteSet(UNION S)
  BY <1>1, <1>2, FS_UNION
<1>4. Rows = UNION S
  BY LogShape DEF Rows
<1> QED  BY <1>3, <1>4

\* Nothing about the log changes with the rest of the state.
LEMMA SameLog ==
  ASSUME UNCHANGED <<log, gen>>
  PROVE  /\ Kept
         /\ \A s : (HasTurn(s)' <=> HasTurn(s)) /\ Calls(s)' = Calls(s)
                   /\ Results(s)' = Results(s)
         /\ StreamAtRest' <=> StreamAtRest
<1>1. log' = log /\ gen' = gen
  OBVIOUS
<1>2. Rows' = Rows /\ \A r : Event(r)' = Event(r) /\ (InContext(r)' <=> InContext(r))
  BY <1>1 DEF Rows, Event, InContext
<1>3. Context' = Context /\ Turns' = Turns
  BY <1>2 DEF Context, Turns, IsAsst
<1>4. \A s : (HasTurn(s)' <=> HasTurn(s)) /\ Calls(s)' = Calls(s)
             /\ Results(s)' = Results(s)
  BY <1>1 DEF HasTurn, IsAsst, Calls, Results
<1>5. StreamAtRest' <=> StreamAtRest
  BY <1>2, <1>3 DEF StreamAtRest, EndsIn
<1>6. \A kind \in NoToolKinds : LastTurn(kind) => LastTurn(kind)'
  BY <1>2, <1>3 DEF LastTurn, EndsIn
<1>7. \A s \in Int : (TurnIsTail(s)' => TurnIsTail(s)) /\ (SpokenUpTo(s) => SpokenUpTo(s)')
  BY <1>2, <1>3 DEF TurnIsTail, EndsIn, SpokenUpTo
<1>8. LimitNudges(Context)' = LimitNudges(Context)
  BY <1>2, <1>3 DEF LimitNudges
<1> QED  BY <1>1, <1>4, <1>5, <1>6, <1>7, <1>8 DEF Kept

\* What an event that is no turn leaves as it was, and what it adds.
LEMMA InsertKeeps ==
  ASSUME TypeOK, NEW t \in Steps, NEW new \in Nat, NEW e \in Events,
         Inserted(t, new, e), RowInserted(<<t, new>>, e),
         e.k \notin AsstKinds, UNCHANGED gen
  PROVE  /\ e.k # "nudgeLimit" => Kept
         /\ \A s \in Steps :
              /\ HasTurn(s)' <=> HasTurn(s)
              /\ Calls(s)' = Calls(s)
              /\ Results(s)' = IF s = t /\ e.k = "result" /\ e.n \in 1..MaxCalls
                                 THEN Results(s) \cup {e.n} ELSE Results(s)
         /\ \A s \in Int : /\ TurnIsTail(s)' => TurnIsTail(s)
                           /\ SpokenUpTo(s) => SpokenUpTo(s)'
         /\ e.g = gen /\ e.k \notin {"system", "marker"} =>
              \A s \in Int : s >= t => SpokenUpTo(s)'
<1> USE DEF IsAsst
<1>1. \A s \in Steps : \A i \in DOMAIN log[s] :
        i \in DOMAIN log'[s] /\ log'[s][i] = log[s][i]
  BY DEF Inserted
<1>2. \A s \in Steps : \A i \in DOMAIN log'[s] :
        i \in DOMAIN log[s] \/ (s = t /\ i = new /\ log'[s][i] = e)
  BY DEF Inserted
<1>3. new \in DOMAIN log'[t] /\ log'[t][new] = e
  BY DEF Inserted
<1>4. \A s \in Steps : HasTurn(s)' <=> HasTurn(s)
  BY <1>1, <1>2 DEF HasTurn
<1>5. \A s \in Steps : Calls(s)' = Calls(s)
  BY <1>1, <1>2 DEF Calls, AsstKinds
<1>6. \A s \in Steps :
        Results(s)' = IF s = t /\ e.k = "result" /\ e.n \in 1..MaxCalls
                        THEN Results(s) \cup {e.n} ELSE Results(s)
  <2>1. ASSUME NEW s \in Steps, NEW n \in 1..MaxCalls
        PROVE  n \in Results(s)' <=>
                 n \in Results(s) \/ (s = t /\ e.k = "result" /\ e.n = n)
    BY <1>1, <1>2, <1>3 DEF Results
  <2> QED  BY <2>1 DEF Results
<1> DEFINE n == <<t, new>>
<1>7. /\ Rows' = Rows \cup {n} /\ n \notin Rows
      /\ \A r \in Rows \cup {n} : r[1] \in Steps /\ r[2] \in Nat
      /\ \A r \in Rows : Event(r)' = Event(r) /\ (r[1] = n[1] => r[2] < n[2])
      /\ Event(n)' = e /\ n[1] = t
  BY DEF RowInserted
<1> HIDE DEF n
<1>8. Turns' = Turns
  BY <1>7 DEF Turns
<1>9. \A r \in Rows : InContext(r)' <=> InContext(r)
  BY <1>7 DEF InContext
<1>10. Context' = Context \/ Context' = Context \cup {n}
  BY <1>7, <1>9 DEF Context
<1>11. \A r \in Context : r \in Rows
  BY DEF Context
<1>12. \A s \in Int : TurnIsTail(s)' => TurnIsTail(s)
  <2> SUFFICES ASSUME NEW s \in Int, TurnIsTail(s)'  PROVE TurnIsTail(s)
    OBVIOUS
  <2>1. PICK r \in Context' : /\ r[1] <= s /\ Event(r)'.k \in AsstKinds
                              /\ \A q \in Context' : q[1] <= s => ~Earlier(r, q)
    BY DEF TurnIsTail, EndsIn, Earlier
  <2>2. r \in Context /\ Event(r).k \in AsstKinds
    BY <2>1, <1>7, <1>10, <1>11
  <2> QED  BY <2>1, <2>2, <1>10 DEF TurnIsTail, EndsIn
<1>13. \A s \in Int : SpokenUpTo(s) => SpokenUpTo(s)'
  BY <1>7, <1>10, <1>11 DEF SpokenUpTo
<1>14. e.g = gen /\ e.k \notin {"system", "marker"} =>
         \A s \in Int : s >= t => SpokenUpTo(s)'
  <2>1. e.g = gen => n \in Context'
    BY <1>7 DEF Context, InContext
  <2> QED  BY <2>1, <1>7 DEF SpokenUpTo, Steps
<1>15. StreamAtRest' => StreamAtRest
  <2> SUFFICES ASSUME StreamAtRest'  PROVE StreamAtRest
    OBVIOUS
  <2>1. PICK r \in Context' : /\ Event(r)'.k \in NoToolKinds
                              /\ \A q \in Context' : ~Earlier(r, q)
    BY DEF StreamAtRest, EndsIn, Earlier
  <2>2. r \in Context /\ Event(r).k \in NoToolKinds
    BY <2>1, <1>7, <1>10, <1>11 DEF AsstKinds
  <2> QED  BY <2>1, <2>2, <1>10 DEF StreamAtRest, EndsIn
<1>16. \A kind \in NoToolKinds : LastTurn(kind) => LastTurn(kind)'
  <2>1. \A r \in Turns : r \in Rows
    BY DEF Turns
  <2> QED  BY <2>1, <1>7, <1>8 DEF LastTurn, EndsIn, Earlier
<1>17. e.k # "nudgeLimit" => LimitNudges(Context)' = LimitNudges(Context)
  <2>1. LimitNudges(Context)' =
          {r \in Context' : /\ Event(r)'.k = "nudgeLimit"
                            /\ \A q \in Context' : Event(q)'.k = "tools" => Earlier(q, r)}
    BY DEF LimitNudges, Earlier
  <2>2. Event(n)'.k # "tools"
    BY <1>7 DEF AsstKinds
  <2> QED  BY <2>1, <2>2, <1>7, <1>10, <1>11 DEF LimitNudges
<1>18. e.k # "nudgeLimit" => Kept
  <2>1. e.k # "nudgeLimit" => \A s \in Steps : \A i \in DOMAIN log'[s] :
          log'[s][i].k = "nudgeLimit" => i \in DOMAIN log[s]
    BY <1>2
  <2>2. \A s \in Steps : Results(s) \subseteq Results(s)'
    BY <1>6
  <2> QED
    BY <2>1, <2>2, <1>1, <1>4, <1>5, <1>12, <1>13, <1>15, <1>16, <1>17 DEF Kept
<1> QED  BY <1>4, <1>5, <1>6, <1>12, <1>13, <1>14, <1>18

\* No event but a turn disturbs what holds of the durable state.
LEMMA InsertDurable ==
  ASSUME TypeOK, DurableInv, NEW t \in Steps, NEW kind \in Kinds \ AsstKinds,
         NEW m \in 0..MaxCalls, log' = LogWith(t, kind, m), t <= curStep,
         kind = "result" => m \in Calls(t) \ Results(t),
         UNCHANGED <<gen, curStep, lastFin>>,
         kind = "nudgeLimit" => NudgesInBudget'
  PROVE  /\ log' \in [Steps -> Seq(Events)]
         /\ DurableInv'
         /\ kind # "nudgeLimit" => Kept
         /\ t = curStep => ~StreamAtRest'
         /\ kind \notin {"system", "marker"} => \A s \in Int : s >= t => SpokenUpTo(s)'
<1> DEFINE e == [k |-> kind, n |-> m, g |-> gen]
<1>1. e \in Events /\ e.k = kind /\ e.n = m /\ e.g = gen /\ gen \in 0..MaxGen
  BY DEF TypeOK, Events
<1>2. /\ log' \in [Steps -> Seq(Events)]
      /\ \E new \in Nat : Inserted(t, new, e) /\ RowInserted(<<t, new>>, e)
  BY InsertRow
<1>3. PICK new \in Nat : Inserted(t, new, e) /\ RowInserted(<<t, new>>, e)
  BY <1>2
<1> HIDE DEF e
<1>4. /\ kind # "nudgeLimit" => Kept
      /\ \A s \in Steps :
           /\ HasTurn(s)' <=> HasTurn(s)
           /\ Calls(s)' = Calls(s)
           /\ Results(s)' = IF s = t /\ kind = "result" /\ m \in 1..MaxCalls
                              THEN Results(s) \cup {m} ELSE Results(s)
      /\ \A s \in Int : (TurnIsTail(s)' => TurnIsTail(s)) /\ (SpokenUpTo(s) => SpokenUpTo(s)')
      /\ kind \notin {"system", "marker"} => \A s \in Int : s >= t => SpokenUpTo(s)'
  BY <1>1, <1>3, InsertKeeps
<1>5. /\ \A s \in Steps : \A i \in DOMAIN log[s] :
           i \in DOMAIN log'[s] /\ log'[s][i] = log[s][i] /\ i \in Nat
      /\ \A s \in Steps : \A i \in DOMAIN log'[s] :
           i \in DOMAIN log[s] \/ (s = t /\ i = new /\ log'[s][i] = e)
      /\ \A i \in DOMAIN log[t] : i < new
      /\ \A s \in Steps : s # t => DOMAIN log'[s] = DOMAIN log[s]
  BY <1>3, LogShape DEF Inserted
<1>6. curStep \in Steps /\ curStep' = curStep /\ gen' = gen /\ lastFin' = lastFin
      /\ t \in Nat /\ curStep \in Nat /\ lastFin \in Nat
  BY DEF TypeOK, Steps
<1>7. \A s \in Steps : s \in Nat /\ (0 < s => s - 1 \in Steps)
  BY BoundsAssumption DEF Steps
<1>8. StepsInOrder'
  <2> SUFFICES ASSUME NEW s \in Steps
               PROVE  /\ \A i, j \in DOMAIN log'[s] :
                           IsAsst(log'[s][i]) /\ IsAsst(log'[s][j]) => i = j
                      /\ s >= curStep => ~HasTurn(s)'
                      /\ 0 < s /\ s < curStep - 1 => HasTurn(s)'
                      /\ s > curStep => DOMAIN log'[s] = {}
    BY <1>6 DEF StepsInOrder, IsAsst
  <2>1. ASSUME NEW i \in DOMAIN log'[s], NEW j \in DOMAIN log'[s],
               IsAsst(log'[s][i]), IsAsst(log'[s][j])
        PROVE  i = j
    <3>1. i \in DOMAIN log[s] /\ j \in DOMAIN log[s]
      BY <2>1, <1>1, <1>5 DEF IsAsst
    <3>2. log'[s][i] = log[s][i] /\ log'[s][j] = log[s][j]
      BY <3>1, <1>5
    <3> QED  BY <2>1, <3>1, <3>2 DEF DurableInv, StepsInOrder
  <2>2. (s >= curStep => ~HasTurn(s)') /\ (0 < s /\ s < curStep - 1 => HasTurn(s)')
    BY <1>4 DEF DurableInv, StepsInOrder
  <2>3. s > curStep => DOMAIN log'[s] = {}
    BY <1>5, <1>6, <1>7 DEF DurableInv, StepsInOrder
  <2> QED  BY <2>1, <2>2, <2>3
<1>9. GenerationsInOrder'
  <2> SUFFICES ASSUME NEW s \in Steps, NEW i \in DOMAIN log'[s]
               PROVE  /\ log'[s][i].g <= gen
                      /\ 0 < s /\ curStep - 1 <= s => log'[s][i].g = gen
                      /\ 0 < s /\ IsAsst(log'[s][i]) /\ log'[s][i].g = gen =>
                           \A j \in DOMAIN log'[s] : log'[s][j].g = gen
                      /\ 0 < s /\ log'[s][i].g < gen =>
                           \E u \in Steps : \E j \in DOMAIN log'[u] :
                             s <= u /\ log'[u][j].k = "compaction" /\ log'[u][j].g = gen
    BY <1>6 DEF GenerationsInOrder, IsAsst
  <2>1. CASE i \in DOMAIN log[s]
    <3>1. log'[s][i] = log[s][i]
      BY <2>1, <1>5
    <3>2. /\ log[s][i].g <= gen
          /\ 0 < s /\ curStep - 1 <= s => log[s][i].g = gen
      BY <2>1 DEF DurableInv, GenerationsInOrder
    <3>3. 0 < s /\ IsAsst(log[s][i]) /\ log[s][i].g = gen =>
            \A j \in DOMAIN log'[s] : log'[s][j].g = gen
      BY <2>1, <1>1, <1>5 DEF DurableInv, GenerationsInOrder
    <3>4. ASSUME 0 < s, log[s][i].g < gen
          PROVE  \E u \in Steps : \E j \in DOMAIN log'[u] :
                   s <= u /\ log'[u][j].k = "compaction" /\ log'[u][j].g = gen
      <4>1. PICK u \in Steps : \E j \in DOMAIN log[u] :
              s <= u /\ log[u][j].k = "compaction" /\ log[u][j].g = gen
        BY <2>1, <3>4 DEF DurableInv, GenerationsInOrder
      <4>2. PICK j \in DOMAIN log[u] :
              s <= u /\ log[u][j].k = "compaction" /\ log[u][j].g = gen
        BY <4>1
      <4>3. j \in DOMAIN log'[u] /\ log'[u][j] = log[u][j]
        BY <4>2, <1>5
      <4> QED  BY <4>2, <4>3
    <3> QED  BY <3>1, <3>2, <3>3, <3>4
  <2>2. CASE log'[s][i] = e
    BY <2>2, <1>1 DEF IsAsst
  <2> QED  BY <2>1, <2>2, <1>5
<1>10. CallsInOrder'
  <2> SUFFICES ASSUME NEW s \in Steps, NEW i \in DOMAIN log'[s]
               PROVE  /\ log'[s][i].k = "tools" => log'[s][i].n \in 1..MaxCalls
                      /\ log'[s][i].k = "result" =>
                           /\ log'[s][i].n \in 1..MaxCalls
                           /\ \E j \in DOMAIN log'[s] : j < i /\ log'[s][j].k = "tools"
                                                        /\ log'[s][i].n <= log'[s][j].n
                           /\ \A j \in DOMAIN log'[s] :
                                log'[s][j].k = "result" /\ log'[s][j].n = log'[s][i].n => i = j
    BY DEF CallsInOrder
  <2>1. CASE i \in DOMAIN log[s]
    <3>1. log'[s][i] = log[s][i]
      BY <2>1, <1>5
    <3>2. log[s][i].k = "tools" => log[s][i].n \in 1..MaxCalls
      BY <2>1 DEF DurableInv, CallsInOrder
    <3>3. ASSUME log[s][i].k = "result"
          PROVE  /\ log[s][i].n \in 1..MaxCalls
                 /\ \E j \in DOMAIN log'[s] : j < i /\ log'[s][j].k = "tools"
                                              /\ log[s][i].n <= log'[s][j].n
                 /\ \A j \in DOMAIN log'[s] :
                      log'[s][j].k = "result" /\ log'[s][j].n = log[s][i].n => i = j
      <4>1. /\ log[s][i].n \in 1..MaxCalls
            /\ \E j \in DOMAIN log[s] : j < i /\ log[s][j].k = "tools"
                                        /\ log[s][i].n <= log[s][j].n
            /\ \A j \in DOMAIN log[s] :
                 log[s][j].k = "result" /\ log[s][j].n = log[s][i].n => i = j
        BY <2>1, <3>3 DEF DurableInv, CallsInOrder
      <4>2. \E j \in DOMAIN log'[s] : j < i /\ log'[s][j].k = "tools"
                                      /\ log[s][i].n <= log'[s][j].n
        BY <4>1, <1>5
      <4>3. log[s][i].n \in Results(s)
        BY <2>1, <3>3, <4>1 DEF Results
      <4>4. ASSUME NEW j \in DOMAIN log'[s], log'[s][j].k = "result",
                   log'[s][j].n = log[s][i].n
            PROVE  i = j
        <5>1. CASE j \in DOMAIN log[s]
          BY <5>1, <4>4, <4>1, <1>5
        <5>2. CASE s = t /\ log'[s][j] = e
          BY <5>2, <4>3, <4>4, <1>1
        <5> QED  BY <5>1, <5>2, <1>5
      <4> QED  BY <4>1, <4>2, <4>4
    <3> QED  BY <3>1, <3>2, <3>3
  <2>2. CASE s = t /\ i = new /\ log'[s][i] = e
    <3>1. kind # "tools"
      BY DEF AsstKinds
    <3>2. ASSUME kind = "result"
          PROVE  /\ m \in 1..MaxCalls
                 /\ \E j \in DOMAIN log'[s] : j < i /\ log'[s][j].k = "tools"
                                              /\ m <= log'[s][j].n
                 /\ \A j \in DOMAIN log'[s] :
                      log'[s][j].k = "result" /\ log'[s][j].n = m => i = j
      <4>1. m \in 1..MaxCalls /\ m \notin Results(s)
        BY <2>2, <3>2 DEF Calls
      <4>2. \E j \in DOMAIN log[s] : log[s][j].k = "tools" /\ m <= log[s][j].n
        BY <2>2, <3>2 DEF Calls
      <4>3. \E j \in DOMAIN log'[s] : j < i /\ log'[s][j].k = "tools" /\ m <= log'[s][j].n
        BY <4>2, <2>2, <1>5
      <4>4. \A j \in DOMAIN log'[s] :
              log'[s][j].k = "result" /\ log'[s][j].n = m => i = j
        BY <4>1, <2>2, <1>5 DEF Results
      <4> QED  BY <4>1, <4>3, <4>4
    <3> QED  BY <2>2, <3>1, <3>2, <1>1
  <2> QED  BY <2>1, <2>2, <1>5
<1>11. StepsFinished'
  <2>1. \A s \in Steps : Complete(s) => Complete(s)'
    BY <1>4 DEF Complete
  <2> QED  BY <2>1, <1>4, <1>6 DEF DurableInv, StepsFinished
<1>12. StepCallable'
  <2>1. curStep >= 1 => curStep - 1 \in Steps /\ curStep - 1 \in Int
    BY <1>6, <1>7
  <2>2. curStep >= 1 /\ ~HasTurn(curStep - 1)' => ~TurnIsTail(curStep - 1)'
    BY <2>1, <1>4, <1>6 DEF DurableInv, StepCallable
  <2>3. curStep >= 2 => SpokenUpTo(curStep - 1)'
    BY <2>1, <1>4, <1>6 DEF DurableInv, StepCallable
  <2> QED  BY <2>2, <2>3, <1>6 DEF StepCallable
<1>13. NudgesInBudget'
  <2>1. CASE kind = "nudgeLimit"
    BY <2>1
  <2>2. CASE kind # "nudgeLimit"
    <3>1. LimitCount' = LimitCount
      BY <2>2, <1>4 DEF Kept, LimitCount
    <3>2. ASSUME NEW s \in Steps, NEW i \in DOMAIN log'[s], log'[s][i].k = "nudgeLimit"
          PROVE  0 < s /\ (s = curStep => HasTurn(curStep - 1)')
      <4>1. i \in DOMAIN log[s] /\ log[s][i].k = "nudgeLimit"
        BY <3>2, <2>2, <1>1, <1>5
      <4>2. 0 < s /\ (s = curStep => HasTurn(curStep - 1))
        BY <4>1 DEF DurableInv, NudgesInBudget
      <4> QED  BY <4>2, <1>4, <1>7
    <3> QED  BY <3>1, <3>2, <1>6 DEF DurableInv, NudgesInBudget
  <2> QED  BY <2>1, <2>2
<1>14. t = curStep => ~StreamAtRest'
  <2> SUFFICES ASSUME t = curStep, StreamAtRest'  PROVE FALSE
    OBVIOUS
  <2>1. PICK r \in Context' : /\ Event(r)'.k \in NoToolKinds
                              /\ \A q \in Context' : ~Earlier(r, q)
    BY DEF StreamAtRest, EndsIn, Earlier
  <2> DEFINE n == <<t, new>>
  <2>2. /\ Rows' = Rows \cup {n} /\ n[1] = t /\ n[2] = new /\ Event(n)' = e
        /\ \A q \in Rows : Event(q)' = Event(q) /\ (q[1] = t => q[2] < new)
    BY <1>3 DEF RowInserted
  <2> HIDE DEF n
  <2>3. n \in Context'
    BY <2>2, <1>1, <1>6 DEF Context, InContext
  <2>4. r \in Rows
    BY <2>1, <2>2, <1>1 DEF Context, AsstKinds
  <2>5. (Event(r).k \in AsstKinds /\ r[2] < new) \/ r[1] # t
    BY <2>1, <2>2, <2>4 DEF AsstKinds
  <2>6. r[1] \in Steps /\ r[2] \in DOMAIN log[r[1]] /\ Event(r) = log[r[1]][r[2]]
    BY <2>4, LogShape
  <2>7. HasTurn(r[1])
    BY <2>6, <2>1, <2>2, <2>4 DEF HasTurn, IsAsst, AsstKinds
  <2>8. r[1] < curStep
    BY <2>6, <2>7, <1>6, <1>7 DEF DurableInv, StepsInOrder
  <2> QED  BY <2>1, <2>2, <2>3, <2>8 DEF Earlier
<1> QED
  BY <1>2, <1>4, <1>8, <1>9, <1>10, <1>11, <1>12, <1>13, <1>14 DEF DurableInv

\* A step that leaves the log and its cursors alone but the finalized one.
LEMMA SameButCursor ==
  ASSUME DurableInv, UNCHANGED <<log, gen, curStep>>, StepsFinished'
  PROVE  DurableInv'
<1>1. /\ \A s : (HasTurn(s)' <=> HasTurn(s)) /\ Calls(s)' = Calls(s)
      /\ LimitNudges(Context)' = LimitNudges(Context)
      /\ Rows' = Rows /\ \A r : Event(r)' = Event(r) /\ (InContext(r)' <=> InContext(r))
  BY SameLog DEF Kept, Rows, Event, InContext
<1>2. Context' = Context
  BY <1>1 DEF Context
<1>3. \A s : (TurnIsTail(s)' <=> TurnIsTail(s)) /\ (SpokenUpTo(s)' <=> SpokenUpTo(s))
  BY <1>1, <1>2 DEF TurnIsTail, EndsIn, SpokenUpTo
<1>4. curStep' = curStep /\ log' = log /\ gen' = gen /\ LimitCount' = LimitCount
  BY <1>1 DEF LimitCount
<1>5. StepsInOrder'
  BY <1>1, <1>4 DEF DurableInv, StepsInOrder, IsAsst
<1>6. GenerationsInOrder' /\ CallsInOrder'
  BY <1>4 DEF DurableInv, GenerationsInOrder, CallsInOrder, IsAsst
<1>7. StepCallable'
  BY <1>1, <1>3, <1>4 DEF DurableInv, StepCallable
<1>8. NudgesInBudget'
  BY <1>1, <1>4 DEF DurableInv, NudgesInBudget
<1> QED  BY <1>5, <1>6, <1>7, <1>8 DEF DurableInv

\* What is durable stays as it is when no row, marker or step number changes.
LEMMA SameDurable ==
  ASSUME DurableInv, UNCHANGED <<log, gen, curStep, lastFin>>
  PROVE  DurableInv'
<1>1. StepsFinished'
  BY SameLog DEF DurableInv, StepsFinished, Complete
<1> QED  BY <1>1, SameButCursor

\* What a life knows outlives whatever the others write.
LEMMA LifeKept ==
  ASSUME TypeOK, LifeInv, Kept, status' = "ongoing" => status = "ongoing",
         UNCHANGED <<profile, pc, callStep, needsAdvance, reply, nudges, curStep>>,
         pc = "repair" => \A s \in Steps, n \in 1..MaxCalls :
                            <<s, n>> \in orphans' <=> n \in Calls(s)' \ Results(s)'
  PROVE  LifeInv'
<1>1. /\ curStep' = curStep /\ pc' = pc /\ callStep' = callStep /\ reply' = reply
      /\ needsAdvance' = needsAdvance /\ nudges' = nudges /\ profile' = profile
      /\ curStep \in Steps /\ curStep \in Int /\ callStep \in Int
  BY DEF TypeOK, Steps
<1>2. \A s \in Steps : /\ (HasTurn(s)' <=> HasTurn(s)) /\ Calls(s)' = Calls(s)
                       /\ Results(s) \subseteq Results(s)' /\ (Complete(s) => Complete(s)')
  BY DEF Kept, Complete
<1>3. CallsKnown'
  <2>1. pc \in {"tail", "wake", "top", "llm", "count", "verdict"} =>
          \A s \in Steps : Complete(s)'
    BY <1>2 DEF LifeInv, CallsKnown
  <2> QED  BY <2>1, <1>1 DEF CallsKnown
<1>4. PlaceFits'
  <2>1. curStep > 1 => curStep - 1 \in Steps
    BY <1>1, BoundsAssumption DEF Steps
  <2>2. pc \in Deciding => (needsAdvance <=> curStep <= 1 \/ HasTurn(curStep - 1)')
    BY <2>1, <1>1, <1>2 DEF LifeInv, PlaceFits
  <2>3. pc = "llm" => ~HasTurn(callStep)'
    BY <1>2 DEF LifeInv, PlaceFits
  <2>4. pc = "tools" => \E i \in DOMAIN log'[callStep] : log'[callStep][i].k = "tools"
    BY DEF LifeInv, PlaceFits, Kept, Answering
  <2>5. pc \in Booting => \A s \in Steps : ~HasTurn(s)'
    BY <1>2 DEF LifeInv, PlaceFits
  <2> QED  BY <2>2, <2>3, <2>4, <2>5, <1>1 DEF LifeInv, PlaceFits
<1>5. VerdictFits'
  <2>1. pc \in {"count", "verdict"} =>
          \E i \in DOMAIN log'[callStep] : log'[callStep][i].k = reply
    BY DEF LifeInv, VerdictFits, PlaceFits, Kept, Answering
  <2>2. pc \in {"repair", "tail"} /\ reply # "none" => reply \in NoToolKinds
    BY DEF TypeOK
  <2>3. \A kind \in NoToolKinds : LastTurn(kind) => LastTurn(kind)'
    BY DEF Kept
  <2>4. pc \in {"repair", "tail"} /\ reply # "none" => LastTurn(reply) /\ LastTurn(reply)'
    <3>1. ASSUME pc \in {"repair", "tail"}, reply # "none"
          PROVE  LastTurn(reply) /\ LastTurn(reply)'
      <4>1. PICK kind \in NoToolKinds : kind = reply
        BY <3>1, <2>2
      <4>2. LastTurn(kind)
        BY <4>1, <3>1 DEF LifeInv, VerdictFits
      <4>3. LastTurn(kind)'
        BY <4>2, <2>3
      <4> QED  BY <4>1, <4>2, <4>3, <1>1
    <3> QED  BY <3>1
  <2>5. StreamAtRest' => StreamAtRest
    BY DEF Kept
  <2> QED  BY <2>1, <2>4, <2>5, <1>1 DEF LifeInv, VerdictFits
<1>6. SomethingSaid'
  <2>1. \A s \in Int : SpokenUpTo(s) => SpokenUpTo(s)'
    BY DEF Kept
  <2>2. SpokenUpTo(curStep) => SpokenUpTo(curStep)'
    <3>1. PICK c \in Int : c = curStep
      BY <1>1
    <3>2. SpokenUpTo(c) => SpokenUpTo(c)'
      BY <2>1
    <3> QED  BY <3>1, <3>2, <1>1
  <2>3. SpokenUpTo(callStep) => SpokenUpTo(callStep)'
    <3>1. PICK c \in Int : c = callStep
      BY <1>1
    <3>2. SpokenUpTo(c) => SpokenUpTo(c)'
      BY <2>1
    <3> QED  BY <3>1, <3>2, <1>1
  <2> QED  BY <2>2, <2>3, <1>1 DEF LifeInv, SomethingSaid
<1>7. NudgesCounted'
  <2>1. LimitCount' = LimitCount
    BY DEF Kept, LimitCount
  <2>2. ASSUME NEW s \in Steps, NEW i \in DOMAIN log'[s], log'[s][i].k = "nudgeLimit"
        PROVE  pc \notin Booting /\ (pc \in {"llm"} \cup Answering => s < curStep)
    <3>1. i \in DOMAIN log[s] /\ log[s][i].k = "nudgeLimit"
      BY <2>2 DEF Kept
    <3> QED  BY <3>1 DEF LifeInv, NudgesCounted
  <2> QED  BY <2>1, <2>2, <1>1 DEF LifeInv, NudgesCounted
<1> QED  BY <1>3, <1>4, <1>5, <1>6, <1>7 DEF LifeInv

\* There is nothing to know where nobody runs.
LEMMA StopLeavesNothing ==
  ASSUME Stop  PROVE LifeInv'
<1>1. pc' = "down" /\ callStep' = -1 /\ needsAdvance' = TRUE
  BY DEF Stop, FreshLocal
<1>2. CallsKnown' /\ VerdictFits' /\ SomethingSaid' /\ NudgesCounted'
  BY <1>1 DEF CallsKnown, VerdictFits, SomethingSaid, NudgesCounted, Booting,
              Deciding, Answering
<1>3. PlaceFits'
  BY <1>1 DEF PlaceFits, Booting, Deciding, Answering
<1> QED  BY <1>2, <1>3 DEF LifeInv

\* Every view of a turn is of a step that has one.
LEMMA TurnsAreSomewhere ==
  ASSUME TypeOK
  PROVE  /\ StreamAtRest => \E s \in Steps : HasTurn(s)
         /\ \A s \in Int : TurnIsTail(s) => \E u \in Steps : u <= s /\ HasTurn(u)
         /\ \A kind \in AsstKinds : LastTurn(kind) => \E s \in Steps : HasTurn(s)
         /\ \A s \in Steps : ~HasTurn(s) => Calls(s) = {} /\ Complete(s)
<1>1. \A r \in Rows : Event(r).k \in AsstKinds => r[1] \in Steps /\ HasTurn(r[1])
  BY LogShape DEF HasTurn, IsAsst
<1>2. StreamAtRest => \E s \in Steps : HasTurn(s)
  BY <1>1 DEF StreamAtRest, EndsIn, Context, AsstKinds
<1>3. \A s \in Int : TurnIsTail(s) => \E u \in Steps : u <= s /\ HasTurn(u)
  BY <1>1 DEF TurnIsTail, EndsIn, Context
<1>4. \A kind \in AsstKinds : LastTurn(kind) => \E s \in Steps : HasTurn(s)
  BY <1>1 DEF LastTurn, EndsIn, Turns
<1>5. \A s \in Steps : ~HasTurn(s) => Calls(s) = {} /\ Complete(s)
  BY DEF HasTurn, IsAsst, Calls, Complete, AsstKinds
<1> QED  BY <1>2, <1>3, <1>4, <1>5

\* The nudges read back from a log are counted by a number, zero without any.
LEMMA CountTyped ==
  ASSUME TypeOK
  PROVE  /\ IsFiniteSet(Context) /\ LimitCount \in Nat
         /\ (\A s \in Steps : \A i \in DOMAIN log[s] : log[s][i].k # "nudgeLimit")
              => LimitCount = 0
<1>1. Context \subseteq Rows /\ LimitNudges(Context) \subseteq Context
  BY DEF Context, LimitNudges
<1>2. IsFiniteSet(Context) /\ IsFiniteSet(LimitNudges(Context))
  BY <1>1, RowsAreFinite, FS_Subset
<1>3. LimitCount \in Nat
  BY <1>2, FS_CardinalityType DEF LimitCount
<1>4. ASSUME \A s \in Steps : \A i \in DOMAIN log[s] : log[s][i].k # "nudgeLimit"
      PROVE  LimitCount = 0
  <2>1. \A r \in Rows : Event(r).k # "nudgeLimit"
    BY <1>4, LogShape
  <2>2. LimitNudges(Context) = {}
    BY <2>1, <1>1 DEF LimitNudges
  <2> QED  BY <2>2, FS_EmptySet DEF LimitCount
<1> QED  BY <1>2, <1>3, <1>4

-----------------------------------------------------------------------------
\* Bootstrap.

\* While a session is being created nothing is known of turns yet.
LEMMA BootKeeps ==
  ASSUME IInv, Kept, pc \in Booting, pc' \in Booting, UNCHANGED local, SomethingSaid',
         curStep' = IF pc' \in {"first", "noTask"} THEN 1 ELSE 0
  PROVE  LifeInv'
<1>1. \A s \in Steps : ~HasTurn(s) /\ ~HasTurn(s)'
  BY DEF IInv, LifeInv, PlaceFits, Kept
<1>2. pc' \notin Deciding \cup Answering \cup {"llm", "down", "resume"}
  BY DEF Booting, Deciding, Answering
<1>3. callStep' = -1 /\ needsAdvance'
  <2>1. callStep = -1 /\ needsAdvance /\ callStep' = callStep /\ needsAdvance' = needsAdvance
    BY DEF IInv, LifeInv, PlaceFits, Booting, Deciding, local
  <2> QED  BY <2>1
<1>4. CallsKnown' /\ VerdictFits'
  BY <1>2 DEF CallsKnown, VerdictFits, Deciding, Answering
<1>5. PlaceFits'
  BY <1>1, <1>2, <1>3 DEF PlaceFits, Deciding, Answering, Booting
<1>6. NudgesCounted'
  <2>1. \A s \in Steps : \A i \in DOMAIN log[s] : log[s][i].k # "nudgeLimit"
    BY DEF IInv, LifeInv, NudgesCounted
  <2>2. \A s \in Steps : \A i \in DOMAIN log'[s] : log'[s][i].k # "nudgeLimit"
    BY <2>1 DEF Kept
  <2> QED  BY <2>2, <1>2 DEF NudgesCounted
<1> QED  BY <1>4, <1>5, <1>6 DEF LifeInv

\* createSession and the seeds: each stage of the bootstrap keeps the invariant.
LEMMA BootstrapInv ==
  ASSUME IInv, Bootstrap  PROVE IInv'
<1>1. /\ TypeOK /\ DurableInv /\ LifeInv /\ curStep \in Nat /\ 0 \in Steps /\ 1 \in Steps
      /\ \A s \in Steps : s \in Nat
  BY BoundsAssumption DEF IInv, TypeOK, Steps
<1>2. {"system", "task", "input"} \subseteq Kinds \ AsstKinds /\ 0 \in 0..MaxCalls
  BY BoundsAssumption DEF Kinds, AsstKinds, NoToolKinds, UserKinds
<1>3. pc \in Booting => /\ \A s \in Steps : ~HasTurn(s)
                        /\ callStep = -1 /\ needsAdvance
                        /\ \A s \in Steps : \A i \in DOMAIN log[s] : log[s][i].k # "nudgeLimit"
  BY <1>1 DEF LifeInv, PlaceFits, NudgesCounted, Booting, Deciding
<1>4. CASE CreateSession
  <2>1. pc = "create" /\ pc' = "frame" /\ curStep = 0 /\ UNCHANGED <<curStep, gen, lastFin, log>>
    BY <1>1, <1>4 DEF CreateSession, LifeInv, PlaceFits
  <2>2. TypeOK'
    BY <1>1, <1>4 DEF CreateSession, TypeOK, local, others
  <2>3. SomethingSaid'
    BY <2>1 DEF SomethingSaid
  <2>4. UNCHANGED local
    BY <1>4 DEF CreateSession
  <2> QED
    BY <1>1, <2>1, <2>2, <2>3, <2>4, SameLog, SameDurable, BootKeeps DEF IInv, Booting
<1>5. CASE SeedFrame
  <2>1. /\ pc = "frame" /\ pc' = "seed" /\ curStep = 0 /\ UNCHANGED <<curStep, gen, lastFin>>
        /\ log' = LogWith(curStep, "system", 0)
    BY <1>1, <1>5 DEF SeedFrame, AppendEvent, LifeInv, PlaceFits
  <2>2. log' \in [Steps -> Seq(Events)] /\ DurableInv' /\ Kept
    BY <1>1, <1>2, <2>1, InsertDurable
  <2>3. TypeOK'
    BY <1>1, <2>2, <1>5 DEF SeedFrame, TypeOK, local, others
  <2>4. SomethingSaid'
    BY <2>1 DEF SomethingSaid
  <2>5. UNCHANGED local
    BY <1>5 DEF SeedFrame
  <2> QED  BY <1>1, <2>1, <2>2, <2>3, <2>4, <2>5, BootKeeps DEF IInv, Booting
<1>6. CASE SeedTask
  <2>1. /\ pc = "seed" /\ pc' = "recall" /\ curStep = 0
        /\ UNCHANGED <<curStep, gen, lastFin, profile>>
    BY <1>1, <1>6 DEF SeedTask, LifeInv, PlaceFits, others
  <2>2. /\ log' \in [Steps -> Seq(Events)] /\ DurableInv' /\ Kept
        /\ profile = "task" => SpokenUpTo(curStep)'
    <3>1. CASE profile = "task"
      <4>1. log' = LogWith(curStep, "task", 0)
        BY <3>1, <1>6 DEF SeedTask, AppendEvent
      <4>2. /\ log' \in [Steps -> Seq(Events)] /\ DurableInv' /\ Kept
            /\ \A s \in Int : s >= curStep => SpokenUpTo(s)'
        BY <1>1, <1>2, <2>1, <4>1, InsertDurable
      <4>3. SpokenUpTo(0)' /\ curStep' = 0
        BY <4>2, <2>1
      <4> QED  BY <4>2, <4>3
    <3>2. CASE profile # "task"
      <4>1. UNCHANGED log
        BY <3>2, <1>6 DEF SeedTask
      <4> QED  BY <1>1, <2>1, <3>2, <4>1, SameLog, SameDurable DEF TypeOK
    <3> QED  BY <3>1, <3>2
  <2>3. TypeOK'
    BY <1>1, <2>2, <1>6 DEF SeedTask, TypeOK, local, others
  <2>4. SomethingSaid'
    BY <2>1, <2>2 DEF SomethingSaid
  <2>5. UNCHANGED local
    BY <1>6 DEF SeedTask
  <2> QED  BY <1>1, <2>1, <2>2, <2>3, <2>4, <2>5, BootKeeps DEF IInv, Booting
<1>7. CASE SeedRecall
  <2>1. /\ pc = "recall" /\ pc' = "advance" /\ curStep = 0
        /\ UNCHANGED <<curStep, gen, lastFin, profile>>
    BY <1>1, <1>7 DEF SeedRecall, LifeInv, PlaceFits, others
  <2>2. log' \in [Steps -> Seq(Events)] /\ DurableInv' /\ Kept
    <3>1. CASE AppendEvent("system")
      BY <1>1, <1>2, <2>1, <3>1, InsertDurable DEF AppendEvent
    <3>2. CASE UNCHANGED log
      BY <1>1, <2>1, <3>2, SameLog, SameDurable DEF TypeOK
    <3> QED  BY <3>1, <3>2, <1>7 DEF SeedRecall
  <2>3. TypeOK'
    BY <1>1, <2>2, <1>7 DEF SeedRecall, TypeOK, local, others
  <2>4. SomethingSaid'
    <3>1. profile = "task" => SpokenUpTo(0)
      BY <1>1, <2>1 DEF LifeInv, SomethingSaid
    <3>2. profile = "task" => SpokenUpTo(0)'
      BY <3>1, <2>2 DEF Kept
    <3> QED  BY <3>2, <2>1 DEF SomethingSaid
  <2>5. UNCHANGED local
    BY <1>7 DEF SeedRecall
  <2> QED  BY <1>1, <2>1, <2>2, <2>3, <2>4, <2>5, BootKeeps DEF IInv, Booting
<1>8. CASE AdvancePastBootstrap
  <2>1. /\ pc = "advance" /\ pc' = "first" /\ curStep = 0 /\ curStep' = 1
        /\ UNCHANGED <<gen, lastFin, log, profile>>
    BY <1>1, <1>8 DEF AdvancePastBootstrap, LifeInv, PlaceFits, others
  <2>2. /\ Kept /\ \A s : (HasTurn(s)' <=> HasTurn(s)) /\ Calls(s)' = Calls(s)
                          /\ Results(s)' = Results(s)
    BY <2>1, SameLog
  <2>3. /\ \A s \in Steps : ~HasTurn(s)
        /\ \A s \in Steps : \A i \in DOMAIN log[s] : log[s][i].k # "nudgeLimit"
    BY <1>3, <2>1 DEF Booting
  <2>4. StepsInOrder'
    BY <1>1, <2>1, <2>2, <2>3 DEF DurableInv, StepsInOrder, IsAsst
  <2>5. GenerationsInOrder' /\ CallsInOrder'
    BY <1>1, <2>1 DEF DurableInv, GenerationsInOrder, CallsInOrder, StepsInOrder, IsAsst
  <2>6. StepsFinished'
    <3>1. lastFin = 0 /\ lastFin' = 0
      BY <1>1, <2>1 DEF TypeOK, Steps, DurableInv, StepsFinished
    <3> QED  BY <1>1, <2>1, <3>1 DEF StepsFinished
  <2>7. StepCallable'
    <3>1. ~TurnIsTail(0)
      BY <1>1, <2>3, TurnsAreSomewhere
    <3>2. ~TurnIsTail(0)'
      BY <2>2, <3>1 DEF Kept
    <3> QED  BY <2>1, <3>2 DEF StepCallable
  <2>8. NudgesInBudget'
    <3>1. LimitCount = 0
      BY <1>1, <2>3, CountTyped
    <3>2. LimitCount' = 0
      BY <3>1, <2>2 DEF Kept, LimitCount
    <3> QED  BY <3>2, <2>1, <2>3 DEF NudgesInBudget, maxOutputLimitNudges
  <2>9. TypeOK'
    BY <1>1, <2>1, <1>8 DEF AdvancePastBootstrap, TypeOK, local, others
  <2>10. SomethingSaid'
    <3>1. profile = "task" => SpokenUpTo(0)
      BY <1>1, <2>1 DEF LifeInv, SomethingSaid
    <3>2. profile = "task" => SpokenUpTo(1)
      BY <1>1, <3>1, LogShape DEF SpokenUpTo, Context
    <3>3. profile = "task" => SpokenUpTo(1)'
      BY <3>2, <2>2 DEF Kept
    <3> QED  BY <3>3, <2>1 DEF SomethingSaid
  <2>11. UNCHANGED local
    BY <1>8 DEF AdvancePastBootstrap
  <2>12. LifeInv'
    BY <1>1, <2>1, <2>2, <2>10, <2>11, BootKeeps DEF IInv, Booting
  <2> QED
    BY <2>4, <2>5, <2>6, <2>7, <2>8, <2>9, <2>12 DEF IInv, DurableInv
<1>9. CASE SeedFirstMessage
  <2>1. /\ pc = "first" /\ pc' = "noTask" /\ curStep = 1
        /\ UNCHANGED <<curStep, gen, lastFin, profile>>
    BY <1>1, <1>9 DEF SeedFirstMessage, LifeInv, PlaceFits, others
  <2>2. /\ log' \in [Steps -> Seq(Events)] /\ DurableInv' /\ Kept
        /\ profile \in {"task", "chatFirst"} => SpokenUpTo(1)'
    <3>1. CASE profile = "chatFirst"
      <4>1. log' = LogWith(curStep, "input", 0)
        BY <3>1, <1>9 DEF SeedFirstMessage, AppendEvent
      <4>2. /\ log' \in [Steps -> Seq(Events)] /\ DurableInv' /\ Kept
            /\ \A s \in Int : s >= curStep => SpokenUpTo(s)'
        BY <1>1, <1>2, <2>1, <4>1, InsertDurable
      <4> QED  BY <4>2, <2>1
    <3>2. CASE profile # "chatFirst"
      <4>1. UNCHANGED log
        BY <3>2, <1>9 DEF SeedFirstMessage
      <4>2. log' \in [Steps -> Seq(Events)] /\ DurableInv' /\ Kept
        BY <1>1, <2>1, <4>1, SameLog, SameDurable DEF TypeOK
      <4>3. profile = "task" => SpokenUpTo(1)
        BY <1>1, <2>1 DEF LifeInv, SomethingSaid
      <4> QED  BY <4>2, <4>3, <3>2 DEF Kept
    <3> QED  BY <3>1, <3>2
  <2>3. TypeOK'
    BY <1>1, <2>2, <1>9 DEF SeedFirstMessage, TypeOK, local, others
  <2>4. SomethingSaid'
    BY <2>1, <2>2 DEF SomethingSaid
  <2>5. UNCHANGED local
    BY <1>9 DEF SeedFirstMessage
  <2> QED  BY <1>1, <2>1, <2>2, <2>3, <2>4, <2>5, BootKeeps DEF IInv, Booting
<1>10. CASE ParkWithoutTask
  <2>1. /\ pc = "noTask" /\ pc' = "wake" /\ curStep = 1 /\ curStep' = 1
        /\ UNCHANGED <<gen, lastFin, log, profile, callStep, needsAdvance, nudges>>
    BY <1>1, <1>10 DEF ParkWithoutTask, LifeInv, PlaceFits, local, others
  <2>2. TypeOK'
    BY <1>1, <1>10 DEF ParkWithoutTask, TypeOK, local, others
  <2>3. DurableInv'
    BY <1>1, <2>1, SameDurable
  <2>4. /\ Kept
        /\ \A s : (HasTurn(s)' <=> HasTurn(s)) /\ Calls(s)' = Calls(s)
                  /\ Results(s)' = Results(s)
        /\ StreamAtRest' <=> StreamAtRest
    BY <2>1, SameLog
  <2>5. /\ \A s \in Steps : ~HasTurn(s)
        /\ \A s \in Steps : \A i \in DOMAIN log[s] : log[s][i].k # "nudgeLimit"
        /\ callStep = -1 /\ needsAdvance
    BY <1>3, <2>1 DEF Booting
  <2>6. ~StreamAtRest /\ \A s \in Steps : Complete(s)
    BY <1>1, <2>5, TurnsAreSomewhere
  <2>7. CallsKnown'
    BY <2>1, <2>4, <2>6 DEF CallsKnown, Complete
  <2>8. PlaceFits'
    BY <2>1, <2>4, <2>5 DEF PlaceFits, Booting, Deciding, Answering
  <2>9. VerdictFits'
    BY <2>1, <2>4, <2>6 DEF VerdictFits
  <2>10. SomethingSaid'
    <3>1. status' = "ongoing" => profile \in {"task", "chatFirst"}
      BY <1>1, <1>10, ProfilesAssumption DEF ParkWithoutTask, TypeOK
    <3>2. status' = "ongoing" => SpokenUpTo(1)
      BY <3>1, <1>1, <2>1 DEF LifeInv, SomethingSaid
    <3>3. status' = "ongoing" => SpokenUpTo(1)'
      BY <3>2, <2>4 DEF Kept
    <3> QED  BY <3>3, <2>1 DEF SomethingSaid
  <2>11. NudgesCounted'
    <3>1. LimitCount' = 0
      BY <1>1, <2>4, <2>5, CountTyped DEF Kept, LimitCount
    <3>2. nudges' = nudges /\ 0 <= nudges.limit
      BY <1>1, <2>1 DEF TypeOK
    <3> QED  BY <3>1, <3>2, <2>1, <2>5 DEF NudgesCounted, Booting, Answering
  <2> QED
    BY <2>2, <2>3, <2>7, <2>8, <2>9, <2>10, <2>11 DEF IInv, LifeInv
<1> QED
  BY <1>4, <1>5, <1>6, <1>7, <1>8, <1>9, <1>10 DEF Bootstrap

-----------------------------------------------------------------------------
\* Deaths, cancels, revivals and arrivals.

\* A row that is no result leaves the results of every step alone.
LEMMA ResultsOnlyOfResults ==
  ASSUME TypeOK, NEW t \in Steps, NEW kind \in Kinds \ AsstKinds, kind # "result",
         NEW m \in 0..MaxCalls, log' = LogWith(t, kind, m), UNCHANGED gen
  PROVE  \A s \in Steps : Results(s)' = Results(s)
<1> DEFINE e == [k |-> kind, n |-> m, g |-> gen]
<1>1. e \in Events /\ e.k = kind
  BY DEF TypeOK, Events
<1>2. \E new \in Nat : Inserted(t, new, e) /\ RowInserted(<<t, new>>, e)
  BY InsertRow
<1>3. PICK new \in Nat : Inserted(t, new, e) /\ RowInserted(<<t, new>>, e)
  BY <1>2
<1> HIDE DEF e
<1> QED  BY <1>1, <1>3, InsertKeeps

\* A call is about the step before the one that is current.
LEMMA CallStepFits ==
  ASSUME IInv
  PROVE  /\ curStep \in Steps /\ curStep \in Nat
         /\ callStep = -1 \/ (callStep \in Steps /\ callStep = curStep - 1)
         /\ \A s \in Steps : s \in Nat
<1>1. pc \in (Booting \cup Deciding \cup {"down", "resume"}) \cup ({"llm"} \cup Answering)
  BY DEF IInv, TypeOK, Booting, Deciding, Answering
<1>2. callStep = -1 \/ (callStep \in Steps /\ callStep = curStep - 1)
  BY <1>1 DEF IInv, LifeInv, PlaceFits
<1> QED  BY <1>2 DEF IInv, TypeOK, Steps

\* A goroutine that ends leaves well-typed state.
LEMMA StopTyped ==
  ASSUME Stop, UNCHANGED <<profile, curStep, gen>>, TypeOK,
         status' \in {"none", "ongoing", "idle"} \cup Terminal,
         lastFin' \in Steps, log' \in [Steps -> Seq(Events)], cancelling' \in BOOLEAN
  PROVE  TypeOK'
<1>1. /\ pc' = "down" /\ callStep' = -1 /\ needsAdvance' = TRUE /\ reply' = "none"
      /\ orphans' = {} /\ nudges' = [empty |-> 0, limit |-> 0] /\ compactions' = 0
  BY DEF Stop, FreshLocal
<1>2. callStep' \in -1..MaxStep
  BY <1>1, BoundsAssumption
<1>3. /\ nudges' \in [empty : 0..maxConcludeNudges, limit : 0..maxOutputLimitNudges]
      /\ compactions' \in 0..maxConsecutiveCompactions
  BY <1>1 DEF maxConcludeNudges, maxOutputLimitNudges, maxConsecutiveCompactions
<1> QED  BY <1>1, <1>2, <1>3 DEF TypeOK

\* failSession: the marker is written, the status set, the loop gone.
LEMMA FailInv ==
  ASSUME IInv, Fail  PROVE IInv'
<1>1. TypeOK /\ DurableInv /\ Stop /\ UNCHANGED <<curStep, gen, lastFin, profile, cancelling>>
  BY DEF IInv, Fail, others
<1>2. "marker" \in Kinds \ AsstKinds /\ 0 \in 0..MaxCalls
  BY BoundsAssumption DEF Kinds, AsstKinds, NoToolKinds, UserKinds
<1>3. /\ log' \in [Steps -> Seq(Events)] /\ DurableInv'
      /\ status' \in {"none", "ongoing", "idle"} \cup Terminal
  <2>1. CASE status \in Terminal
    <3>1. UNCHANGED <<status, log>>
      BY <2>1 DEF Fail
    <3> QED  BY <3>1, <1>1, SameDurable DEF TypeOK
  <2>2. CASE status \notin Terminal
    <3>1. PICK t \in Steps : t = (IF callStep >= 0 THEN callStep ELSE curStep) /\ t <= curStep
      BY CallStepFits
    <3>2. status' = "crashed" /\ log' = LogWith(t, "marker", 0)
      BY <2>2, <3>1 DEF Fail
    <3>3. log' \in [Steps -> Seq(Events)] /\ DurableInv'
      BY <1>1, <1>2, <3>1, <3>2, InsertDurable
    <3> QED  BY <3>2, <3>3 DEF Terminal
  <2> QED  BY <2>1, <2>2
<1>4. TypeOK'
  BY <1>1, <1>3, StopTyped DEF TypeOK
<1> QED  BY <1>1, <1>3, <1>4, StopLeavesNothing DEF IInv

\* Whatever another party commits to a session at rest, the next life can start from.
LEMMA RespawnInv ==
  ASSUME IInv, Kept, MayRespawn, SpokenUpTo(curStep)', UNCHANGED <<profile, status, curStep>>,
         \A s \in Steps : Results(s)' = Results(s)
  PROVE  LifeInv'
<1>1. TypeOK /\ LifeInv
  BY DEF IInv
<1>2. CASE pc' = pc
  <2>1. UNCHANGED <<callStep, needsAdvance, reply, nudges, orphans>>
    BY DEF MayRespawn, local
  <2>2. pc = "repair" => \A s \in Steps, n \in 1..MaxCalls :
          <<s, n>> \in orphans' <=> n \in Calls(s)' \ Results(s)'
    <3>1. \A s \in Steps : Calls(s)' = Calls(s)
      BY DEF Kept
    <3> QED  BY <1>1, <2>1, <3>1 DEF LifeInv, CallsKnown
  <2> QED  BY <1>1, <1>2, <2>1, <2>2, LifeKept
<1>3. CASE pc = "down" /\ pc' = "resume"
  <2>1. callStep' = -1 /\ needsAdvance'
    <3>1. callStep = -1 /\ needsAdvance
      BY <1>1, <1>3 DEF LifeInv, PlaceFits, Deciding
    <3>2. callStep' = callStep /\ needsAdvance' = needsAdvance
      BY DEF MayRespawn, local
    <3> QED  BY <3>1, <3>2
  <2>2. CallsKnown' /\ VerdictFits'
    BY <1>3 DEF CallsKnown, VerdictFits
  <2>3. PlaceFits'
    BY <1>3, <2>1 DEF PlaceFits, Booting, Deciding, Answering
  <2>4. SomethingSaid'
    BY <1>3 DEF SomethingSaid
  <2>5. NudgesCounted'
    BY <1>3 DEF NudgesCounted, Booting, Deciding, Answering
  <2> QED  BY <2>2, <2>3, <2>4, <2>5 DEF LifeInv
<1> QED  BY <1>2, <1>3 DEF MayRespawn

\* Deaths, cancels, arrivals and recovery, which need not ask the loop.
LEMMA OutsideInv ==
  ASSUME IInv, Outside  PROVE IInv'
<1>1. TypeOK /\ DurableInv /\ LifeInv /\ curStep \in Steps /\ curStep \in Nat
      /\ curStep <= curStep
  BY CallStepFits DEF IInv
<1>2. {"marker", "recover", "input", "notice"} \subseteq Kinds \ AsstKinds /\ 0 \in 0..MaxCalls
  BY BoundsAssumption DEF Kinds, AsstKinds, NoToolKinds, UserKinds
<1>3. CASE Die \/ Interrupt
  <2>1. Stop /\ UNCHANGED <<status, curStep, gen, lastFin, log, profile>>
        /\ cancelling' \in BOOLEAN
    BY <1>1, <1>3 DEF Die, Interrupt, durable, TypeOK
  <2>2. TypeOK'
    BY <1>1, <2>1, StopTyped DEF TypeOK
  <2> QED  BY <1>1, <2>1, <2>2, SameDurable, StopLeavesNothing DEF IInv
<1>4. CASE Cancel
  <2>1. /\ status' = "cancelled" /\ log' = LogWith(curStep, "marker", 0)
        /\ UNCHANGED <<curStep, gen, lastFin, profile, pc, callStep, needsAdvance, reply,
                       orphans, nudges, compactions>>
    BY <1>4 DEF Cancel, AppendEvent, local
  <2>2. log' \in [Steps -> Seq(Events)] /\ DurableInv' /\ Kept
    BY <1>1, <1>2, <2>1, InsertDurable
  <2>3. TypeOK'
    BY <1>1, <1>4, <2>1, <2>2 DEF TypeOK, Terminal, Cancel
  <2>4. \A s \in Steps : Results(s)' = Results(s) /\ Calls(s)' = Calls(s)
    BY <1>1, <1>2, <2>1, <2>2, ResultsOnlyOfResults DEF Kept
  <2>5. pc = "repair" => \A s \in Steps, n \in 1..MaxCalls :
          <<s, n>> \in orphans' <=> n \in Calls(s)' \ Results(s)'
    BY <1>1, <2>1, <2>4 DEF LifeInv, CallsKnown
  <2>6. LifeInv'
    BY <1>1, <2>1, <2>2, <2>5, LifeKept
  <2> QED  BY <2>2, <2>3, <2>6 DEF IInv
<1>5. CASE Recover
  <2>1. /\ MayRespawn /\ pc = "down"
        /\ UNCHANGED <<status, curStep, gen, lastFin, profile, cancelling, callStep,
                       needsAdvance, reply, orphans, nudges, compactions>>
    BY <1>5 DEF Recover, MayRespawn, local
  <2>2. /\ log' \in [Steps -> Seq(Events)] /\ DurableInv' /\ Kept
        /\ SpokenUpTo(curStep)' /\ \A s \in Steps : Results(s)' = Results(s)
    <3>1. CASE StreamAtRest
      <4>1. UNCHANGED log
        BY <3>1, <1>5 DEF Recover
      <4>2. PICK r \in Context : Event(r).k \in NoToolKinds
        BY <3>1 DEF StreamAtRest, EndsIn
      <4>3. r \in Rows /\ r[1] \in Steps /\ r[1] \in Nat /\ HasTurn(r[1])
        BY <1>1, <4>2, LogShape DEF Context, HasTurn, IsAsst, AsstKinds, Steps
      <4>4. r[1] < curStep
        BY <1>1, <4>3 DEF DurableInv, StepsInOrder
      <4>5. SpokenUpTo(curStep)
        BY <4>2, <4>3, <4>4, <1>1 DEF SpokenUpTo, NoToolKinds
      <4>6. PICK c \in Int : c = curStep
        BY <1>1
      <4>7. SpokenUpTo(c)'
        BY <4>1, <4>5, <4>6, <2>1, SameLog DEF Kept
      <4> QED  BY <1>1, <2>1, <4>1, <4>6, <4>7, SameLog, SameDurable DEF TypeOK
    <3>2. CASE ~StreamAtRest
      <4>1. log' = LogWith(curStep, "recover", 0)
        BY <3>2, <1>5 DEF Recover, AppendEvent
      <4>2. /\ log' \in [Steps -> Seq(Events)] /\ DurableInv' /\ Kept
            /\ \A s \in Int : s >= curStep => SpokenUpTo(s)'
        BY <1>1, <1>2, <2>1, <4>1, InsertDurable
      <4>3. PICK c \in Int : c = curStep
        BY <1>1
      <4>4. SpokenUpTo(c)'
        BY <4>2, <4>3
      <4> QED
        BY <1>1, <1>2, <2>1, <4>1, <4>2, <4>3, <4>4, ResultsOnlyOfResults
    <3> QED  BY <3>1, <3>2
  <2>3. TypeOK'
    BY <1>1, <2>1, <2>2 DEF TypeOK, MayRespawn
  <2> QED  BY <2>1, <2>2, <2>3, RespawnInv DEF IInv
<1>6. ASSUME NEW kind \in {"input", "notice"}, Arrive(kind)  PROVE IInv'
  <2>1. /\ log' = LogWith(curStep, kind, 0)
        /\ UNCHANGED <<status, curStep, gen, lastFin, profile, cancelling, callStep,
                       needsAdvance, reply, orphans, nudges, compactions>>
        /\ kind = "input" => MayRespawn
        /\ kind # "input" => UNCHANGED pc
    BY <1>6 DEF Arrive, AppendEvent, MayRespawn, local
  <2>2. kind \in Kinds \ AsstKinds /\ kind # "result" /\ kind # "nudgeLimit"
        /\ kind \notin {"system", "marker"}
    BY <1>2
  <2>3. /\ log' \in [Steps -> Seq(Events)] /\ DurableInv' /\ Kept
        /\ \A s \in Int : s >= curStep => SpokenUpTo(s)'
    BY <1>1, <1>2, <2>1, <2>2, InsertDurable
  <2>4. SpokenUpTo(curStep)'
    <3>1. PICK c \in Int : c = curStep
      BY <1>1
    <3>2. SpokenUpTo(c)'
      BY <2>3, <3>1
    <3> QED  BY <3>1, <3>2, <2>1
  <2>5. \A s \in Steps : Results(s)' = Results(s) /\ Calls(s)' = Calls(s)
    BY <1>1, <1>2, <2>1, <2>2, <2>3, ResultsOnlyOfResults DEF Kept
  <2>6. TypeOK'
    BY <1>1, <2>1, <2>3 DEF TypeOK, MayRespawn
  <2>7. LifeInv'
    <3>1. CASE kind = "input"
      BY <3>1, <2>1, <2>3, <2>4, <2>5, RespawnInv
    <3>2. CASE kind # "input"
      <4>1. pc = "repair" => \A s \in Steps, n \in 1..MaxCalls :
              <<s, n>> \in orphans' <=> n \in Calls(s)' \ Results(s)'
        BY <1>1, <2>1, <2>5 DEF LifeInv, CallsKnown
      <4> QED  BY <1>1, <2>1, <2>3, <3>2, <4>1, LifeKept
    <3> QED  BY <3>1, <3>2
  <2> QED  BY <2>3, <2>6, <2>7 DEF IInv
<1> QED  BY <1>3, <1>4, <1>5, <1>6 DEF Outside

-----------------------------------------------------------------------------
\* What a life finds.

\* Some step of a set is the last.
LEMMA MaxOfSteps ==
  ASSUME NEW S, S \subseteq Steps, S # {}
  PROVE  Max(S) \in S /\ \A y \in S : y <= Max(S)
<1> DEFINE back == {MaxStep - y : y \in S}
           R == OpToRel(<, Nat)
<1>1. MaxStep \in Nat /\ \A y \in S : y \in Nat /\ y <= MaxStep
  BY BoundsAssumption DEF Steps
<1>2. back \subseteq Nat /\ back # {}
  BY <1>1
<1>3. IsWellFoundedOn(R, Nat)
  BY NatLessThanWellFounded
<1> HIDE DEF back
<1>4. \E x \in back : \A y \in back : ~ (<<y, x>> \in R)
  <2> HIDE DEF R
  <2> QED  BY <1>2, <1>3, WFMin
<1>5. PICK x \in back : \A y \in back : ~ (<<y, x>> \in R)
  BY <1>4
<1>6. \A y \in back : x <= y
  <2>1. \A y \in back : x \in Nat /\ y \in Nat /\ ~(y < x)
    BY <1>2, <1>5 DEF OpToRel
  <2> QED  BY <2>1
<1>7. PICK e \in S : x = MaxStep - e
  BY DEF back
<1>8. ASSUME NEW y \in S  PROVE e >= y
  <2>1. MaxStep - y \in back
    BY DEF back
  <2>2. x <= MaxStep - y
    BY <2>1, <1>6
  <2> QED  BY <2>2, <1>1, <1>7
<1>9. Max(S) \in S /\ \A y \in S : Max(S) >= y
  BY <1>8 DEF Max
<1>10. ASSUME NEW y \in S  PROVE y <= Max(S)
  <2>1. Max(S) >= y /\ Max(S) \in Nat /\ y \in Nat
    BY <1>1, <1>9
  <2> QED  BY <2>1
<1> QED  BY <1>9, <1>10

\* The context shows whatever of a step a decision needs: what is open is in
\* the last generation.
LEMMA ContextShowsStep ==
  ASSUME IInv
  PROVE  /\ \A s \in Steps, n \in 1..MaxCalls :
              <<s, n>> \in Orphans <=> n \in Calls(s) \ Results(s)
         /\ MustAdvance <=> curStep <= 1 \/ HasTurn(curStep - 1)
         /\ \A s : HasAssistant(s) => HasTurn(s)
<1>1. DOMAIN log = Steps /\ curStep \in Steps /\ \A s \in Steps : s \in Nat
  BY LogShape, CallStepFits DEF IInv
<1>2. \A s \in Steps : \A i : InContext(<<s, i>>) <=> s = 0 \/ log[s][i].g = gen
  BY DEF InContext, Event
<1>3. ASSUME NEW s \in Steps, NEW n \in 1..MaxCalls
      PROVE  <<s, n>> \in Orphans <=> n \in Calls(s) \ Results(s)
  <2>1. <<s, n>> \in Orphans <=> Declared(s, n) /\ ~Answered(s, n)
    BY <1>1 DEF Orphans
  <2>2. Declared(s, n) => n \in Calls(s)
    BY DEF Declared, Holding, Calls
  <2>3. n \notin Results(s) => ~Answered(s, n)
    BY DEF Answered, Holding, Results
  <2>4. ASSUME Declared(s, n), n \in Results(s)  PROVE Answered(s, n)
    <3>1. PICK i \in DOMAIN log[s] : InContext(<<s, i>>) /\ log[s][i].k = "tools"
      BY <2>4 DEF Declared, Holding
    <3>2. PICK j \in DOMAIN log[s] : log[s][j].k = "result" /\ log[s][j].n = n
      BY <2>4 DEF Results
    <3>3. s = 0 \/ log[s][j].g = gen
      BY <1>1, <1>2, <3>1 DEF IInv, DurableInv, GenerationsInOrder, IsAsst, AsstKinds
    <3>4. InContext(<<s, j>>)
      BY <3>3, <1>2
    <3> QED  BY <3>2, <3>4 DEF Answered, Holding
  <2>5. ASSUME n \in Calls(s), n \notin Results(s)  PROVE Declared(s, n)
    <3>1. PICK i \in DOMAIN log[s] : log[s][i].k = "tools" /\ n <= log[s][i].n
      BY <2>5 DEF Calls
    <3>2. ~(s < curStep - 1)
      BY <2>5 DEF IInv, DurableInv, StepsFinished, Complete
    <3>3. s \in Nat /\ curStep \in Nat
      BY <1>1
    <3>4. s = 0 \/ log[s][i].g = gen
      BY <3>1, <3>2, <3>3 DEF IInv, DurableInv, GenerationsInOrder
    <3>5. InContext(<<s, i>>)
      BY <3>4, <1>2
    <3> QED  BY <3>1, <3>5 DEF Declared, Holding
  <2> QED  BY <2>1, <2>2, <2>3, <2>4, <2>5
<1>4. \A s : HasAssistant(s) => HasTurn(s)
  BY DEF HasAssistant, Holding, HasTurn
<1>5. ASSUME curStep > 1, HasTurn(curStep - 1)  PROVE HasAssistant(curStep - 1)
  <2>1. curStep - 1 \in Steps /\ 0 < curStep - 1 /\ curStep - 1 <= curStep - 1
    BY <1>1, <1>5, BoundsAssumption DEF Steps
  <2>2. PICK i \in DOMAIN log[curStep - 1] : IsAsst(log[curStep - 1][i])
    BY <1>5 DEF HasTurn
  <2>3. log[curStep - 1][i].g = gen
    BY <2>1 DEF IInv, DurableInv, GenerationsInOrder
  <2> QED  BY <2>1, <2>2, <2>3, <1>2 DEF HasAssistant, Holding
<1>6. MustAdvance <=> curStep <= 1 \/ HasTurn(curStep - 1)
  <2>1. curStep <= 1 \/ curStep > 1
    BY <1>1
  <2> QED  BY <2>1, <1>4, <1>5 DEF MustAdvance
<1> QED  BY <1>3, <1>4, <1>6

\* A turn the context ends in is the last of all, and its step is closed.
LEMMA RestingTurnIsLast ==
  ASSUME IInv, StreamAtRest
  PROVE  /\ RestingReply \in NoToolKinds /\ LastTurn(RestingReply)
         /\ curStep <= 1 \/ HasTurn(curStep - 1)
<1>1. TypeOK /\ DurableInv /\ curStep \in Steps /\ \A s \in Steps : s \in Nat
  BY CallStepFits DEF IInv
<1>2. RestingReply \in NoToolKinds /\ EndsIn(Context, {RestingReply})
  <2>1. \E kind \in NoToolKinds : EndsIn(Context, {kind})
    BY DEF StreamAtRest, EndsIn
  <2> QED  BY <2>1 DEF RestingReply
<1>3. PICK kind \in NoToolKinds : kind = RestingReply
  BY <1>2
<1>4. PICK u \in Context : Event(u).k = kind /\ \A q \in Context : ~Earlier(u, q)
  BY <1>2, <1>3 DEF EndsIn
<1>5. /\ u \in Rows /\ u[1] \in Steps /\ u[2] \in DOMAIN log[u[1]]
      /\ Event(u) = log[u[1]][u[2]] /\ u = <<u[1], u[2]>> /\ u[2] \in Nat
  BY <1>1, LogShape DEF Context
<1>6. IsAsst(Event(u)) /\ HasTurn(u[1])
  BY <1>4, <1>5 DEF IsAsst, AsstKinds, HasTurn
<1>7. ASSUME NEW q \in Turns  PROVE ~Earlier(u, q)
  <2> SUFFICES ASSUME Earlier(u, q)  PROVE FALSE
    OBVIOUS
  <2>1. /\ q \in Rows /\ IsAsst(Event(q)) /\ q[1] \in Steps /\ q[2] \in DOMAIN log[q[1]]
        /\ Event(q) = log[q[1]][q[2]] /\ q[2] \in Nat
    BY <1>1, LogShape DEF Turns
  <2>2. q \notin Context
    BY <1>4
  <2>3. q[1] # 0 /\ log[q[1]][q[2]].g # gen
    BY <2>1, <2>2 DEF Context, InContext
  <2>4. log[q[1]][q[2]].g <= gen
    BY <1>1, <2>1 DEF DurableInv, GenerationsInOrder
  <2>5. log[q[1]][q[2]].g \in Int /\ gen \in Int
    <3>1. log[q[1]][q[2]] \in Events
      BY <1>1, <2>1, LogShape
    <3>2. log[q[1]][q[2]].g \in 0..MaxGen /\ gen \in 0..MaxGen
      BY <1>1, <3>1 DEF Events, TypeOK
    <3> QED  BY <3>2
  <2>6. \E t \in Steps : \E j \in DOMAIN log[t] :
          q[1] <= t /\ log[t][j].k = "compaction" /\ log[t][j].g = gen
    <3>1. 0 < q[1] /\ log[q[1]][q[2]].g < gen
      BY <1>1, <2>1, <2>3, <2>4, <2>5
    <3> QED  BY <1>1, <2>1, <3>1 DEF DurableInv, GenerationsInOrder
  <2>7. PICK t \in Steps : \E j \in DOMAIN log[t] :
          q[1] <= t /\ log[t][j].k = "compaction" /\ log[t][j].g = gen
    BY <2>6
  <2>8. PICK j \in DOMAIN log[t] : q[1] <= t /\ log[t][j].g = gen
    BY <2>7
  <2>9. <<t, j>> \in Context
    BY <1>1, <2>8, LogShape DEF Context, InContext
  <2>10. ~(u[1] < t)
    BY <1>4, <2>9 DEF Earlier
  <2>11. u[1] <= q[1]
    BY <1>1, <1>5, <2>1 DEF Earlier
  <2>12. u[1] = q[1]
    <3>1. u[1] \in Nat /\ q[1] \in Nat /\ t \in Nat
      BY <1>1, <1>5, <2>1
    <3> QED  BY <3>1, <2>8, <2>10, <2>11
  <2>13. u[2] = q[2]
    BY <1>1, <1>5, <1>6, <2>1, <2>12 DEF DurableInv, StepsInOrder
  <2> QED  BY <1>1, <1>5, <2>12, <2>13 DEF Earlier
<1>8. LastTurn(RestingReply)
  <2>1. u \in Turns
    BY <1>5, <1>6 DEF Turns
  <2> QED  BY <2>1, <1>3, <1>4, <1>7 DEF LastTurn, EndsIn
<1>9. curStep <= 1 \/ HasTurn(curStep - 1)
  <2> SUFFICES ASSUME curStep > 1, ~HasTurn(curStep - 1)  PROVE FALSE
    BY <1>1
  <2>1. ~TurnIsTail(curStep - 1)
    BY <1>1 DEF DurableInv, StepCallable
  <2>2. u[1] < curStep
    BY <1>1, <1>5, <1>6 DEF DurableInv, StepsInOrder
  <2>3. u[1] <= curStep - 1
    BY <1>1, <1>5, <2>2
  <2>4. TurnIsTail(curStep - 1)
    BY <1>4, <1>6, <2>3 DEF TurnIsTail, EndsIn, IsAsst
  <2> QED  BY <2>1, <2>4
<1> QED  BY <1>2, <1>8, <1>9

-----------------------------------------------------------------------------
\* reconcileResume.

\* The rules by which a new life reads where the old one was.
LEMMA LoadHistoryInv ==
  ASSUME IInv, LoadHistory  PROVE IInv'
<1>1. /\ TypeOK /\ DurableInv /\ LifeInv /\ pc = "resume" /\ pc' = "repair"
      /\ UNCHANGED <<status, curStep, gen, lastFin, log, callStep, compactions, profile,
                     cancelling>>
      /\ orphans' = Orphans /\ reply' = RestingReply /\ needsAdvance' = MustAdvance
      /\ nudges' = [nudges EXCEPT !.limit = NudgesFromHistory]
  BY DEF IInv, LoadHistory, durable, others
<1>2. /\ Kept
      /\ \A s : (HasTurn(s)' <=> HasTurn(s)) /\ Calls(s)' = Calls(s)
                /\ Results(s)' = Results(s)
      /\ StreamAtRest' <=> StreamAtRest
  BY <1>1, SameLog
<1>3. callStep = -1 /\ SpokenUpTo(curStep) /\ curStep \in Steps /\ curStep \in Int
  BY <1>1, CallStepFits DEF LifeInv, PlaceFits, SomethingSaid, Booting, Deciding
<1>4. /\ NudgesFromHistory = LimitCount /\ LimitCount \in Nat
      /\ LimitCount <= maxOutputLimitNudges /\ LimitCount' = LimitCount
  BY <1>1, <1>2, CountTyped
     DEF NudgesFromHistory, LimitCount, DurableInv, NudgesInBudget, Kept
<1>5. nudges' \in [empty : 0..maxConcludeNudges, limit : 0..maxOutputLimitNudges]
      /\ nudges'.limit = LimitCount
  BY <1>1, <1>4 DEF TypeOK, maxOutputLimitNudges
<1>6. RestingReply \in NoToolKinds \cup {"none"} /\ (RestingReply = "none" => ~StreamAtRest)
      /\ (RestingReply # "none" => StreamAtRest)
  BY RestingTurnIsLast DEF RestingReply, NoToolKinds
<1>7. TypeOK'
  <2>1. Orphans \subseteq Steps \X (1..MaxCalls)
    BY <1>1, LogShape DEF Orphans
  <2>2. MustAdvance \in BOOLEAN
    BY DEF MustAdvance, HasAssistant, Holding
  <2>3. needsAdvance' \in BOOLEAN
    BY <1>1, <2>2
  <2> QED  BY <1>1, <1>5, <1>6, <2>1, <2>3 DEF TypeOK
<1>8. DurableInv'
  BY <1>1, SameDurable
<1>9. CallsKnown'
  BY <1>1, <1>2, ContextShowsStep DEF CallsKnown
<1>10. PlaceFits'
  <2>1. needsAdvance' <=> curStep <= 1 \/ HasTurn(curStep - 1)
    BY <1>1, ContextShowsStep
  <2>2. needsAdvance' <=> curStep' <= 1 \/ HasTurn(curStep - 1)'
    BY <1>1, <1>2, <2>1
  <2> QED  BY <1>1, <1>3, <2>2 DEF PlaceFits, Booting, Deciding, Answering
<1>11. VerdictFits'
  <2>1. ASSUME RestingReply # "none"  PROVE LastTurn(reply)' /\ needsAdvance'
    <3>1. RestingReply \in NoToolKinds /\ LastTurn(RestingReply)
          /\ (curStep <= 1 \/ HasTurn(curStep - 1))
      BY <1>6, <2>1, RestingTurnIsLast
    <3>2. PICK kind \in NoToolKinds : kind = RestingReply
      BY <3>1
    <3>3. LastTurn(kind)'
      BY <1>2, <3>1, <3>2 DEF Kept
    <3>4. needsAdvance'
      BY <1>1, <3>1, ContextShowsStep
    <3> QED  BY <3>2, <3>3, <3>4, <1>1
  <2> QED  BY <2>1, <1>1, <1>2, <1>6 DEF VerdictFits
<1>12. SomethingSaid'
  <2>1. PICK c \in Int : c = curStep
    BY <1>3
  <2>2. SpokenUpTo(c)'
    BY <1>2, <1>3, <2>1 DEF Kept
  <2> QED  BY <2>1, <2>2, <1>1 DEF SomethingSaid
<1>13. NudgesCounted'
  <2>1. LimitCount' <= nudges'.limit
    BY <1>4, <1>5
  <2> QED  BY <2>1, <1>1 DEF NudgesCounted, Booting, Answering
<1> QED
  BY <1>7, <1>8, <1>9, <1>10, <1>11, <1>12, <1>13 DEF IInv, LifeInv

\* A result added to a step is one more result there, and none elsewhere.
LEMMA ResultAdded ==
  ASSUME TypeOK, NEW t \in Steps, NEW m \in 1..MaxCalls,
         log' = LogWith(t, "result", m), UNCHANGED gen
  PROVE  \A s \in Steps : /\ Calls(s)' = Calls(s)
                          /\ Results(s)' = IF s = t THEN Results(s) \cup {m} ELSE Results(s)
<1> DEFINE e == [k |-> "result", n |-> m, g |-> gen]
<1>1. e \in Events /\ e.k = "result" /\ e.n = m /\ m \in 0..MaxCalls
  BY BoundsAssumption DEF TypeOK, Events, Kinds
<1>2. \E new \in Nat : Inserted(t, new, e) /\ RowInserted(<<t, new>>, e)
  BY <1>1, InsertRow DEF Kinds
<1>3. PICK new \in Nat : Inserted(t, new, e) /\ RowInserted(<<t, new>>, e)
  BY <1>2
<1>4. e.k \notin AsstKinds
  BY <1>1 DEF AsstKinds, NoToolKinds
<1> HIDE DEF e
<1> QED  BY <1>1, <1>3, <1>4, InsertKeeps

\* repairOrphanToolCalls: an unanswered call gets its error result.
LEMMA RepairOrphanInv ==
  ASSUME IInv, NEW o \in orphans, RepairOrphan(o)  PROVE IInv'
<1>1. /\ TypeOK /\ DurableInv /\ LifeInv /\ pc = "repair"
      /\ UNCHANGED <<status, curStep, gen, lastFin, pc, callStep, needsAdvance, reply,
                     nudges, compactions, profile, cancelling>>
      /\ log' = LogWith(o[1], "result", o[2]) /\ orphans' = orphans \ {o}
  BY DEF IInv, RepairOrphan, others
<1>2. PICK t \in Steps, m \in 1..MaxCalls : o = <<t, m>>
  BY <1>1 DEF TypeOK
<1>3. m \in Calls(t) \ Results(t) /\ log' = LogWith(t, "result", m)
  BY <1>1, <1>2 DEF LifeInv, CallsKnown
<1>4. t <= curStep
  <2>1. HasTurn(t)
    BY <1>3 DEF Calls, HasTurn, IsAsst, AsstKinds
  <2> QED  BY <1>1, <2>1, CallStepFits DEF DurableInv, StepsInOrder
<1>5. "result" \in Kinds \ AsstKinds /\ m \in 0..MaxCalls
  BY BoundsAssumption DEF Kinds, AsstKinds, NoToolKinds
<1>6. log' \in [Steps -> Seq(Events)] /\ DurableInv' /\ Kept
  BY <1>1, <1>3, <1>4, <1>5, InsertDurable
<1>7. TypeOK'
  BY <1>1, <1>6 DEF TypeOK
<1>8. \A s \in Steps, n \in 1..MaxCalls :
        <<s, n>> \in orphans' <=> n \in Calls(s)' \ Results(s)'
  <2>1. \A s \in Steps : /\ Calls(s)' = Calls(s)
                         /\ Results(s)' = IF s = t THEN Results(s) \cup {m} ELSE Results(s)
    BY <1>1, <1>3, ResultAdded
  <2>2. \A s \in Steps, n \in 1..MaxCalls :
          <<s, n>> \in orphans <=> n \in Calls(s) \ Results(s)
    BY <1>1 DEF LifeInv, CallsKnown
  <2>3. \A s \in Steps, n \in 1..MaxCalls :
          <<s, n>> \in orphans' <=> <<s, n>> \in orphans /\ ~(s = t /\ n = m)
    BY <1>1, <1>2
  <2>4. ASSUME NEW s \in Steps, NEW n \in 1..MaxCalls
        PROVE  <<s, n>> \in orphans' <=> n \in Calls(s)' \ Results(s)'
    <3>1. CASE s = t
      BY <2>1, <2>2, <2>3, <3>1
    <3>2. CASE s # t
      BY <2>1, <2>2, <2>3, <3>2
    <3> QED  BY <3>1, <3>2
  <2> QED  BY <2>4
<1>9. LifeInv'
  BY <1>1, <1>6, <1>8, LifeKept
<1> QED  BY <1>6, <1>7, <1>9 DEF IInv

\* The cursor moves past the steps that hold an answer.
LEMMA FinalizeRecoveredInv ==
  ASSUME IInv, FinalizeRecovered  PROVE IInv'
<1> DEFINE S == {lastFin} \cup {s \in Steps : HasAssistant(s)}
<1>1. /\ TypeOK /\ DurableInv /\ LifeInv /\ pc = "repair" /\ orphans = {}
      /\ UNCHANGED <<status, curStep, gen, log, callStep, needsAdvance, reply, orphans,
                     nudges, compactions, profile, cancelling>>
      /\ lastFin' = Max(S)
      /\ pc' = IF reply = "none" THEN "wake" ELSE "tail"
  BY DEF IInv, FinalizeRecovered, local, others
<1>2. /\ Kept
      /\ \A s : (HasTurn(s)' <=> HasTurn(s)) /\ Calls(s)' = Calls(s)
                /\ Results(s)' = Results(s)
      /\ StreamAtRest' <=> StreamAtRest
  BY <1>1, SameLog
<1>3. curStep \in Steps /\ curStep \in Nat /\ \A s \in Steps : s \in Nat
  BY CallStepFits
<1>4. lastFin \in Steps /\ S \subseteq Steps
  BY <1>1 DEF TypeOK
<1>5. lastFin' \in S /\ lastFin' \in Steps
  BY <1>1, <1>4, MaxOfSteps
<1>6. \A s \in Steps : Complete(s)
  BY <1>1 DEF LifeInv, CallsKnown, Complete, Calls
<1>7. StepsFinished'
  <2>1. lastFin' = 0 \/ lastFin' < curStep
    <3>1. CASE lastFin' = lastFin
      BY <1>1, <3>1 DEF DurableInv, StepsFinished
    <3>2. CASE HasAssistant(lastFin')
      <4>1. PICK s \in Steps : s = lastFin' /\ HasAssistant(s)
        BY <1>5, <3>2
      <4>2. ~(s >= curStep)
        BY <1>1, <4>1, ContextShowsStep DEF DurableInv, StepsInOrder
      <4> QED  BY <4>1, <4>2, <1>3
    <3> QED  BY <3>1, <3>2, <1>5
  <2>2. ASSUME NEW s \in Steps, 0 < s, s <= lastFin'  PROVE HasTurn(s)
    <3>1. CASE lastFin' = lastFin
      BY <1>1, <2>2, <3>1 DEF DurableInv, StepsFinished
    <3>2. CASE HasAssistant(lastFin')
      <4>1. PICK f \in Steps : f = lastFin' /\ HasAssistant(f)
        BY <1>5, <3>2
      <4>2. HasTurn(f) /\ ~(f >= curStep)
        BY <1>1, <4>1, ContextShowsStep DEF DurableInv, StepsInOrder
      <4>3. s = f \/ s < curStep - 1
        BY <1>3, <2>2, <4>1, <4>2
      <4> QED  BY <1>1, <2>2, <4>2, <4>3 DEF DurableInv, StepsInOrder
    <3> QED  BY <3>1, <3>2, <1>5
  <2>3. \A s \in Steps : Complete(s)' /\ (HasTurn(s)' <=> HasTurn(s))
    BY <1>2, <1>6 DEF Complete
  <2> QED  BY <2>1, <2>2, <2>3, <1>1 DEF StepsFinished
<1>8. DurableInv'
  BY <1>1, <1>7, SameButCursor
<1>9. TypeOK'
  BY <1>1, <1>5 DEF TypeOK
<1>10. CallsKnown'
  BY <1>1, <1>2, <1>6 DEF CallsKnown, Complete
<1>11. PlaceFits'
  <2>1. callStep = -1 /\ (needsAdvance <=> curStep <= 1 \/ HasTurn(curStep - 1))
    BY <1>1 DEF LifeInv, PlaceFits, Deciding
  <2>2. needsAdvance' <=> curStep' <= 1 \/ HasTurn(curStep - 1)'
    BY <1>1, <1>2, <2>1
  <2> QED  BY <1>1, <2>1, <2>2 DEF PlaceFits, Booting, Deciding, Answering
<1>12. VerdictFits'
  <2>1. reply = "none" => ~StreamAtRest
    BY <1>1 DEF LifeInv, VerdictFits
  <2>2. reply # "none" => LastTurn(reply)' /\ needsAdvance
    <3>1. ASSUME reply # "none"  PROVE LastTurn(reply)' /\ needsAdvance
      <4>1. PICK kind \in NoToolKinds : kind = reply
        BY <1>1, <3>1 DEF TypeOK
      <4>2. LastTurn(kind) /\ needsAdvance
        BY <1>1, <3>1, <4>1 DEF LifeInv, VerdictFits
      <4>3. LastTurn(kind)'
        BY <4>2, <1>2 DEF Kept
      <4> QED  BY <4>1, <4>2, <4>3, <1>1
    <3> QED  BY <3>1
  <2> QED  BY <1>1, <1>2, <2>1, <2>2 DEF VerdictFits
<1>13. SomethingSaid'
  <2>1. SpokenUpTo(curStep)
    BY <1>1 DEF LifeInv, SomethingSaid
  <2>2. PICK c \in Int : c = curStep
    BY <1>3
  <2>3. SpokenUpTo(c)'
    BY <1>2, <2>1, <2>2 DEF Kept
  <2> QED  BY <2>2, <2>3, <1>1 DEF SomethingSaid
<1>14. NudgesCounted'
  <2>1. LimitCount' <= nudges'.limit
    BY <1>1, <1>2 DEF LifeInv, NudgesCounted, Deciding, Kept, LimitCount
  <2> QED  BY <2>1, <1>1 DEF NudgesCounted, Booting, Answering
<1> QED
  BY <1>8, <1>9, <1>10, <1>11, <1>12, <1>13, <1>14 DEF IInv, LifeInv

\* The three stages of reconciliation.
LEMMA ReconcileInv ==
  ASSUME IInv, Reconcile  PROVE IInv'
BY LoadHistoryInv, RepairOrphanInv, FinalizeRecoveredInv DEF Reconcile

-----------------------------------------------------------------------------
\* The turns of a step.

\* The turn is written at the step it was called for, which had none.
LEMMA InsertTurn ==
  ASSUME IInv, pc = "llm", NEW kind \in AsstKinds, NEW m \in 0..MaxCalls,
         kind = "tools" => m \in 1..MaxCalls,
         log' = LogWith(callStep, kind, m), UNCHANGED <<gen, curStep>>
  PROVE  /\ log' \in [Steps -> Seq(Events)]
         /\ StepsInOrder' /\ GenerationsInOrder' /\ CallsInOrder'
         /\ StepCallable' /\ NudgesInBudget'
         /\ \A s \in Steps :
              /\ HasTurn(s)' <=> s = callStep \/ HasTurn(s)
              /\ s # callStep \/ kind # "tools" => Calls(s)' = Calls(s)
              /\ Results(s)' = Results(s)
         /\ \E i \in DOMAIN log'[callStep] : log'[callStep][i].k = kind
         /\ LimitCount' = IF kind = "tools" THEN 0 ELSE LimitCount
         /\ \A s \in Steps : \A i \in DOMAIN log'[s] :
              log'[s][i].k = "nudgeLimit" => 0 < s /\ s < curStep
<1> DEFINE e == [k |-> kind, n |-> m, g |-> gen]
<1>1. TypeOK /\ DurableInv /\ LifeInv
  BY DEF IInv
<1>2. PICK t \in Steps : t = callStep
  BY <1>1 DEF LifeInv, PlaceFits
<1>3. /\ t = curStep - 1 /\ t \in Nat /\ curStep \in Nat /\ curStep \in Steps /\ ~HasTurn(t)
      /\ curStep' = curStep /\ gen' = gen /\ \A s \in Steps : s \in Nat
  BY <1>1, <1>2, CallStepFits DEF LifeInv, PlaceFits
<1>4. e \in Events /\ e.k = kind /\ e.n = m /\ e.g = gen /\ gen \in 0..MaxGen
  BY <1>1 DEF TypeOK, Events, Kinds
<1>5. /\ log' \in [Steps -> Seq(Events)]
      /\ \E new \in Nat : Inserted(t, new, e) /\ RowInserted(<<t, new>>, e)
  BY <1>1, <1>2, InsertRow DEF Kinds
<1>6. PICK new \in Nat : Inserted(t, new, e) /\ RowInserted(<<t, new>>, e)
  BY <1>5
<1>7. kind \notin {"result", "nudgeLimit", "system", "marker"}
  BY DEF AsstKinds, NoToolKinds
<1> HIDE DEF e
<1>8. /\ \A s \in Steps : \A i \in DOMAIN log[s] :
           i \in DOMAIN log'[s] /\ log'[s][i] = log[s][i] /\ i \in Nat
      /\ \A s \in Steps : \A i \in DOMAIN log'[s] :
           i \in DOMAIN log[s] \/ (s = t /\ i = new /\ log'[s][i] = e)
      /\ new \in DOMAIN log'[t] /\ log'[t][new] = e
      /\ \A s \in Steps : s # t => log'[s] = log[s]
  BY <1>1, <1>6, LogShape DEF Inserted
<1>9. \A s \in Steps : HasTurn(s)' <=> s = t \/ HasTurn(s)
  BY <1>4, <1>8 DEF HasTurn, IsAsst
<1>10. \A s \in Steps : /\ s # t \/ kind # "tools" => Calls(s)' = Calls(s)
                        /\ Results(s)' = Results(s)
  BY <1>4, <1>7, <1>8 DEF Calls, Results
<1>11. StepsInOrder'
  <2>1. ASSUME NEW s \in Steps, NEW i \in DOMAIN log'[s], NEW j \in DOMAIN log'[s],
               IsAsst(log'[s][i]), IsAsst(log'[s][j])
        PROVE  i = j
    <3>1. CASE s = t
      BY <2>1, <3>1, <1>3, <1>8 DEF HasTurn
    <3>2. CASE s # t
      BY <2>1, <3>2, <1>1, <1>8 DEF DurableInv, StepsInOrder
    <3> QED  BY <3>1, <3>2
  <2>2. \A s \in Steps : /\ s >= curStep => ~HasTurn(s)'
                         /\ 0 < s /\ s < curStep - 1 => HasTurn(s)'
                         /\ s > curStep => DOMAIN log'[s] = {}
    BY <1>1, <1>3, <1>8, <1>9 DEF DurableInv, StepsInOrder
  <2> QED  BY <2>1, <2>2, <1>3 DEF StepsInOrder, IsAsst
<1>12. GenerationsInOrder'
  <2> SUFFICES ASSUME NEW s \in Steps, NEW i \in DOMAIN log'[s]
               PROVE  /\ log'[s][i].g <= gen
                      /\ 0 < s /\ curStep - 1 <= s => log'[s][i].g = gen
                      /\ 0 < s /\ IsAsst(log'[s][i]) /\ log'[s][i].g = gen =>
                           \A j \in DOMAIN log'[s] : log'[s][j].g = gen
                      /\ 0 < s /\ log'[s][i].g < gen =>
                           \E u \in Steps : \E j \in DOMAIN log'[u] :
                             s <= u /\ log'[u][j].k = "compaction" /\ log'[u][j].g = gen
    BY <1>3 DEF GenerationsInOrder, IsAsst
  <2>1. 0 < t => \A j \in DOMAIN log'[t] : log'[t][j].g = gen
    BY <1>1, <1>3, <1>4, <1>8 DEF DurableInv, GenerationsInOrder
  <2>2. CASE i \in DOMAIN log[s]
    <3>1. log'[s][i] = log[s][i]
      BY <2>2, <1>8
    <3>2. /\ log[s][i].g <= gen
          /\ 0 < s /\ curStep - 1 <= s => log[s][i].g = gen
      BY <2>2, <1>1 DEF DurableInv, GenerationsInOrder
    <3>3. 0 < s /\ IsAsst(log[s][i]) /\ log[s][i].g = gen =>
            \A j \in DOMAIN log'[s] : log'[s][j].g = gen
      <4>1. CASE s = t
        BY <4>1, <2>1
      <4>2. CASE s # t
        BY <4>2, <2>2, <1>1, <1>8 DEF DurableInv, GenerationsInOrder
      <4> QED  BY <4>1, <4>2
    <3>4. ASSUME 0 < s, log[s][i].g < gen
          PROVE  \E u \in Steps : \E j \in DOMAIN log'[u] :
                   s <= u /\ log'[u][j].k = "compaction" /\ log'[u][j].g = gen
      <4>1. PICK u \in Steps : \E j \in DOMAIN log[u] :
              s <= u /\ log[u][j].k = "compaction" /\ log[u][j].g = gen
        BY <2>2, <3>4, <1>1 DEF DurableInv, GenerationsInOrder
      <4>2. PICK j \in DOMAIN log[u] :
              s <= u /\ log[u][j].k = "compaction" /\ log[u][j].g = gen
        BY <4>1
      <4>3. j \in DOMAIN log'[u] /\ log'[u][j] = log[u][j]
        BY <4>2, <1>8
      <4> QED  BY <4>2, <4>3
    <3> QED  BY <3>1, <3>2, <3>3, <3>4
  <2>3. CASE s = t /\ log'[s][i] = e
    BY <2>1, <2>3, <1>4
  <2> QED  BY <2>2, <2>3, <1>8
<1>13. CallsInOrder'
  <2> SUFFICES ASSUME NEW s \in Steps, NEW i \in DOMAIN log'[s]
               PROVE  /\ log'[s][i].k = "tools" => log'[s][i].n \in 1..MaxCalls
                      /\ log'[s][i].k = "result" =>
                           /\ log'[s][i].n \in 1..MaxCalls
                           /\ \E j \in DOMAIN log'[s] : j < i /\ log'[s][j].k = "tools"
                                                        /\ log'[s][i].n <= log'[s][j].n
                           /\ \A j \in DOMAIN log'[s] :
                                log'[s][j].k = "result" /\ log'[s][j].n = log'[s][i].n => i = j
    BY DEF CallsInOrder
  <2>1. CASE i \in DOMAIN log[s]
    <3>1. log'[s][i] = log[s][i]
      BY <2>1, <1>8
    <3>2. log[s][i].k = "tools" => log[s][i].n \in 1..MaxCalls
      BY <2>1, <1>1 DEF DurableInv, CallsInOrder
    <3>3. ASSUME log[s][i].k = "result"
          PROVE  /\ log[s][i].n \in 1..MaxCalls
                 /\ \E j \in DOMAIN log'[s] : j < i /\ log'[s][j].k = "tools"
                                              /\ log[s][i].n <= log'[s][j].n
                 /\ \A j \in DOMAIN log'[s] :
                      log'[s][j].k = "result" /\ log'[s][j].n = log[s][i].n => i = j
      <4>1. /\ log[s][i].n \in 1..MaxCalls
            /\ \E j \in DOMAIN log[s] : j < i /\ log[s][j].k = "tools"
                                        /\ log[s][i].n <= log[s][j].n
            /\ \A j \in DOMAIN log[s] :
                 log[s][j].k = "result" /\ log[s][j].n = log[s][i].n => i = j
        BY <2>1, <3>3, <1>1 DEF DurableInv, CallsInOrder
      <4>2. \E j \in DOMAIN log'[s] : j < i /\ log'[s][j].k = "tools"
                                      /\ log[s][i].n <= log'[s][j].n
        BY <4>1, <1>8
      <4>3. \A j \in DOMAIN log'[s] :
              log'[s][j].k = "result" /\ log'[s][j].n = log[s][i].n => i = j
        BY <4>1, <1>4, <1>7, <1>8
      <4> QED  BY <4>1, <4>2, <4>3
    <3> QED  BY <3>1, <3>2, <3>3
  <2>2. CASE log'[s][i] = e
    BY <2>2, <1>4, <1>7
  <2> QED  BY <2>1, <2>2, <1>8
<1> DEFINE n == <<t, new>>
<1>14. /\ Rows' = Rows \cup {n} /\ n \notin Rows
       /\ \A r \in Rows \cup {n} : r[1] \in Steps /\ r[2] \in Nat
       /\ \A r \in Rows : Event(r)' = Event(r) /\ (r[1] = t => r[2] < new)
       /\ Event(n)' = e /\ n[1] = t /\ n[2] = new
  BY <1>6 DEF RowInserted
<1> HIDE DEF n
<1>15. \A r \in Rows : InContext(r)' <=> InContext(r)
  BY <1>3, <1>14 DEF InContext
<1>16. InContext(n)'
  BY <1>3, <1>4, <1>14 DEF InContext
<1>17. Context' = Context \cup {n} /\ \A r \in Context : r \in Rows
  BY <1>14, <1>15, <1>16 DEF Context
<1>18. StepCallable'
  <2>1. HasTurn(t)'
    BY <1>9
  <2>2. HasTurn(curStep - 1)'
    BY <2>1, <1>3
  <2>3. SpokenUpTo(t)'
    BY <1>3, <1>4, <1>7, <1>14, <1>17 DEF SpokenUpTo
  <2>4. SpokenUpTo(curStep - 1)'
    BY <2>3, <1>3
  <2> QED  BY <2>2, <2>4 DEF StepCallable
<1>19. \A s \in Steps : \A i \in DOMAIN log'[s] :
         log'[s][i].k = "nudgeLimit" => 0 < s /\ s < curStep
  <2>1. \A s \in Steps : \A i \in DOMAIN log[s] :
          log[s][i].k = "nudgeLimit" => 0 < s /\ s < curStep
    BY <1>1 DEF DurableInv, NudgesInBudget, LifeInv, NudgesCounted
  <2> QED  BY <2>1, <1>4, <1>7, <1>8
<1>20. \A r \in Context : Event(r).k = "nudgeLimit" => r[1] <= t /\ ~(t < r[1])
  <2>1. \A r \in Rows : Event(r).k = "nudgeLimit" => r[1] \in Steps /\ r[1] < curStep
    BY <1>1, LogShape DEF LifeInv, NudgesCounted
  <2>2. \A s \in Steps : s < curStep => s <= t /\ ~(t < s)
    BY <1>3
  <2> QED  BY <2>1, <2>2, <1>17
<1>21. LimitNudges(Context)' = IF kind = "tools" THEN {} ELSE LimitNudges(Context)
  <2>1. LimitNudges(Context)' =
          {r \in Context' : /\ Event(r)'.k = "nudgeLimit"
                            /\ \A q \in Context' : Event(q)'.k = "tools" => Earlier(q, r)}
    BY DEF LimitNudges, Earlier
  <2>2. CASE kind = "tools"
    <3>1. ASSUME NEW r \in LimitNudges(Context)'  PROVE FALSE
      <4>1. r \in Context' /\ Event(r)'.k = "nudgeLimit" /\ Earlier(n, r)
        BY <2>1, <2>2, <3>1, <1>4, <1>14, <1>17
      <4>2. r \in Context /\ Event(r).k = "nudgeLimit"
        BY <4>1, <1>4, <1>7, <1>14, <1>17
      <4>3. r[1] = t /\ new < r[2]
        <5>1. ~(t < r[1])
          BY <4>2, <1>20
        <5> QED  BY <4>1, <5>1, <1>14 DEF Earlier
      <4>4. r[2] < new /\ r[2] \in Nat
        BY <4>2, <4>3, <1>14, <1>17
      <4> QED  BY <4>3, <4>4
    <3> QED  BY <2>2, <3>1
  <2>3. CASE kind # "tools"
    BY <2>1, <2>3, <1>4, <1>7, <1>14, <1>17 DEF LimitNudges
  <2> QED  BY <2>2, <2>3
<1>22. LimitCount' = IF kind = "tools" THEN 0 ELSE LimitCount
  BY <1>21, FS_EmptySet DEF LimitCount
<1>23. NudgesInBudget'
  <2>1. LimitCount' <= maxOutputLimitNudges
    BY <1>1, <1>22 DEF DurableInv, NudgesInBudget, maxOutputLimitNudges
  <2>2. \A s \in Steps : s < curStep => s # curStep
    BY <1>3
  <2> QED  BY <2>1, <2>2, <1>3, <1>19 DEF NudgesInBudget
<1>24. \E i \in DOMAIN log'[callStep] : log'[callStep][i].k = kind
  BY <1>2, <1>4, <1>8
<1> QED
  BY <1>2, <1>5, <1>9, <1>10, <1>11, <1>12, <1>13, <1>18, <1>19, <1>22, <1>23, <1>24

\* What arrives at the open step is in the context, behind every turn.
LEMMA ArrivalIsTail ==
  ASSUME IInv, NEW i \in DOMAIN log[curStep]
  PROVE  /\ ~StreamAtRest
         /\ log[curStep][i].k \notin {"system", "marker"} => SpokenUpTo(curStep)
<1> DEFINE n == <<curStep, i>>
<1>1. TypeOK /\ DurableInv /\ curStep \in Steps /\ curStep \in Nat /\ \A s \in Steps : s \in Nat
  BY CallStepFits DEF IInv
<1>2. n \in Rows /\ Event(n) = log[curStep][i] /\ n[1] = curStep
  BY <1>1, LogShape
<1>3. curStep = 0 \/ log[curStep][i].g = gen
  <2>1. curStep - 1 <= curStep /\ (curStep = 0 \/ 0 < curStep)
    BY <1>1
  <2> QED  BY <1>1, <2>1 DEF DurableInv, GenerationsInOrder
<1>4. n \in Context
  BY <1>2, <1>3 DEF Context, InContext
<1> HIDE DEF n
<1>5. ~StreamAtRest
  <2> SUFFICES ASSUME StreamAtRest  PROVE FALSE
    OBVIOUS
  <2>1. PICK r \in Context : Event(r).k \in NoToolKinds /\ \A q \in Context : ~Earlier(r, q)
    BY DEF StreamAtRest, EndsIn
  <2>2. r[1] \in Steps /\ HasTurn(r[1])
    BY <1>1, <2>1, LogShape DEF Context, HasTurn, IsAsst, AsstKinds
  <2>3. r[1] < curStep
    <3>1. PICK s \in Steps : s = r[1] /\ HasTurn(s)
      BY <2>2
    <3>2. ~(s >= curStep) /\ s \in Nat
      BY <1>1, <3>1 DEF DurableInv, StepsInOrder
    <3>3. s < curStep
      BY <1>1, <3>2
    <3> QED  BY <3>1, <3>3
  <2> QED  BY <1>2, <1>4, <2>1, <2>3 DEF Earlier
<1>6. log[curStep][i].k \notin {"system", "marker"} => SpokenUpTo(curStep)
  BY <1>1, <1>2, <1>4 DEF SpokenUpTo
<1> QED  BY <1>5, <1>6

\* Once its calls are answered no tool turn is the last word of the context.
LEMMA AnsweredTurnIsNoTail ==
  ASSUME IInv, ~StreamAtRest, \A s \in Steps : Complete(s)
  PROVE  ~TurnIsTail(curStep)
<1> SUFFICES ASSUME TurnIsTail(curStep)  PROVE FALSE
  OBVIOUS
<1>1. TypeOK /\ DurableInv /\ curStep \in Steps /\ curStep \in Nat /\ \A s \in Steps : s \in Nat
  BY CallStepFits DEF IInv
<1>2. PICK r \in Context : /\ r[1] <= curStep /\ Event(r).k \in AsstKinds
                           /\ \A q \in Context : q[1] <= curStep => ~Earlier(r, q)
  BY DEF TurnIsTail, EndsIn
<1>3. \A q \in Context : q[1] \in Steps /\ q[1] <= curStep
  <2>1. \A q \in Context : q[1] \in Steps /\ q[2] \in DOMAIN log[q[1]]
    BY <1>1, LogShape DEF Context
  <2>2. \A s \in Steps : s > curStep \/ s <= curStep
    BY <1>1
  <2> QED  BY <1>1, <2>1, <2>2 DEF DurableInv, StepsInOrder
<1>4. \A q \in Context : ~Earlier(r, q)
  BY <1>2, <1>3
<1>5. Event(r).k = "tools"
  BY <1>2, <1>4 DEF StreamAtRest, EndsIn, AsstKinds
<1>6. /\ r[1] \in Steps /\ r[2] \in DOMAIN log[r[1]] /\ r[2] \in Nat
      /\ Event(r) = log[r[1]][r[2]] /\ (r[1] = 0 \/ Event(r).g = gen)
  BY <1>1, LogShape DEF Context, InContext
<1>7. log[r[1]][r[2]].n \in 1..MaxCalls
  <2>1. CallsInOrder /\ log[r[1]][r[2]].k = "tools"
    BY <1>1, <1>5, <1>6 DEF DurableInv
  <2> QED  BY <1>6, <2>1 DEF CallsInOrder
<1>8. 1 \in Calls(r[1])
  <2>1. 1 \in 1..MaxCalls /\ 1 <= log[r[1]][r[2]].n
    BY <1>7, BoundsAssumption
  <2> QED  BY <1>5, <1>6, <2>1 DEF Calls
<1>9. PICK j \in DOMAIN log[r[1]] : log[r[1]][j].k = "result"
  BY <1>6, <1>8 DEF Complete, Results
<1>10. PICK c \in DOMAIN log[r[1]] : c < j /\ log[r[1]][c].k = "tools"
  BY <1>1, <1>6, <1>9 DEF DurableInv, CallsInOrder
<1>11. c = r[2]
  BY <1>1, <1>5, <1>6, <1>10 DEF DurableInv, StepsInOrder, IsAsst, AsstKinds
<1>12. r[1] = 0 \/ log[r[1]][j].g = gen
  <2>1. \A s \in Steps : s = 0 \/ 0 < s
    BY <1>1
  <2> QED
    BY <2>1, <1>1, <1>5, <1>6 DEF DurableInv, GenerationsInOrder, IsAsst, AsstKinds
<1>13. <<r[1], j>> \in Context
  BY <1>1, <1>6, <1>12, LogShape DEF Context, InContext
<1> QED  BY <1>4, <1>10, <1>11, <1>13 DEF Earlier

\* A wait that ends with something to answer, or a session that was under way.
LEMMA StartLoopInv ==
  ASSUME IInv, StartLoop  PROVE IInv'
<1>1. /\ TypeOK /\ DurableInv /\ LifeInv /\ pc = "wake" /\ pc' = "top" /\ status' = "ongoing"
      /\ UNCHANGED <<curStep, gen, lastFin, log, callStep, needsAdvance, reply, orphans,
                     nudges, compactions, profile, cancelling>>
      /\ status = "ongoing" \/ HasPendingInput
  BY DEF IInv, StartLoop, local, others
<1>2. /\ Kept
      /\ \A s : (HasTurn(s)' <=> HasTurn(s)) /\ Calls(s)' = Calls(s)
                /\ Results(s)' = Results(s)
      /\ StreamAtRest' <=> StreamAtRest
  BY <1>1, SameLog
<1>3. curStep \in Steps /\ curStep \in Nat
  BY CallStepFits
<1>4. ~StreamAtRest /\ SpokenUpTo(curStep)
  <2>1. CASE status = "ongoing"
    BY <1>1, <2>1 DEF LifeInv, VerdictFits, SomethingSaid
  <2>2. CASE HasPendingInput
    <3>1. PICK s \in curStep..MaxStep : \E i \in DOMAIN log[s] : IsInput(log[s][i])
      BY <2>2 DEF HasPendingInput
    <3>2. s = curStep
      <4>1. s \in Steps /\ s \in Nat /\ DOMAIN log[s] # {} /\ s >= curStep
        BY <1>3, <3>1, BoundsAssumption DEF Steps
      <4> QED  BY <1>1, <1>3, <4>1 DEF DurableInv, StepsInOrder
    <3>3. PICK i \in DOMAIN log[curStep] : log[curStep][i].k \in UserKinds
      BY <3>1, <3>2 DEF IsInput
    <3> QED  BY <3>3, ArrivalIsTail DEF UserKinds
  <2> QED  BY <1>1, <2>1, <2>2
<1>5. TypeOK' /\ DurableInv'
  BY <1>1, SameDurable DEF TypeOK
<1>6. CallsKnown'
  BY <1>1, <1>2 DEF LifeInv, CallsKnown, Complete
<1>7. PlaceFits'
  <2>1. callStep = -1 /\ (needsAdvance <=> curStep <= 1 \/ HasTurn(curStep - 1))
    BY <1>1 DEF LifeInv, PlaceFits, Deciding
  <2>2. needsAdvance' <=> curStep' <= 1 \/ HasTurn(curStep - 1)'
    BY <1>1, <1>2, <2>1
  <2> QED  BY <1>1, <2>1, <2>2 DEF PlaceFits, Booting, Deciding, Answering
<1>8. VerdictFits'
  BY <1>1, <1>2, <1>4 DEF VerdictFits
<1>9. SomethingSaid'
  <2>1. PICK c \in Int : c = curStep
    BY <1>3
  <2>2. SpokenUpTo(c)'
    BY <1>2, <1>4, <2>1 DEF Kept
  <2> QED  BY <2>1, <2>2, <1>1 DEF SomethingSaid
<1>10. NudgesCounted'
  <2>1. LimitCount' <= nudges'.limit
    BY <1>1, <1>2 DEF LifeInv, NudgesCounted, Deciding, Kept, LimitCount
  <2> QED  BY <2>1, <1>1 DEF NudgesCounted, Booting, Answering
<1> QED
  BY <1>5, <1>6, <1>7, <1>8, <1>9, <1>10 DEF IInv, LifeInv

\* A new step is begun before the model is called.
LEMMA AdvanceStepInv ==
  ASSUME IInv, AdvanceStep  PROVE IInv'
<1>1. /\ TypeOK /\ DurableInv /\ LifeInv /\ pc = "top" /\ pc' = "llm" /\ needsAdvance
      /\ UNCHANGED <<status, gen, lastFin, log, needsAdvance, reply, orphans,
                     nudges, compactions, profile, cancelling>>
  BY DEF IInv, AdvanceStep, others
<1>2. PICK c \in Steps : c = curStep
  BY CallStepFits
<1>3. /\ curStep' = c + 1 /\ callStep' = c /\ c \in Nat /\ c + 1 \in Steps /\ c \in Int
      /\ \A s \in Steps : s \in Nat
  BY <1>2, CallStepFits, BoundsAssumption DEF AdvanceStep, Steps
<1>4. /\ Kept
      /\ \A s : (HasTurn(s)' <=> HasTurn(s)) /\ Calls(s)' = Calls(s)
                /\ Results(s)' = Results(s)
  BY <1>1, SameLog
<1>5. /\ \A s \in Steps : Complete(s)
      /\ c <= 1 \/ HasTurn(c - 1)
      /\ ~StreamAtRest /\ SpokenUpTo(c)
      /\ LimitCount <= nudges.limit
  BY <1>1, <1>2 DEF LifeInv, CallsKnown, PlaceFits, VerdictFits, SomethingSaid,
                    NudgesCounted, Deciding
<1>6. ~HasTurn(c) /\ \A s \in Steps : s > c => DOMAIN log[s] = {}
  BY <1>1, <1>2, <1>3 DEF DurableInv, StepsInOrder
<1>7. TypeOK'
  BY <1>1, <1>3, BoundsAssumption DEF TypeOK, Steps
<1>8. StepsInOrder'
  <2>1. \A s \in Steps : /\ s >= c + 1 => ~HasTurn(s)'
                         /\ s > c + 1 => DOMAIN log'[s] = {}
    BY <1>1, <1>2, <1>3, <1>4 DEF DurableInv, StepsInOrder
  <2>2. ASSUME NEW s \in Steps, 0 < s, s < c  PROVE HasTurn(s)'
    <3>1. s < c - 1 \/ (s = c - 1 /\ c > 1)
      BY <1>3, <2>2
    <3> QED  BY <3>1, <2>2, <1>1, <1>2, <1>3, <1>4, <1>5 DEF DurableInv, StepsInOrder
  <2> QED  BY <1>1, <1>3, <2>1, <2>2 DEF DurableInv, StepsInOrder, IsAsst
<1>9. GenerationsInOrder' /\ CallsInOrder'
  BY <1>1, <1>2, <1>3 DEF DurableInv, GenerationsInOrder, CallsInOrder, IsAsst
<1>10. StepsFinished'
  <2>1. lastFin = 0 \/ lastFin < c + 1
    BY <1>1, <1>2, <1>3 DEF DurableInv, StepsFinished, TypeOK
  <2> QED  BY <1>1, <1>3, <1>4, <1>5, <2>1 DEF DurableInv, StepsFinished, Complete
<1>11. ~TurnIsTail(c) /\ ~TurnIsTail(c)' /\ SpokenUpTo(c)'
  BY <1>2, <1>3, <1>4, <1>5, AnsweredTurnIsNoTail DEF Kept
<1>12. StepCallable'
  <2>1. curStep' - 1 = c
    BY <1>3
  <2> QED  BY <2>1, <1>11 DEF StepCallable
<1>13. LimitCount' = LimitCount
  BY <1>4 DEF Kept, LimitCount
<1>14. \A s \in Steps : \A i \in DOMAIN log'[s] :
         log'[s][i].k = "nudgeLimit" => 0 < s /\ s < c + 1
  <2>1. \A s \in Steps : s > c \/ s < c + 1
    BY <1>3
  <2> QED  BY <2>1, <1>1, <1>6 DEF DurableInv, NudgesInBudget
<1>15. NudgesInBudget'
  <2>1. \A s \in Steps : s < c + 1 => s # c + 1
    BY <1>3
  <2> QED  BY <2>1, <1>1, <1>3, <1>13, <1>14 DEF DurableInv, NudgesInBudget
<1>16. CallsKnown' /\ VerdictFits'
  BY <1>1, <1>4, <1>5 DEF CallsKnown, VerdictFits, Complete
<1>17. PlaceFits'
  BY <1>1, <1>3, <1>4, <1>6 DEF PlaceFits, Booting, Deciding, Answering
<1>18. SomethingSaid'
  BY <1>1, <1>3, <1>11 DEF SomethingSaid
<1>19. NudgesCounted'
  BY <1>1, <1>3, <1>5, <1>13, <1>14 DEF NudgesCounted, Booting, Deciding
<1> QED
  BY <1>7, <1>8, <1>9, <1>10, <1>12, <1>15, <1>16, <1>17, <1>18, <1>19
     DEF IInv, DurableInv, LifeInv

\* The model is called again for the step that is open.
LEMMA ReuseStepInv ==
  ASSUME IInv, ReuseStep  PROVE IInv'
<1>1. /\ TypeOK /\ DurableInv /\ LifeInv /\ pc = "top" /\ pc' = "llm"
      /\ ~needsAdvance /\ needsAdvance' = TRUE
      /\ UNCHANGED <<status, curStep, gen, lastFin, log, reply, orphans,
                     nudges, compactions, profile, cancelling>>
  BY DEF IInv, ReuseStep, durable, others
<1>2. curStep \in Steps /\ curStep \in Nat /\ \A s \in Steps : s \in Nat
  BY CallStepFits
<1>3. ~(curStep <= 1) /\ ~HasTurn(curStep - 1)
  BY <1>1 DEF LifeInv, PlaceFits, Deciding
<1>4. PICK c \in Steps : c = curStep - 1
  BY <1>2, <1>3, BoundsAssumption DEF Steps
<1>5. /\ callStep' = c /\ curStep' = curStep /\ ~HasTurn(c) /\ c \in Int
      /\ curStep' - 1 = c /\ curStep >= 2
  BY <1>1, <1>2, <1>3, <1>4 DEF ReuseStep
<1>6. /\ Kept
      /\ \A s : (HasTurn(s)' <=> HasTurn(s)) /\ Calls(s)' = Calls(s)
                /\ Results(s)' = Results(s)
  BY <1>1, SameLog
<1>7. /\ \A s \in Steps : Complete(s)
      /\ LimitCount <= nudges.limit
  BY <1>1 DEF LifeInv, CallsKnown, NudgesCounted, Deciding
<1>8. SpokenUpTo(c)
  BY <1>1, <1>4, <1>5 DEF DurableInv, StepCallable
<1>9. \A s \in Steps : \A i \in DOMAIN log[s] :
        log[s][i].k = "nudgeLimit" => s < curStep
  <2>1. ASSUME NEW s \in Steps, NEW i \in DOMAIN log[s], log[s][i].k = "nudgeLimit"
        PROVE  s < curStep
    <3>1. s # curStep
      BY <1>1, <1>3, <2>1 DEF DurableInv, NudgesInBudget
    <3>2. ~(s > curStep)
      BY <1>1, <2>1 DEF DurableInv, StepsInOrder
    <3> QED  BY <3>1, <3>2, <1>2
  <2> QED  BY <2>1
<1>10. TypeOK' /\ DurableInv'
  <2>1. c \in -1..MaxStep
    BY <1>2, <1>4, BoundsAssumption DEF Steps
  <2> QED  BY <2>1, <1>1, <1>5, SameDurable DEF TypeOK
<1>11. CallsKnown' /\ VerdictFits'
  BY <1>1, <1>6, <1>7 DEF CallsKnown, VerdictFits, Complete
<1>12. PlaceFits'
  BY <1>1, <1>5, <1>6, <1>4 DEF PlaceFits, Booting, Deciding, Answering
<1>13. SomethingSaid'
  <2>1. SpokenUpTo(c)'
    BY <1>5, <1>6, <1>8 DEF Kept
  <2> QED  BY <1>1, <1>5, <2>1 DEF SomethingSaid
<1>14. NudgesCounted'
  <2>1. LimitCount' <= nudges'.limit
    BY <1>1, <1>6, <1>7 DEF Kept, LimitCount
  <2> QED  BY <2>1, <1>1, <1>9 DEF NudgesCounted, Booting
<1> QED
  BY <1>10, <1>11, <1>12, <1>13, <1>14 DEF IInv, LifeInv

\* The step being called is not finalized.
LEMMA CallStepIsOpen ==
  ASSUME IInv, pc = "llm"
  PROVE  /\ callStep \in Steps /\ callStep \in Nat /\ callStep = curStep - 1
         /\ callStep < curStep /\ (callStep = 0 \/ lastFin < callStep)
<1>1. callStep \in Steps /\ callStep = curStep - 1 /\ ~HasTurn(callStep)
  BY DEF IInv, LifeInv, PlaceFits
<1>2. callStep \in Nat /\ curStep \in Nat /\ lastFin \in Nat
  BY <1>1, CallStepFits DEF IInv, TypeOK, Steps
<1>3. ~(0 < callStep /\ callStep <= lastFin)
  BY <1>1 DEF IInv, DurableInv, StepsFinished
<1> QED  BY <1>1, <1>2, <1>3

\* A turn with calls opens them all.
LEMMA AnswerWithToolsInv ==
  ASSUME IInv, NEW m \in 1..MaxCalls, AnswerWithTools(m)  PROVE IInv'
<1>1. /\ TypeOK /\ DurableInv /\ LifeInv /\ pc = "llm" /\ pc' = "tools"
      /\ UNCHANGED <<status, curStep, gen, lastFin, callStep, needsAdvance, reply,
                     orphans, profile, cancelling>>
      /\ log' = LogWith(callStep, "tools", m)
      /\ nudges' = [empty |-> 0, limit |-> 0] /\ compactions' = 0
  BY DEF IInv, AnswerWithTools, others
<1>2. /\ callStep \in Steps /\ callStep \in Nat /\ callStep = curStep - 1
      /\ callStep < curStep /\ (callStep = 0 \/ lastFin < callStep)
  BY <1>1, CallStepIsOpen
<1>3. /\ log' \in [Steps -> Seq(Events)]
      /\ StepsInOrder' /\ GenerationsInOrder' /\ CallsInOrder'
      /\ StepCallable' /\ NudgesInBudget'
      /\ \A s \in Steps : /\ HasTurn(s)' <=> s = callStep \/ HasTurn(s)
                          /\ s # callStep => Calls(s)' = Calls(s)
                          /\ Results(s)' = Results(s)
      /\ \E i \in DOMAIN log'[callStep] : log'[callStep][i].k = "tools"
      /\ LimitCount' = 0
      /\ \A s \in Steps : \A i \in DOMAIN log'[s] :
           log'[s][i].k = "nudgeLimit" => 0 < s /\ s < curStep
  <2>1. "tools" \in AsstKinds /\ m \in 0..MaxCalls
    BY BoundsAssumption DEF AsstKinds
  <2> QED  BY <1>1, <2>1, InsertTurn
<1>4. StepsFinished'
  <2>1. \A s \in Steps : s # callStep /\ Complete(s) => Complete(s)'
    BY <1>3 DEF Complete
  <2>2. \A s \in Steps : 0 < s /\ s <= lastFin => s # callStep
    BY <1>1, <1>2 DEF TypeOK, Steps
  <2>3. \A s \in Steps : s < curStep - 1 => s # callStep
    BY <1>2, CallStepFits
  <2> QED  BY <1>1, <1>3, <2>1, <2>2, <2>3 DEF DurableInv, StepsFinished
<1>5. TypeOK'
  BY <1>1, <1>3 DEF TypeOK, maxConcludeNudges, maxOutputLimitNudges,
                    maxConsecutiveCompactions
<1>6. CallsKnown' /\ VerdictFits' /\ SomethingSaid'
  BY <1>1 DEF CallsKnown, VerdictFits, SomethingSaid
<1>7. PlaceFits'
  <2>1. needsAdvance
    BY <1>1 DEF LifeInv, PlaceFits, Deciding
  <2> QED  BY <1>1, <1>2, <1>3, <2>1 DEF PlaceFits, Booting, Deciding, Answering
<1>8. NudgesCounted'
  BY <1>1, <1>3 DEF NudgesCounted, Booting
<1> QED
  BY <1>3, <1>4, <1>5, <1>6, <1>7, <1>8 DEF IInv, DurableInv, LifeInv

\* A turn without calls finalizes its step.
LEMMA AnswerWithoutToolsInv ==
  ASSUME IInv, NEW kind \in NoToolKinds, AnswerWithoutTools(kind)  PROVE IInv'
<1>1. /\ TypeOK /\ DurableInv /\ LifeInv /\ pc = "llm" /\ pc' = "count"
      /\ UNCHANGED <<status, curStep, gen, callStep, needsAdvance,
                     orphans, nudges, profile, cancelling>>
      /\ log' = LogWith(callStep, kind, 0) /\ lastFin' = Max({lastFin, callStep})
      /\ reply' = kind /\ compactions' = 0
  BY DEF IInv, AnswerWithoutTools, others
<1>2. /\ callStep \in Steps /\ callStep \in Nat /\ callStep = curStep - 1
      /\ callStep < curStep
  BY <1>1, CallStepIsOpen
<1>3. /\ log' \in [Steps -> Seq(Events)]
      /\ StepsInOrder' /\ GenerationsInOrder' /\ CallsInOrder'
      /\ StepCallable' /\ NudgesInBudget'
      /\ \A s \in Steps : /\ HasTurn(s)' <=> s = callStep \/ HasTurn(s)
                          /\ Calls(s)' = Calls(s) /\ Results(s)' = Results(s)
      /\ \E i \in DOMAIN log'[callStep] : log'[callStep][i].k = kind
      /\ LimitCount' = LimitCount
      /\ \A s \in Steps : \A i \in DOMAIN log'[s] :
           log'[s][i].k = "nudgeLimit" => 0 < s /\ s < curStep
  <2>1. kind \in AsstKinds /\ 0 \in 0..MaxCalls /\ kind # "tools"
    BY BoundsAssumption DEF AsstKinds, NoToolKinds
  <2> QED  BY <1>1, <2>1, InsertTurn
<1>4. lastFin' \in {lastFin, callStep} /\ lastFin' \in Steps
  <2>1. {lastFin, callStep} \subseteq Steps
    BY <1>1, <1>2 DEF TypeOK
  <2> QED  BY <2>1, <1>1, MaxOfSteps
<1>5. \A s \in Steps : Complete(s)'
  BY <1>1, <1>3 DEF LifeInv, CallsKnown, Complete
<1>6. StepsFinished'
  <2>1. lastFin' = 0 \/ lastFin' < curStep
    BY <1>1, <1>2, <1>4 DEF DurableInv, StepsFinished
  <2>2. ASSUME NEW s \in Steps, 0 < s, s <= lastFin'  PROVE HasTurn(s)'
    <3>1. CASE lastFin' = lastFin
      BY <1>1, <1>3, <2>2, <3>1 DEF DurableInv, StepsFinished
    <3>2. CASE lastFin' = callStep
      <4>1. s = callStep \/ s < curStep - 1
        BY <1>2, <2>2, <3>2, CallStepFits
      <4> QED  BY <4>1, <2>2, <1>1, <1>3 DEF DurableInv, StepsInOrder
    <3> QED  BY <3>1, <3>2, <1>4
  <2> QED  BY <1>1, <1>5, <2>1, <2>2 DEF StepsFinished
<1>7. TypeOK'
  BY <1>1, <1>3, <1>4 DEF TypeOK, maxConsecutiveCompactions
<1>8. CallsKnown' /\ SomethingSaid'
  BY <1>1, <1>5 DEF CallsKnown, SomethingSaid
<1>9. VerdictFits'
  BY <1>1, <1>3 DEF VerdictFits
<1>10. PlaceFits'
  <2>1. needsAdvance
    BY <1>1 DEF LifeInv, PlaceFits, Deciding
  <2> QED  BY <1>1, <1>2, <1>3, <2>1 DEF PlaceFits, Booting, Deciding, Answering
<1>11. NudgesCounted'
  <2>1. LimitCount <= nudges.limit
    BY <1>1 DEF LifeInv, NudgesCounted
  <2> QED  BY <2>1, <1>1, <1>3 DEF NudgesCounted, Booting
<1> QED
  BY <1>3, <1>6, <1>7, <1>8, <1>9, <1>10, <1>11 DEF IInv, DurableInv, LifeInv

\* The context shows the whole step of the turn that is being carried out.
LEMMA AnsweringStepShows ==
  ASSUME IInv, pc \in Answering
  PROVE  /\ callStep \in Steps /\ callStep \in Nat /\ callStep = curStep - 1
         /\ callStep < curStep
         /\ \A i \in DOMAIN log[callStep] : InContext(<<callStep, i>>)
         /\ \A n \in 1..MaxCalls : /\ Declared(callStep, n) <=> n \in Calls(callStep)
                                   /\ Answered(callStep, n) <=> n \in Results(callStep)
         /\ SpokenUpTo(curStep) /\ HasTurn(callStep)
<1>1. TypeOK /\ GenerationsInOrder /\ callStep \in Steps /\ callStep = curStep - 1
  BY DEF IInv, DurableInv, LifeInv, PlaceFits
<1>2. callStep \in Nat /\ curStep \in Nat /\ callStep < curStep
  BY <1>1, CallStepFits
<1>3. ASSUME NEW i \in DOMAIN log[callStep]  PROVE InContext(<<callStep, i>>)
  <2>1. callStep = 0 \/ log[callStep][i].g = gen
    <3>1. callStep = 0 \/ (0 < callStep /\ curStep - 1 <= callStep)
      BY <1>1, <1>2
    <3> QED  BY <1>1, <3>1 DEF GenerationsInOrder
  <2> QED  BY <2>1 DEF InContext, Event
<1>4. \A n \in 1..MaxCalls : /\ Declared(callStep, n) <=> n \in Calls(callStep)
                             /\ Answered(callStep, n) <=> n \in Results(callStep)
  BY <1>3 DEF Declared, Answered, Holding, Calls, Results
<1>5. PICK i \in DOMAIN log[callStep] : log[callStep][i].k \in AsstKinds
  BY DEF IInv, LifeInv, PlaceFits, VerdictFits, Answering, AsstKinds
<1>6. HasTurn(callStep)
  BY <1>5 DEF HasTurn, IsAsst
<1>7. SpokenUpTo(curStep)
  <2> DEFINE r == <<callStep, i>>
  <2>1. r \in Rows /\ Event(r) = log[callStep][i] /\ r[1] = callStep
    BY <1>1, <1>5, LogShape
  <2>2. r \in Context
    BY <1>3, <1>5, <2>1 DEF Context
  <2>3. r[1] <= curStep /\ Event(r).k \notin {"system", "marker"}
    BY <1>2, <1>5, <2>1 DEF AsstKinds, NoToolKinds
  <2> QED  BY <2>2, <2>3 DEF SpokenUpTo
<1> QED  BY <1>1, <1>2, <1>3, <1>4, <1>6, <1>7

\* The result of one call is committed.
LEMMA AppendResultInv ==
  ASSUME IInv, NEW m \in 1..MaxCalls, AppendResult(m)  PROVE IInv'
<1>1. /\ TypeOK /\ DurableInv /\ LifeInv /\ pc = "tools"
      /\ UNCHANGED <<status, curStep, gen, lastFin, pc, callStep, needsAdvance, reply,
                     orphans, nudges, compactions, profile, cancelling>>
      /\ log' = LogWith(callStep, "result", m)
      /\ Declared(callStep, m) /\ ~Answered(callStep, m)
  BY DEF IInv, AppendResult, local, others
<1>2. PICK t \in Steps : t = callStep /\ t <= curStep
  <2>1. callStep \in Steps /\ callStep \in Nat /\ callStep < curStep /\ curStep \in Nat
    BY <1>1, AnsweringStepShows, CallStepFits DEF Answering
  <2>2. callStep <= curStep
    BY <2>1
  <2> QED  BY <2>1, <2>2
<1>3. m \in Calls(t) \ Results(t) /\ log' = LogWith(t, "result", m)
  BY <1>1, <1>2, AnsweringStepShows DEF Answering
<1>4. "result" \in Kinds \ AsstKinds /\ m \in 0..MaxCalls
  BY BoundsAssumption DEF Kinds, AsstKinds, NoToolKinds
<1>5. log' \in [Steps -> Seq(Events)] /\ DurableInv' /\ Kept
  BY <1>1, <1>2, <1>3, <1>4, InsertDurable
<1>6. TypeOK'
  BY <1>1, <1>5 DEF TypeOK
<1>7. LifeInv'
  BY <1>1, <1>5, LifeKept
<1> QED  BY <1>5, <1>6, <1>7 DEF IInv

\* With its last result a step is finalized.
LEMMA FinishToolsInv ==
  ASSUME IInv, FinishTools  PROVE IInv'
<1>1. /\ TypeOK /\ DurableInv /\ LifeInv /\ pc = "tools" /\ pc' = "top"
      /\ UNCHANGED <<status, curStep, gen, log, needsAdvance, reply, orphans,
                     nudges, compactions, profile, cancelling>>
      /\ lastFin' = Max({lastFin, callStep}) /\ callStep' = -1
      /\ \A n \in 1..MaxCalls : Declared(callStep, n) => Answered(callStep, n)
  BY DEF IInv, FinishTools, others
<1>2. PICK t \in Steps : t = callStep
  BY <1>1, AnsweringStepShows DEF Answering
<1>3. /\ t = curStep - 1 /\ t \in Nat /\ t < curStep /\ curStep \in Nat /\ curStep \in Int
      /\ \A i \in DOMAIN log[t] : InContext(<<t, i>>)
      /\ Calls(t) \subseteq Results(t) /\ SpokenUpTo(curStep) /\ HasTurn(t)
      /\ \A s \in Steps : s \in Nat
  BY <1>1, <1>2, AnsweringStepShows, CallStepFits DEF Answering, Calls
<1>4. /\ Kept
      /\ \A s : (HasTurn(s)' <=> HasTurn(s)) /\ Calls(s)' = Calls(s)
                /\ Results(s)' = Results(s)
      /\ StreamAtRest' <=> StreamAtRest
  BY <1>1, SameLog
<1>5. \A s \in Steps : Complete(s)
  <2>1. ASSUME NEW s \in Steps  PROVE Complete(s)
    <3>1. s < curStep - 1 \/ s = t \/ s >= curStep
      BY <1>3
    <3>2. s >= curStep => Complete(s)
      BY <1>1, TurnsAreSomewhere DEF DurableInv, StepsInOrder
    <3> QED  BY <3>1, <3>2, <1>1, <1>3 DEF DurableInv, StepsFinished, Complete
  <2> QED  BY <2>1
<1>6. lastFin' \in {lastFin, t} /\ lastFin' \in Steps
  <2>1. {lastFin, t} \subseteq Steps
    BY <1>1 DEF TypeOK
  <2> QED  BY <2>1, <1>1, <1>2, MaxOfSteps
<1>7. StepsFinished'
  <2>1. lastFin' = 0 \/ lastFin' < curStep
    BY <1>1, <1>3, <1>6 DEF DurableInv, StepsFinished
  <2>2. ASSUME NEW s \in Steps, 0 < s, s <= lastFin'  PROVE HasTurn(s)'
    <3>1. CASE lastFin' = lastFin
      BY <1>1, <1>4, <2>2, <3>1 DEF DurableInv, StepsFinished
    <3>2. CASE lastFin' = t
      <4>1. s = t \/ s < curStep - 1
        BY <1>3, <2>2, <3>2
      <4> QED  BY <4>1, <2>2, <1>1, <1>3, <1>4 DEF DurableInv, StepsInOrder
    <3> QED  BY <3>1, <3>2, <1>6
  <2> QED  BY <1>1, <1>4, <1>5, <2>1, <2>2 DEF StepsFinished, Complete
<1>8. DurableInv'
  BY <1>1, <1>7, SameButCursor
<1>9. TypeOK'
  <2>1. -1 \in -1..MaxStep
    BY BoundsAssumption
  <2> QED  BY <2>1, <1>1, <1>6 DEF TypeOK
<1>10. ~StreamAtRest
  <2> SUFFICES ASSUME StreamAtRest  PROVE FALSE
    OBVIOUS
  <2>1. PICK r \in Context : Event(r).k \in NoToolKinds /\ \A q \in Context : ~Earlier(r, q)
    BY DEF StreamAtRest, EndsIn
  <2>2. /\ r[1] \in Steps /\ r[2] \in DOMAIN log[r[1]] /\ Event(r) = log[r[1]][r[2]]
        /\ r \in Rows
    BY <1>1, <2>1, LogShape DEF Context
  <2>3. IsAsst(log[r[1]][r[2]]) /\ HasTurn(r[1])
    BY <2>1, <2>2 DEF HasTurn, IsAsst, AsstKinds
  <2>4. ~(r[1] >= curStep)
    BY <1>1, <2>2, <2>3 DEF DurableInv, StepsInOrder
  <2>5. PICK i \in DOMAIN log[t] : log[t][i].k = "tools"
    BY <1>1, <1>2 DEF LifeInv, PlaceFits
  <2>6. <<t, i>> \in Context
    BY <1>1, <1>3, LogShape DEF Context
  <2>7. r[1] # t
    <3> SUFFICES ASSUME r[1] = t  PROVE FALSE
      OBVIOUS
    <3>1. r[2] = i
      BY <1>1, <2>2, <2>3, <2>5 DEF DurableInv, StepsInOrder, IsAsst, AsstKinds
    <3> QED  BY <3>1, <2>1, <2>2, <2>5 DEF NoToolKinds
  <2>8. r[1] < t
    <3>1. r[1] \in Nat
      BY <1>3, <2>2
    <3> QED  BY <3>1, <1>3, <2>4, <2>7
  <2> QED  BY <2>1, <2>6, <2>8 DEF Earlier
<1>11. CallsKnown'
  BY <1>1, <1>4, <1>5 DEF CallsKnown, Complete
<1>12. PlaceFits'
  <2>1. needsAdvance
    BY <1>1 DEF LifeInv, PlaceFits, Deciding
  <2>2. HasTurn(curStep - 1)' /\ curStep' = curStep
    BY <1>1, <1>3, <1>4
  <2> QED  BY <1>1, <2>1, <2>2 DEF PlaceFits, Booting, Deciding, Answering
<1>13. VerdictFits'
  BY <1>1, <1>4, <1>10 DEF VerdictFits
<1>14. SomethingSaid'
  <2>1. PICK c \in Int : c = curStep
    BY <1>3
  <2>2. SpokenUpTo(c)'
    BY <1>3, <1>4, <2>1 DEF Kept
  <2> QED  BY <2>1, <2>2, <1>1 DEF SomethingSaid
<1>15. NudgesCounted'
  <2>1. LimitCount' <= nudges'.limit
    BY <1>1, <1>4 DEF LifeInv, NudgesCounted, Answering, Kept, LimitCount
  <2> QED  BY <2>1, <1>1 DEF NudgesCounted, Booting, Answering
<1> QED
  BY <1>8, <1>9, <1>11, <1>12, <1>13, <1>14, <1>15 DEF IInv, LifeInv

\* A turn that has just been written is the last one there is.
LEMMA WrittenTurnIsLast ==
  ASSUME IInv, pc \in {"count", "verdict"}
  PROVE  reply \in NoToolKinds /\ LastTurn(reply)
<1>1. /\ TypeOK /\ DurableInv /\ callStep \in Steps /\ callStep = curStep - 1
      /\ reply \in NoToolKinds /\ \A s \in Steps : s \in Nat
  BY CallStepFits DEF IInv, LifeInv, PlaceFits, VerdictFits, Answering
<1>2. PICK i \in DOMAIN log[callStep] : log[callStep][i].k = reply
  BY DEF IInv, LifeInv, VerdictFits
<1> DEFINE u == <<callStep, i>>
<1>3. u \in Rows /\ Event(u) = log[callStep][i] /\ u[1] = callStep /\ u[2] = i
  BY <1>1, <1>2, LogShape
<1>4. IsAsst(Event(u))
  BY <1>1, <1>2, <1>3 DEF IsAsst, AsstKinds
<1> HIDE DEF u
<1>5. ASSUME NEW q \in Turns  PROVE ~Earlier(u, q)
  <2> SUFFICES ASSUME Earlier(u, q)  PROVE FALSE
    OBVIOUS
  <2>1. /\ q[1] \in Steps /\ q[2] \in DOMAIN log[q[1]] /\ q[2] \in Nat
        /\ IsAsst(log[q[1]][q[2]])
    BY <1>1, LogShape DEF Turns
  <2>2. ~(q[1] >= curStep)
    BY <1>1, <2>1 DEF DurableInv, StepsInOrder, HasTurn
  <2>3. q[1] \in Nat /\ curStep \in Nat /\ callStep \in Nat
    BY <1>1, <2>1, CallStepFits
  <2>4. q[1] = callStep /\ i < q[2]
    BY <1>1, <1>3, <2>2, <2>3 DEF Earlier
  <2>5. q[2] = i
    BY <1>1, <1>2, <1>3, <1>4, <2>1, <2>4 DEF DurableInv, StepsInOrder
  <2> QED  BY <2>1, <2>4, <2>5
<1>6. u \in Turns
  BY <1>3, <1>4 DEF Turns
<1>7. Event(u).k \in {reply}
  BY <1>2, <1>3
<1> QED  BY <1>1, <1>5, <1>6, <1>7 DEF LastTurn, EndsIn

\* Inputs that arrived meanwhile decide where a turn without calls leads.
LEMMA CountArrivalsInv ==
  ASSUME IInv, CountArrivals  PROVE IInv'
<1>1. /\ TypeOK /\ DurableInv /\ LifeInv /\ pc = "count"
      /\ UNCHANGED <<status, curStep, gen, lastFin, log, needsAdvance, orphans,
                     nudges, compactions, profile, cancelling>>
  BY DEF IInv, CountArrivals, durable, others
<1>2. PICK t \in Steps : t = callStep
  BY <1>1, AnsweringStepShows DEF Answering
<1>3. /\ t = curStep - 1 /\ t \in Nat /\ t < curStep /\ curStep \in Nat /\ curStep \in Int
      /\ curStep \in Steps /\ SpokenUpTo(curStep) /\ HasTurn(t)
      /\ \A s \in Steps : s \in Nat
  BY <1>1, <1>2, AnsweringStepShows, CallStepFits DEF Answering
<1>4. /\ Kept
      /\ \A s : (HasTurn(s)' <=> HasTurn(s)) /\ Calls(s)' = Calls(s)
                /\ Results(s)' = Results(s)
      /\ StreamAtRest' <=> StreamAtRest
  BY <1>1, SameLog
<1>5. /\ needsAdvance /\ ~(pc \in Deciding) /\ LimitCount' <= nudges'.limit
      /\ \A s \in Steps : Complete(s)'
      /\ HasTurn(curStep - 1)' /\ curStep' = curStep
  BY <1>1, <1>3, <1>4 DEF LifeInv, PlaceFits, NudgesCounted, CallsKnown, Answering,
                          Deciding, Kept, LimitCount, Complete
<1>6. DurableInv'
  BY <1>1, SameDurable
<1>7. CASE pc' = "top" /\ reply' = "none" /\ callStep' = -1
           /\ \E s \in curStep..MaxStep : log[s] # <<>>
  <2>1. PICK s \in curStep..MaxStep : log[s] # <<>>
    BY <1>7
  <2>2. s \in Steps /\ s >= curStep /\ s \in Nat
    BY <1>3, <2>1, BoundsAssumption DEF Steps
  <2>3. DOMAIN log[s] # {}
    <3>1. log[s] \in Seq(Events) /\ Len(log[s]) \in Nat /\ DOMAIN log[s] = 1..Len(log[s])
      BY <1>1, <2>2, LogShape DEF TypeOK
    <3>2. Len(log[s]) # 0
      BY <2>1, <3>1, EmptySeq
    <3> QED  BY <3>1, <3>2
  <2>4. ~(s > curStep)
    BY <1>1, <2>2, <2>3 DEF DurableInv, StepsInOrder
  <2>5. s = curStep
    BY <1>3, <2>2, <2>4
  <2>6. ~StreamAtRest
    BY <2>3, <2>5, ArrivalIsTail
  <2>7. TypeOK'
    <3>1. -1 \in -1..MaxStep
      BY BoundsAssumption
    <3> QED  BY <3>1, <1>1, <1>7 DEF TypeOK
  <2>8. CallsKnown'
    BY <1>5, <1>7 DEF CallsKnown
  <2>9. PlaceFits'
    BY <1>1, <1>5, <1>7 DEF PlaceFits, Booting, Deciding, Answering
  <2>10. VerdictFits'
    BY <1>4, <1>7, <2>6 DEF VerdictFits
  <2>11. SomethingSaid'
    <3>1. PICK c \in Int : c = curStep
      BY <1>3
    <3>2. SpokenUpTo(c)'
      BY <1>3, <1>4, <3>1 DEF Kept
    <3> QED  BY <3>1, <3>2, <1>1, <1>7 DEF SomethingSaid
  <2>12. NudgesCounted'
    BY <1>5, <1>7 DEF NudgesCounted, Booting, Answering
  <2> QED
    BY <1>6, <2>7, <2>8, <2>9, <2>10, <2>11, <2>12 DEF IInv, LifeInv
<1>8. CASE pc' = "verdict" /\ UNCHANGED <<reply, callStep>>
  <2>1. TypeOK'
    BY <1>1, <1>8 DEF TypeOK
  <2>2. CallsKnown' /\ SomethingSaid'
    BY <1>5, <1>8 DEF CallsKnown, SomethingSaid
  <2>3. PlaceFits'
    BY <1>1, <1>2, <1>3, <1>5, <1>8 DEF PlaceFits, Booting, Deciding, Answering
  <2>4. VerdictFits'
    BY <1>1, <1>8 DEF LifeInv, VerdictFits
  <2>5. NudgesCounted'
    <3>1. \A s \in Steps : \A i \in DOMAIN log'[s] :
            log'[s][i].k = "nudgeLimit" => s < curStep'
      BY <1>1 DEF LifeInv, NudgesCounted, Answering
    <3> QED  BY <3>1, <1>5, <1>8 DEF NudgesCounted, Booting
  <2> QED  BY <1>6, <2>1, <2>2, <2>3, <2>4, <2>5 DEF IInv, LifeInv
<1> QED  BY <1>7, <1>8 DEF CountArrivals

-----------------------------------------------------------------------------
\* Compaction.

\* A compaction lifts what is past the boundary to the new generation, and adds its summary.
LEMMA CompactionShape ==
  ASSUME TypeOK, NEW b \in Steps, b = Boundary, CompactContext
  PROVE  \E new \in Nat : Compacted(b, new)
<1> DEFINE Moved(s, i) == IF log[s][i].g = gen /\ s > b
                            THEN [log[s][i] EXCEPT !.g = gen + 1] ELSE log[s][i]
           carried == [s \in Steps |-> [i \in DOMAIN log[s] |-> Moved(s, i)]]
           e == [k |-> "compaction", n |-> 0, g |-> gen + 1]
<1>1. gen + 1 \in 0..MaxGen
  <2>1. gen \in 0..MaxGen /\ gen < MaxGen /\ MaxGen \in Nat
    BY BoundsAssumption DEF TypeOK, CompactContext
  <2> QED  BY <2>1
<1>2. e \in Events
  BY <1>1, BoundsAssumption DEF Events, Kinds
<1>3. log' = [carried EXCEPT ![b] = Append(@, e)]
  BY DEF CompactContext
<1>4. \A s \in Steps : \A i \in DOMAIN log[s] :
        /\ Moved(s, i) \in Events
        /\ Moved(s, i).k = log[s][i].k /\ Moved(s, i).n = log[s][i].n
        /\ Moved(s, i).g = IF log[s][i].g = gen /\ s > b THEN gen + 1 ELSE log[s][i].g
  <2>1. \A s \in Steps : \A i \in DOMAIN log[s] : log[s][i] \in Events
    BY LogShape
  <2> QED  BY <2>1, <1>1 DEF Events
<1> HIDE DEF Moved, e
<1>5. \A s \in Steps : /\ carried[s] \in Seq(Events) /\ DOMAIN carried[s] = DOMAIN log[s]
                       /\ \A i \in DOMAIN log[s] : carried[s][i] = Moved(s, i)
  <2>1. ASSUME NEW s \in Steps
        PROVE  /\ carried[s] \in Seq(Events) /\ DOMAIN carried[s] = DOMAIN log[s]
               /\ \A i \in DOMAIN log[s] : carried[s][i] = Moved(s, i)
    <3>1. Len(log[s]) \in Nat /\ DOMAIN log[s] = 1..Len(log[s])
      BY LogShape
    <3>2. carried[s] = [i \in DOMAIN log[s] |-> Moved(s, i)]
      OBVIOUS
    <3> HIDE DEF carried
    <3>3. carried[s] \in [1..Len(log[s]) -> Events]
      BY <1>4, <3>1, <3>2
    <3>4. carried[s] \in Seq(Events)
      BY <3>1, <3>3, SeqDef
    <3> QED  BY <3>2, <3>4
  <2> QED  BY <2>1
<1>6. carried \in [Steps -> Seq(Events)]
  BY <1>5
<1> HIDE DEF carried
<1>7. PICK new \in Nat : new = Len(carried[b]) + 1
  BY <1>5, LenProperties
<1>8. /\ Append(carried[b], e) \in Seq(Events)
      /\ DOMAIN Append(carried[b], e) = DOMAIN log[b] \cup {new}
      /\ Append(carried[b], e)[new] = e /\ new \notin DOMAIN log[b]
      /\ \A i \in DOMAIN log[b] : /\ i \in Nat /\ i < new
                                  /\ Append(carried[b], e)[i] = Moved(b, i)
  <2>1. Len(carried[b]) \in Nat /\ DOMAIN log[b] = 1..Len(carried[b])
    BY <1>5, LenProperties
  <2>2. /\ Append(carried[b], e) \in Seq(Events)
        /\ Len(Append(carried[b], e)) = Len(carried[b]) + 1
        /\ \A i \in 1..Len(carried[b]) : Append(carried[b], e)[i] = carried[b][i]
        /\ Append(carried[b], e)[Len(carried[b]) + 1] = e
    BY <1>2, <1>5, AppendProperties
  <2>3. DOMAIN Append(carried[b], e) = 1..Len(Append(carried[b], e))
    BY <2>2, LenProperties
  <2>4. DOMAIN Append(carried[b], e) = DOMAIN log[b] \cup {new} /\ new \notin DOMAIN log[b]
    BY <2>1, <2>2, <2>3, <1>7
  <2>5. \A i \in DOMAIN log[b] : i \in Nat /\ i < new
    BY <2>1, <1>7
  <2>6. Append(carried[b], e)[new] = e
    BY <2>2, <1>7
  <2>7. \A i \in DOMAIN log[b] : Append(carried[b], e)[i] = Moved(b, i)
    BY <2>1, <2>2, <1>5
  <2> QED  BY <2>2, <2>4, <2>5, <2>6, <2>7
<1>9. /\ log' \in [Steps -> Seq(Events)]
      /\ log'[b] = Append(carried[b], e)
      /\ \A s \in Steps : s # b => log'[s] = carried[s]
  BY <1>3, <1>6, <1>8
<1>10. \A s \in Steps : \A i \in DOMAIN log[s] :
         log'[s][i] = Moved(s, i) /\ i \in Nat /\ (s = b => i < new)
  BY <1>5, <1>8, <1>9, LogShape
<1>11. \A s \in Steps : s # b => DOMAIN log'[s] = DOMAIN log[s]
  BY <1>5, <1>9
<1>12. \A s \in Steps : \A i \in DOMAIN log[s] :
         /\ log'[s][i].k = log[s][i].k /\ log'[s][i].n = log[s][i].n
         /\ log'[s][i].g = IF log[s][i].g = gen /\ s > b THEN gen + 1 ELSE log[s][i].g
         /\ i \in Nat /\ (s = b => i < new)
  BY <1>4, <1>10
<1>13. DOMAIN log'[b] = DOMAIN log[b] \cup {new} /\ new \notin DOMAIN log[b] /\ log'[b][new] = e
  BY <1>8, <1>9
<1> QED  BY <1>7, <1>9, <1>11, <1>12, <1>13 DEF Compacted, e

\* compactContext: what is unanswered, and what answers it, is lifted together.
LEMMA CompactContextInv ==
  ASSUME IInv, CompactContext  PROVE IInv'
<1>1. /\ TypeOK /\ DurableInv /\ LifeInv /\ pc = "llm" /\ pc' = "top"
      /\ UNCHANGED <<status, curStep, lastFin, reply, orphans, nudges, profile, cancelling>>
      /\ gen' = gen + 1 /\ gen < MaxGen /\ callStep' = -1 /\ needsAdvance' = FALSE
      /\ compactions' = compactions + 1 /\ compactions < maxConsecutiveCompactions
      /\ Boundary >= 1
  BY DEF IInv, CompactContext, others
<1>2. PICK c \in Steps : c = callStep
  BY <1>1, CallStepIsOpen
<1>3. /\ c = curStep - 1 /\ curStep \in Steps /\ curStep \in Nat /\ c \in Nat
      /\ c - 1 >= 1 /\ ~HasTurn(c) /\ gen \in Nat /\ \A s \in Steps : s \in Nat
      /\ Boundary = c - 1
  BY <1>1, <1>2, CallStepIsOpen, CallStepFits
     DEF LifeInv, PlaceFits, TypeOK, Boundary
<1>4. PICK b \in Steps : b = c - 1
  BY <1>3, BoundsAssumption DEF Steps
<1>5. /\ b >= 1 /\ b \in Nat /\ b < c /\ c < curStep /\ curStep' = curStep
      /\ curStep' - 1 = c /\ b = Boundary
      /\ \A s \in Steps : s > b <=> c <= s
  BY <1>1, <1>3, <1>4
<1>6. PICK new \in Nat : Compacted(b, new)
  BY <1>1, <1>5, CompactionShape
<1>7. /\ log' \in [Steps -> Seq(Events)] /\ DOMAIN log' = Steps
      /\ new \in DOMAIN log'[b] /\ log'[b][new].k = "compaction"
      /\ log'[b][new].g = gen + 1
      /\ \A s \in Steps : s # b => DOMAIN log'[s] = DOMAIN log[s]
      /\ \A s \in Steps : \A i \in DOMAIN log[s] : i \in DOMAIN log'[s]
      /\ \A s \in Steps : \A i \in DOMAIN log'[s] :
           i \in DOMAIN log[s] \/ (s = b /\ i = new)
  BY <1>6 DEF Compacted
<1>8. \A s \in Steps : \A i \in DOMAIN log[s] :
        /\ log'[s][i].k = log[s][i].k /\ log'[s][i].n = log[s][i].n
        /\ log'[s][i].g = IF log[s][i].g = gen /\ s > b THEN gen + 1 ELSE log[s][i].g
        /\ i \in Nat /\ (s = b => i < new)
        /\ log[s][i].g \in Nat /\ log[s][i].g <= gen
        /\ c <= s => log[s][i].g = gen
  <2>1. \A s \in Steps : \A i \in DOMAIN log[s] : log[s][i].g \in Nat
    BY <1>1, LogShape DEF Events
  <2>2. \A s \in Steps : c <= s => 0 < s /\ curStep - 1 <= s
    BY <1>3, <1>5
  <2> QED  BY <2>1, <2>2, <1>1, <1>6 DEF Compacted, DurableInv, GenerationsInOrder
<1>9. \A s \in Steps : /\ HasTurn(s)' <=> HasTurn(s)
                       /\ Calls(s)' = Calls(s) /\ Results(s)' = Results(s)
  <2>1. /\ \A s \in Steps : \A i \in DOMAIN log[s] :
             i \in DOMAIN log'[s] /\ log'[s][i].k = log[s][i].k /\ log'[s][i].n = log[s][i].n
        /\ \A s \in Steps : \A i \in DOMAIN log'[s] :
             log'[s][i].k # "compaction" => i \in DOMAIN log[s]
    BY <1>7, <1>8
  <2>2. ASSUME NEW s \in Steps  PROVE HasTurn(s)' <=> HasTurn(s)
    BY <2>1 DEF HasTurn, IsAsst, AsstKinds, NoToolKinds
  <2>3. ASSUME NEW s \in Steps  PROVE Calls(s)' = Calls(s)
    BY <2>1 DEF Calls
  <2>4. ASSUME NEW s \in Steps  PROVE Results(s)' = Results(s)
    BY <2>1 DEF Results
  <2> QED  BY <2>2, <2>3, <2>4
<1>10. \A s \in Steps : c <= s => ~HasTurn(s)
  <2>1. \A s \in Steps : c <= s => s = c \/ s >= curStep
    BY <1>3
  <2> QED  BY <2>1, <1>1, <1>3 DEF DurableInv, StepsInOrder
<1>11. \A s \in Steps : Complete(s)'
  BY <1>1, <1>9 DEF LifeInv, CallsKnown, Complete
<1>12. StepsInOrder'
  <2>1. ASSUME NEW s \in Steps, NEW i \in DOMAIN log'[s], NEW j \in DOMAIN log'[s],
               IsAsst(log'[s][i]), IsAsst(log'[s][j])
        PROVE  i = j
    <3>1. i \in DOMAIN log[s] /\ j \in DOMAIN log[s]
      BY <2>1, <1>7 DEF IsAsst, AsstKinds, NoToolKinds
    <3>2. IsAsst(log[s][i]) /\ IsAsst(log[s][j])
      BY <2>1, <3>1, <1>8 DEF IsAsst
    <3> QED  BY <3>1, <3>2, <1>1 DEF DurableInv, StepsInOrder
  <2>2. \A s \in Steps : /\ s >= curStep => ~HasTurn(s)'
                         /\ 0 < s /\ s < curStep - 1 => HasTurn(s)'
    BY <1>1, <1>9 DEF DurableInv, StepsInOrder
  <2>3. \A s \in Steps : s > curStep => DOMAIN log'[s] = {}
    <3>1. \A s \in Steps : s > curStep => s # b
      BY <1>3, <1>5
    <3> QED  BY <3>1, <1>1, <1>7 DEF DurableInv, StepsInOrder
  <2> QED  BY <2>1, <2>2, <2>3, <1>5 DEF StepsInOrder, IsAsst
<1>13. \A s \in Steps : \A i \in DOMAIN log'[s] :
         0 < s /\ IsAsst(log'[s][i]) => log'[s][i].g # gen + 1
  <2>1. ASSUME NEW s \in Steps, NEW i \in DOMAIN log'[s], IsAsst(log'[s][i])
        PROVE  log'[s][i].g # gen + 1
    <3>1. i \in DOMAIN log[s]
      BY <2>1, <1>7 DEF IsAsst, AsstKinds, NoToolKinds
    <3>2. HasTurn(s)
      BY <2>1, <3>1, <1>8 DEF IsAsst, HasTurn
    <3>3. ~(s > b)
      BY <3>2, <1>5, <1>10
    <3>4. log'[s][i].g = log[s][i].g
      BY <3>1, <3>3, <1>8
    <3>5. log[s][i].g \in Nat /\ log[s][i].g <= gen /\ gen \in Nat
      BY <3>1, <1>3, <1>8
    <3> QED  BY <3>4, <3>5
  <2> QED  BY <2>1
<1>14. GenerationsInOrder'
  <2>1. ASSUME NEW s \in Steps, NEW i \in DOMAIN log'[s]
        PROVE  /\ log'[s][i].g <= gen + 1
               /\ 0 < s /\ c <= s => log'[s][i].g = gen + 1
               /\ 0 < s /\ log'[s][i].g < gen + 1 => s <= b
    <3>1. CASE i \in DOMAIN log[s]
      <4>1. s > b => c <= s /\ log[s][i].g = gen /\ log'[s][i].g = gen + 1
        BY <3>1, <1>5, <1>8
      <4>2. ~(s > b) => s <= b /\ ~(c <= s) /\ log'[s][i].g = log[s][i].g
        BY <3>1, <1>3, <1>5, <1>8
      <4>3. log[s][i].g \in Nat /\ log[s][i].g <= gen /\ gen \in Nat
        BY <3>1, <1>3, <1>8
      <4> QED  BY <4>1, <4>2, <4>3
    <3>2. CASE s = b /\ i = new
      <4>1. log'[s][i].g = gen + 1 /\ s <= b /\ gen \in Nat
        BY <3>2, <1>3, <1>5, <1>7
      <4> QED  BY <4>1
    <3> QED  BY <3>1, <3>2, <1>7
  <2>2. \A s \in Steps : \A i \in DOMAIN log'[s] : 0 < s /\ log'[s][i].g < gen + 1 =>
          \E t \in Steps : \E j \in DOMAIN log'[t] :
            s <= t /\ log'[t][j].k = "compaction" /\ log'[t][j].g = gen + 1
    BY <2>1, <1>7
  <2> QED  BY <2>1, <2>2, <1>1, <1>5, <1>13 DEF GenerationsInOrder, IsAsst
<1>15. CallsInOrder'
  <2> SUFFICES ASSUME NEW s \in Steps, NEW i \in DOMAIN log'[s]
               PROVE  /\ log'[s][i].k = "tools" => log'[s][i].n \in 1..MaxCalls
                      /\ log'[s][i].k = "result" =>
                           /\ log'[s][i].n \in 1..MaxCalls
                           /\ \E j \in DOMAIN log'[s] : j < i /\ log'[s][j].k = "tools"
                                                        /\ log'[s][i].n <= log'[s][j].n
                           /\ \A j \in DOMAIN log'[s] :
                                log'[s][j].k = "result" /\ log'[s][j].n = log'[s][i].n => i = j
    BY DEF CallsInOrder
  <2>1. CASE i \in DOMAIN log[s]
    <3>1. log'[s][i].k = log[s][i].k /\ log'[s][i].n = log[s][i].n
      BY <2>1, <1>8
    <3>2. log[s][i].k = "tools" => log[s][i].n \in 1..MaxCalls
      BY <2>1, <1>1 DEF DurableInv, CallsInOrder
    <3>3. ASSUME log[s][i].k = "result"
          PROVE  /\ log[s][i].n \in 1..MaxCalls
                 /\ \E j \in DOMAIN log'[s] : j < i /\ log'[s][j].k = "tools"
                                              /\ log[s][i].n <= log'[s][j].n
                 /\ \A j \in DOMAIN log'[s] :
                      log'[s][j].k = "result" /\ log'[s][j].n = log[s][i].n => i = j
      <4>1. /\ log[s][i].n \in 1..MaxCalls
            /\ \E j \in DOMAIN log[s] : j < i /\ log[s][j].k = "tools"
                                        /\ log[s][i].n <= log[s][j].n
            /\ \A j \in DOMAIN log[s] :
                 log[s][j].k = "result" /\ log[s][j].n = log[s][i].n => i = j
        BY <2>1, <3>3, <1>1 DEF DurableInv, CallsInOrder
      <4>2. PICK j \in DOMAIN log[s] : j < i /\ log[s][j].k = "tools"
                                       /\ log[s][i].n <= log[s][j].n
        BY <4>1
      <4>3. j \in DOMAIN log'[s] /\ log'[s][j].k = "tools" /\ log'[s][j].n = log[s][j].n
        BY <4>2, <1>7, <1>8
      <4>4. ASSUME NEW h \in DOMAIN log'[s], log'[s][h].k = "result",
                   log'[s][h].n = log[s][i].n
            PROVE  i = h
        <5>1. h \in DOMAIN log[s]
          BY <4>4, <1>7
        <5> QED  BY <4>1, <4>4, <5>1, <1>8
      <4> QED  BY <4>1, <4>2, <4>3, <4>4
    <3> QED  BY <3>1, <3>2, <3>3
  <2>2. CASE s = b /\ i = new
    BY <2>2, <1>7
  <2> QED  BY <2>1, <2>2, <1>7
<1>16. StepsFinished'
  BY <1>1, <1>5, <1>9, <1>11 DEF DurableInv, StepsFinished
<1> DEFINE n == <<b, new>>
<1>17. /\ \A r : r \in Rows' <=> \E s \in Steps : \E i \in DOMAIN log'[s] : r = <<s, i>>
       /\ \A r : r \in Rows <=> \E s \in Steps : \E i \in DOMAIN log[s] : r = <<s, i>>
  BY <1>1, <1>7, LogShape DEF Rows
<1>18. n \in Context' /\ n[1] = b /\ Event(n)'.k = "compaction"
  BY <1>1, <1>7, <1>17 DEF Context, InContext, Event
<1>19. ASSUME NEW r \in Context'
       PROVE  /\ r[1] \in Steps /\ r[2] \in DOMAIN log'[r[1]]
              /\ Event(r)' = log'[r[1]][r[2]] /\ r = <<r[1], r[2]>>
              /\ r[1] = 0 \/ log'[r[1]][r[2]].g = gen + 1
  <2>1. r \in Rows' /\ InContext(r)'
    BY <1>19 DEF Context
  <2>2. PICK s \in Steps : \E i \in DOMAIN log'[s] : r = <<s, i>>
    BY <2>1, <1>17
  <2>3. PICK i \in DOMAIN log'[s] : r = <<s, i>>
    BY <2>2
  <2>4. r[1] = s /\ r[2] = i
    BY <2>3
  <2>5. r[1] = 0 \/ log'[r[1]][r[2]].g = gen'
    BY <2>1 DEF InContext, Event
  <2> QED  BY <2>3, <2>4, <2>5, <1>1 DEF Event
<1> HIDE DEF n
<1>20. \A r \in Context' : Event(r)'.k \in AsstKinds => r[1] = 0 /\ r[1] < n[1]
  <2>1. \A s \in Steps : s = 0 \/ 0 < s
    BY <1>3
  <2>2. \A r \in Context' : Event(r)'.k \in AsstKinds => r[1] = 0
    BY <2>1, <1>13, <1>19 DEF IsAsst
  <2>3. 0 < n[1]
    BY <1>5, <1>18
  <2> QED  BY <2>2, <2>3
<1>21. ~TurnIsTail(c)'
  <2> SUFFICES ASSUME TurnIsTail(c)'  PROVE FALSE
    OBVIOUS
  <2>1. PICK r \in Context' : /\ Event(r)'.k \in AsstKinds
                              /\ \A q \in Context' : q[1] <= c => ~Earlier(r, q)
    BY DEF TurnIsTail, EndsIn, Earlier
  <2>2. n[1] <= c
    BY <1>5, <1>18
  <2> QED  BY <2>1, <2>2, <1>18, <1>20 DEF Earlier
<1>22. ~StreamAtRest'
  <2> SUFFICES ASSUME StreamAtRest'  PROVE FALSE
    OBVIOUS
  <2>1. PICK r \in Context' : /\ Event(r)'.k \in AsstKinds
                              /\ \A q \in Context' : ~Earlier(r, q)
    BY DEF StreamAtRest, EndsIn, Earlier, AsstKinds
  <2> QED  BY <2>1, <1>18, <1>20 DEF Earlier
<1>23. SpokenUpTo(c)' /\ SpokenUpTo(curStep)'
  <2>1. n[1] <= c /\ n[1] <= curStep
    BY <1>3, <1>5, <1>18
  <2>2. SpokenUpTo(c)'
    BY <2>1, <1>18 DEF SpokenUpTo
  <2>3. PICK d \in Steps : d = curStep
    BY <1>3
  <2>4. SpokenUpTo(d)'
    BY <2>1, <2>3, <1>18 DEF SpokenUpTo
  <2> QED  BY <2>2, <2>3, <2>4, <1>5
<1>24. StepCallable'
  BY <1>5, <1>21, <1>23 DEF StepCallable
<1>25. \A s \in Steps : \A i \in DOMAIN log'[s] :
         log'[s][i].k = "nudgeLimit" => i \in DOMAIN log[s] /\ 0 < s /\ s < curStep
  <2>1. \A s \in Steps : \A i \in DOMAIN log[s] :
          log[s][i].k = "nudgeLimit" => 0 < s /\ s < curStep
    BY <1>1 DEF DurableInv, NudgesInBudget, LifeInv, NudgesCounted
  <2>2. \A s \in Steps : \A i \in DOMAIN log'[s] :
          log'[s][i].k = "nudgeLimit" => i \in DOMAIN log[s]
    BY <1>7
  <2>3. \A s \in Steps : \A i \in DOMAIN log[s] : log'[s][i].k = log[s][i].k
    BY <1>8
  <2> QED  BY <2>1, <2>2, <2>3
<1>26. LimitNudges(Context)' \subseteq LimitNudges(Context)
  <2> SUFFICES ASSUME NEW r \in LimitNudges(Context)'  PROVE r \in LimitNudges(Context)
    OBVIOUS
  <2>1. /\ r \in Context' /\ Event(r)'.k = "nudgeLimit"
        /\ \A q \in Context' : Event(q)'.k = "tools" => Earlier(q, r)
    BY DEF LimitNudges, Earlier
  <2>2. /\ r[1] \in Steps /\ r[2] \in DOMAIN log[r[1]] /\ 0 < r[1] /\ r = <<r[1], r[2]>>
        /\ log'[r[1]][r[2]].g = gen + 1 /\ log'[r[1]][r[2]].k = "nudgeLimit"
    <3>1. /\ r[1] \in Steps /\ r[2] \in DOMAIN log'[r[1]] /\ r = <<r[1], r[2]>>
          /\ r[1] = 0 \/ log'[r[1]][r[2]].g = gen + 1
          /\ log'[r[1]][r[2]].k = "nudgeLimit"
      BY <2>1, <1>19
    <3>2. r[2] \in DOMAIN log[r[1]] /\ 0 < r[1]
      BY <3>1, <1>25
    <3> QED  BY <3>1, <3>2
  <2>3. log[r[1]][r[2]].g = gen /\ r[1] > b /\ log[r[1]][r[2]].k = "nudgeLimit"
    <3>1. log[r[1]][r[2]].g \in Nat /\ log[r[1]][r[2]].g <= gen /\ gen \in Nat
      BY <2>2, <1>3, <1>8
    <3>2. log[r[1]][r[2]].g # gen + 1
      BY <3>1
    <3> QED  BY <2>2, <3>2, <1>8
  <2>4. r \in Context /\ Event(r).k = "nudgeLimit"
    BY <2>2, <2>3, <1>1, LogShape DEF Context, InContext
  <2>5. ASSUME NEW q \in Context, Event(q).k = "tools"  PROVE Earlier(q, r)
    <3>1. q[1] \in Steps /\ HasTurn(q[1])
      BY <2>5, <1>1, LogShape DEF Context, HasTurn, IsAsst, AsstKinds
    <3>2. ~(q[1] > b)
      BY <3>1, <1>5, <1>10
    <3>3. q[1] \in Nat /\ r[1] \in Nat
      BY <3>1, <2>2, <1>3
    <3>4. q[1] < r[1]
      BY <3>2, <3>3, <2>3, <1>5
    <3> QED  BY <3>4 DEF Earlier
  <2> QED  BY <2>4, <2>5 DEF LimitNudges
<1>27. LimitCount' <= LimitCount /\ LimitCount' \in Nat /\ LimitCount \in Nat
  <2>1. IsFiniteSet(LimitNudges(Context))
    <3>1. LimitNudges(Context) \subseteq Context
      BY DEF LimitNudges
    <3> QED  BY <3>1, <1>1, CountTyped, FS_Subset
  <2>2. /\ IsFiniteSet(LimitNudges(Context)')
        /\ Cardinality(LimitNudges(Context)') <= Cardinality(LimitNudges(Context))
    BY <2>1, <1>26, FS_Subset
  <2>3. /\ Cardinality(LimitNudges(Context)') \in Nat
        /\ Cardinality(LimitNudges(Context)) \in Nat
    BY <2>1, <2>2, FS_CardinalityType
  <2> QED  BY <2>2, <2>3 DEF LimitCount
<1>28. NudgesInBudget'
  <2>1. LimitCount' <= maxOutputLimitNudges
    BY <1>1, <1>27 DEF DurableInv, NudgesInBudget, maxOutputLimitNudges
  <2>2. \A s \in Steps : s < curStep => s # curStep
    BY <1>3
  <2> QED  BY <2>1, <2>2, <1>5, <1>25 DEF NudgesInBudget
<1>29. TypeOK'
  <2>1. gen' \in 0..MaxGen
    <3>1. gen' = gen + 1 /\ gen < MaxGen /\ MaxGen \in Nat /\ gen \in Nat
      BY <1>1, <1>3, BoundsAssumption
    <3> QED  BY <3>1
  <2>2. callStep' \in -1..MaxStep /\ needsAdvance' \in BOOLEAN
    <3>1. callStep' = -1 /\ needsAdvance' = FALSE /\ MaxStep \in Nat
      BY <1>1, BoundsAssumption
    <3>2. -1 \in -1..MaxStep
      BY <3>1
    <3> QED  BY <3>1, <3>2
  <2>3. compactions' \in 0..maxConsecutiveCompactions
    BY <1>1 DEF TypeOK, maxConsecutiveCompactions
  <2> QED  BY <2>1, <2>2, <2>3, <1>1, <1>7 DEF TypeOK
<1>30. CallsKnown'
  BY <1>1, <1>11 DEF CallsKnown
<1>31. PlaceFits'
  <2>1. ~HasTurn(c)' /\ ~(curStep' <= 1)
    BY <1>3, <1>5, <1>9
  <2>2. ~HasTurn(curStep - 1)'
    BY <2>1, <1>5
  <2> QED  BY <2>1, <2>2, <1>1 DEF PlaceFits, Booting, Deciding, Answering
<1>32. VerdictFits' /\ SomethingSaid'
  BY <1>1, <1>22, <1>23 DEF VerdictFits, SomethingSaid
<1>33. NudgesCounted'
  <2>1. LimitCount <= nudges.limit /\ nudges.limit \in Int
    BY <1>1 DEF LifeInv, NudgesCounted, TypeOK
  <2>2. LimitCount' <= nudges'.limit
    BY <2>1, <1>1, <1>27
  <2> QED  BY <2>2, <1>1 DEF NudgesCounted, Booting, Answering
<1> QED
  BY <1>12, <1>14, <1>15, <1>16, <1>24, <1>28, <1>29, <1>30, <1>31, <1>32, <1>33
     DEF IInv, DurableInv, LifeInv

-----------------------------------------------------------------------------
\* Verdicts.

\* The turn being judged is the last one, and its step has all its answers.
LEMMA JudgedTurn ==
  ASSUME IInv, pc \in {"verdict", "tail"}
  PROVE  /\ reply \in NoToolKinds /\ LastTurn(reply)
         /\ 0 < curStep /\ HasTurn(curStep - 1) /\ SpokenUpTo(curStep)
         /\ \A s \in Steps : Complete(s)
         /\ LimitCount <= nudges.limit
<1>1. TypeOK /\ DurableInv /\ LifeInv /\ curStep \in Nat /\ \A s \in Steps : s \in Nat
  BY CallStepFits DEF IInv
<1>2. (\A s \in Steps : Complete(s)) /\ LimitCount <= nudges.limit
  BY <1>1 DEF LifeInv, CallsKnown, NudgesCounted, Deciding, Answering
<1>3. CASE pc = "verdict"
  <2>1. /\ callStep \in Nat /\ callStep = curStep - 1 /\ callStep < curStep
        /\ SpokenUpTo(curStep) /\ HasTurn(callStep)
    BY <1>3, AnsweringStepShows DEF Answering
  <2>2. 0 < curStep /\ HasTurn(curStep - 1)
    BY <1>1, <2>1
  <2> QED  BY <1>2, <1>3, <2>1, <2>2, WrittenTurnIsLast
<1>4. CASE pc = "tail"
  <2>1. /\ reply # "none" /\ LastTurn(reply) /\ SpokenUpTo(curStep)
        /\ curStep <= 1 \/ HasTurn(curStep - 1)
    BY <1>1, <1>4 DEF LifeInv, VerdictFits, SomethingSaid, PlaceFits, Deciding
  <2>2. reply \in NoToolKinds
    BY <1>1, <2>1 DEF TypeOK
  <2>3. PICK s \in Steps : HasTurn(s)
    BY <1>1, <2>1, <2>2, TurnsAreSomewhere DEF AsstKinds
  <2>4. ~(s >= curStep) /\ s \in Nat
    BY <1>1, <2>3 DEF DurableInv, StepsInOrder
  <2>5. 0 < curStep /\ (curStep <= 1 => curStep - 1 = s)
    BY <1>1, <2>4
  <2>6. HasTurn(curStep - 1)
    BY <2>1, <2>3, <2>5
  <2> QED  BY <1>2, <2>1, <2>2, <2>5, <2>6
<1> QED  BY <1>3, <1>4

\* An interactive session waits for its next Input.
LEMMA ParkIdleInv ==
  ASSUME IInv, ParkIdle  PROVE IInv'
<1>1. /\ TypeOK /\ DurableInv /\ LifeInv /\ pc \in {"verdict", "tail"} /\ pc' = "wake"
      /\ status' = "idle" /\ reply' = "none" /\ callStep' = -1 /\ needsAdvance' = TRUE
      /\ UNCHANGED <<curStep, gen, lastFin, log, orphans, nudges, compactions, profile,
                     cancelling>>
  BY DEF IInv, ParkIdle, others
<1>2. /\ HasTurn(curStep - 1) /\ LimitCount <= nudges.limit
      /\ \A s \in Steps : Complete(s)
  BY <1>1, JudgedTurn
<1>3. /\ Kept
      /\ \A s : (HasTurn(s)' <=> HasTurn(s)) /\ Calls(s)' = Calls(s)
                /\ Results(s)' = Results(s)
  BY <1>1, SameLog
<1>4. DurableInv'
  BY <1>1, SameDurable
<1>5. TypeOK'
  <2>1. -1 \in -1..MaxStep
    BY BoundsAssumption
  <2> QED  BY <2>1, <1>1 DEF TypeOK
<1>6. CallsKnown' /\ VerdictFits' /\ SomethingSaid'
  BY <1>1, <1>2, <1>3 DEF CallsKnown, VerdictFits, SomethingSaid, Complete
<1>7. PlaceFits'
  <2>1. HasTurn(curStep - 1)' /\ curStep' = curStep
    BY <1>1, <1>2, <1>3
  <2> QED  BY <1>1, <2>1 DEF PlaceFits, Booting, Deciding, Answering
<1>8. NudgesCounted'
  <2>1. LimitCount' <= nudges'.limit
    BY <1>1, <1>2, <1>3 DEF Kept, LimitCount
  <2> QED  BY <2>1, <1>1 DEF NudgesCounted, Booting, Answering
<1> QED  BY <1>4, <1>5, <1>6, <1>7, <1>8 DEF IInv, LifeInv

\* A nudge is a row and a count, within its budget.
LEMMA NudgeInv ==
  ASSUME IInv, pc \in {"verdict", "tail"}, NEW event, NEW counter, Nudge(event, counter),
         \/ event = "nudgeLimit" /\ counter = "limit" /\ nudges.limit < maxOutputLimitNudges
         \/ event = "nudgeEmpty" /\ counter = "empty" /\ nudges.empty < maxConcludeNudges
  PROVE  IInv'
<1>1. /\ TypeOK /\ DurableInv /\ LifeInv /\ pc' = IF pc = "tail" THEN "wake" ELSE "top"
      /\ log' = LogWith(curStep, event, 0)
      /\ nudges' = [nudges EXCEPT ![counter] = @ + 1]
      /\ reply' = "none" /\ callStep' = -1 /\ needsAdvance' = TRUE
      /\ UNCHANGED <<status, curStep, gen, lastFin, orphans, compactions, profile,
                     cancelling>>
  BY DEF IInv, Nudge, AppendEvent, others
<1>2. /\ 0 < curStep /\ HasTurn(curStep - 1) /\ LimitCount <= nudges.limit
      /\ \A s \in Steps : Complete(s)
  BY JudgedTurn
<1>3. PICK c \in Steps : c = curStep /\ c \in Nat /\ c - 1 \in Steps
  BY <1>2, CallStepFits, BoundsAssumption DEF Steps
<1>4. event \in Kinds \ AsstKinds /\ event # "result" /\ event \notin {"system", "marker"}
      /\ 0 \in 0..MaxCalls
  BY BoundsAssumption DEF Kinds, AsstKinds, NoToolKinds, UserKinds
<1> DEFINE e == [k |-> event, n |-> 0, g |-> gen]
<1>5. e \in Events /\ e.k = event
  BY <1>1, <1>4 DEF TypeOK, Events
<1>6. /\ log' \in [Steps -> Seq(Events)]
      /\ \E new \in Nat : Inserted(c, new, e) /\ RowInserted(<<c, new>>, e)
  BY <1>1, <1>3, <1>4, InsertRow
<1>7. PICK new \in Nat : Inserted(c, new, e) /\ RowInserted(<<c, new>>, e)
  BY <1>6
<1> HIDE DEF e
<1>8. /\ event # "nudgeLimit" => Kept
      /\ \A s \in Steps : /\ HasTurn(s)' <=> HasTurn(s)
                          /\ Calls(s)' = Calls(s) /\ Results(s)' = Results(s)
  BY <1>1, <1>4, <1>5, <1>7, InsertKeeps
<1>9. /\ nudges' \in [empty : 0..maxConcludeNudges, limit : 0..maxOutputLimitNudges]
      /\ nudges'.limit = IF event = "nudgeLimit" THEN nudges.limit + 1 ELSE nudges.limit
      /\ nudges.limit \in Nat
  BY <1>1 DEF TypeOK, maxConcludeNudges, maxOutputLimitNudges
<1>10. LimitCount' <= nudges'.limit
  <2>1. CASE event # "nudgeLimit"
    BY <2>1, <1>2, <1>8, <1>9 DEF Kept, LimitCount
  <2>2. CASE event = "nudgeLimit"
    <3> DEFINE n == <<c, new>>
    <3>1. /\ Rows' = Rows \cup {n} /\ Event(n)' = e /\ n \notin Rows
          /\ \A r \in Rows : Event(r)' = Event(r)
      BY <1>7 DEF RowInserted
    <3> HIDE DEF n
    <3>2. \A r \in Rows : InContext(r)' <=> InContext(r)
      BY <1>1, <3>1 DEF InContext
    <3>3. Context \subseteq Context' /\ Context' \subseteq Context \cup {n}
      BY <3>1, <3>2 DEF Context
    <3>4. \A r \in Context : r \in Rows
      BY DEF Context
    <3>5. LimitNudges(Context)' =
            {r \in Context' : /\ Event(r)'.k = "nudgeLimit"
                              /\ \A q \in Context' : Event(q)'.k = "tools" => Earlier(q, r)}
      BY DEF LimitNudges, Earlier
    <3>6. LimitNudges(Context)' \subseteq LimitNudges(Context) \cup {n}
      BY <3>1, <3>3, <3>4, <3>5 DEF LimitNudges
    <3>7. IsFiniteSet(LimitNudges(Context)) /\ LimitNudges(Context) \subseteq Rows
      <4>1. LimitNudges(Context) \subseteq Context
        BY DEF LimitNudges
      <4> QED  BY <4>1, <3>4, <1>1, CountTyped, FS_Subset
    <3>8. /\ IsFiniteSet(LimitNudges(Context) \cup {n})
          /\ Cardinality(LimitNudges(Context) \cup {n}) = Cardinality(LimitNudges(Context)) + 1
      BY <3>1, <3>7, FS_AddElement
    <3>9. /\ IsFiniteSet(LimitNudges(Context)')
          /\ Cardinality(LimitNudges(Context)') <= Cardinality(LimitNudges(Context) \cup {n})
      BY <3>6, <3>8, FS_Subset
    <3>10. Cardinality(LimitNudges(Context)') \in Nat /\ Cardinality(LimitNudges(Context)) \in Nat
      BY <3>7, <3>9, FS_CardinalityType
    <3>11. LimitCount' <= LimitCount + 1 /\ LimitCount' \in Nat /\ LimitCount \in Nat
      BY <3>8, <3>9, <3>10 DEF LimitCount
    <3> QED  BY <3>11, <2>2, <1>2, <1>9
  <2> QED  BY <2>1, <2>2
<1>11. event = "nudgeLimit" => NudgesInBudget'
  <2> SUFFICES ASSUME event = "nudgeLimit"  PROVE NudgesInBudget'
    OBVIOUS
  <2>1. nudges'.limit <= maxOutputLimitNudges /\ nudges'.limit \in Nat
    BY <1>9 DEF maxOutputLimitNudges
  <2>2. LimitCount' \in Nat
    <3>1. LimitNudges(Context)' \subseteq Rows' /\ Rows' = Rows \cup {<<c, new>>}
      BY <1>7 DEF RowInserted, LimitNudges, Context
    <3>2. IsFiniteSet(Rows \cup {<<c, new>>})
      BY <1>1, RowsAreFinite, FS_AddElement
    <3>3. IsFiniteSet(LimitNudges(Context)')
      BY <3>1, <3>2, FS_Subset
    <3>4. Cardinality(LimitNudges(Context)') \in Nat
      BY <3>3, FS_CardinalityType
    <3> QED  BY <3>4 DEF LimitCount
  <2>3. LimitCount' <= maxOutputLimitNudges
    BY <2>1, <2>2, <1>10 DEF maxOutputLimitNudges
  <2>4. HasTurn(c - 1)'
    BY <1>2, <1>3, <1>8
  <2>5. \A s \in Steps : \A i \in DOMAIN log'[s] : i \in DOMAIN log[s] \/ s = c
    BY <1>7 DEF Inserted
  <2>6. ASSUME NEW s \in Steps, NEW i \in DOMAIN log'[s], log'[s][i].k = "nudgeLimit"
        PROVE  0 < s
    <3>1. CASE s = c
      BY <3>1, <1>2, <1>3
    <3>2. CASE s # c
      <4>1. i \in DOMAIN log[s] /\ log[s][i].k = "nudgeLimit"
        BY <2>5, <2>6, <3>2, <1>7 DEF Inserted
      <4> QED  BY <4>1, <1>1 DEF DurableInv, NudgesInBudget
    <3> QED  BY <3>1, <3>2
  <2>7. HasTurn(curStep - 1)' /\ curStep' = curStep
    BY <2>4, <1>1, <1>3
  <2> QED  BY <2>3, <2>6, <2>7 DEF NudgesInBudget
<1>12. /\ DurableInv' /\ ~StreamAtRest'
       /\ \A s \in Int : s >= c => SpokenUpTo(s)'
  <2>1. log' = LogWith(c, event, 0) /\ c <= curStep /\ c = curStep
    BY <1>1, <1>3
  <2> QED  BY <2>1, <1>1, <1>3, <1>4, <1>11, InsertDurable
<1>13. TypeOK'
  <2>1. -1 \in -1..MaxStep
    BY BoundsAssumption
  <2> QED  BY <2>1, <1>1, <1>6, <1>9 DEF TypeOK
<1>14. CallsKnown'
  BY <1>1, <1>2, <1>8 DEF CallsKnown, Complete
<1>15. PlaceFits'
  <2>1. HasTurn(curStep - 1)' /\ curStep' = curStep
    BY <1>1, <1>2, <1>3, <1>8
  <2> QED  BY <1>1, <2>1 DEF PlaceFits, Booting, Deciding, Answering
<1>16. VerdictFits'
  BY <1>1, <1>12 DEF VerdictFits
<1>17. SomethingSaid'
  <2>1. SpokenUpTo(c)'
    BY <1>3, <1>12
  <2>2. SpokenUpTo(curStep)'
    BY <2>1, <1>1, <1>3
  <2> QED  BY <2>2, <1>1 DEF SomethingSaid
<1>18. NudgesCounted'
  BY <1>1, <1>10 DEF NudgesCounted, Booting, Answering
<1> QED
  BY <1>12, <1>13, <1>14, <1>15, <1>16, <1>17, <1>18 DEF IInv, LifeInv

\* A conclusion ends the goroutine and changes no row.
LEMMA ConcludeInv ==
  ASSUME IInv, Conclude  PROVE IInv'
<1>1. /\ TypeOK /\ DurableInv /\ Stop /\ UNCHANGED <<curStep, gen, lastFin, log, profile,
                                                     cancelling>>
      /\ status' \in {status, "concluded"}
  BY DEF IInv, Conclude, others
<1>2. TypeOK'
  BY <1>1, StopTyped DEF TypeOK, Terminal
<1> QED  BY <1>1, <1>2, SameDurable, StopLeavesNothing DEF IInv

\* What becomes of a turn without calls: idle, refused, nudged or concluded.
LEMMA VerdictInv ==
  ASSUME IInv, Verdict  PROVE IInv'
<1>1. CASE ParkIdle
  BY <1>1, ParkIdleInv
<1>2. CASE Refused
  BY <1>2, FailInv DEF Refused
<1>3. nudges.limit \in Nat /\ nudges.empty \in Nat
  BY DEF IInv, TypeOK
<1>4. CASE OutputLimit
  <2>1. CASE nudges.limit >= maxOutputLimitNudges
    BY <1>4, <2>1, FailInv DEF OutputLimit
  <2>2. CASE ~(nudges.limit >= maxOutputLimitNudges)
    <3>1. Nudge("nudgeLimit", "limit") /\ pc \in {"verdict", "tail"}
      BY <1>4, <2>2 DEF OutputLimit, Judging
    <3>2. nudges.limit < maxOutputLimitNudges
      BY <1>3, <2>2 DEF maxOutputLimitNudges
    <3> QED  BY <3>1, <3>2, NudgeInv
  <2> QED  BY <2>1, <2>2
<1>5. CASE EmptyTurn
  <2>1. CASE nudges.empty >= maxConcludeNudges
    BY <1>5, <2>1, FailInv DEF EmptyTurn
  <2>2. CASE ~(nudges.empty >= maxConcludeNudges)
    <3>1. Nudge("nudgeEmpty", "empty") /\ pc \in {"verdict", "tail"}
      BY <1>5, <2>2 DEF EmptyTurn, Judging
    <3>2. nudges.empty < maxConcludeNudges
      BY <1>3, <2>2 DEF maxConcludeNudges
    <3> QED  BY <3>1, <3>2, NudgeInv
  <2> QED  BY <2>1, <2>2
<1>6. CASE Conclude
  BY <1>6, ConcludeInv
<1> QED  BY <1>1, <1>2, <1>4, <1>5, <1>6 DEF Verdict

\* A session that waited too long leaves its slot.
LEMMA IdleTimeoutInv ==
  ASSUME IInv, IdleTimeout  PROVE IInv'
<1>1. TypeOK /\ DurableInv /\ Stop /\ UNCHANGED <<status, curStep, gen, lastFin, log,
                                                  profile, cancelling>>
  BY DEF IInv, IdleTimeout, durable, others
<1>2. TypeOK'
  BY <1>1, StopTyped DEF TypeOK
<1> QED  BY <1>1, <1>2, SameDurable, StopLeavesNothing DEF IInv

\* The actions of a turn, from the wait to its last result.
LEMMA TurnInv ==
  ASSUME IInv, Turn  PROVE IInv'
<1>1. CASE StartLoop \/ IdleTimeout \/ AdvanceStep \/ ReuseStep
  BY <1>1, StartLoopInv, IdleTimeoutInv, AdvanceStepInv, ReuseStepInv
<1>2. CASE \E n \in 1..MaxCalls : AnswerWithTools(n) \/ AppendResult(n)
  BY <1>2, AnswerWithToolsInv, AppendResultInv
<1>3. CASE \E kind \in Replies : AnswerWithoutTools(kind)
  BY <1>3, RepliesAssumption, AnswerWithoutToolsInv
<1>4. CASE FinishTools \/ CountArrivals \/ CompactContext
  BY <1>4, FinishToolsInv, CountArrivalsInv, CompactContextInv
<1>5. CASE ProviderFails
  BY <1>5, FailInv DEF ProviderFails
<1> QED  BY <1>1, <1>2, <1>3, <1>4, <1>5 DEF Turn

-----------------------------------------------------------------------------
\* The invariant.

\* No session is there.
LEMMA InitInv ==
  ASSUME Init  PROVE IInv
<1>1. /\ curStep = 0 /\ gen = 0 /\ lastFin = 0 /\ pc = "create" /\ callStep = -1
      /\ needsAdvance = TRUE /\ status = "none" /\ log = [s \in Steps |-> <<>>]
      /\ \A s \in Steps : s \in Nat
  BY BoundsAssumption DEF Init, Steps
<1>2. TypeOK
  <2>1. /\ -1 \in -1..MaxStep /\ 0 \in 0..MaxGen /\ 0 \in Steps
    BY BoundsAssumption DEF Steps
  <2>2. <<>> \in Seq(Events)
    BY EmptySeq
  <2>3. log \in [Steps -> Seq(Events)]
    BY <1>1, <2>2
  <2>4. /\ nudges \in [empty : 0..maxConcludeNudges, limit : 0..maxOutputLimitNudges]
        /\ compactions \in 0..maxConsecutiveCompactions
    BY DEF Init, maxConcludeNudges, maxOutputLimitNudges, maxConsecutiveCompactions
  <2> QED  BY <2>1, <2>3, <2>4 DEF Init, TypeOK
<1>3. DOMAIN log = Steps /\ \A s \in Steps : DOMAIN log[s] = {}
  <2>1. \A s \in Steps : log[s] = <<>> /\ DOMAIN log[s] = 1..0
    BY <1>1
  <2> QED  BY <1>1, <2>1
<1>4. \A s \in Steps : ~HasTurn(s) /\ Calls(s) = {} /\ Complete(s)
  BY <1>3 DEF HasTurn, Calls, Complete
<1>5. StepsInOrder /\ GenerationsInOrder /\ CallsInOrder /\ StepsFinished
  BY <1>1, <1>3, <1>4 DEF StepsInOrder, GenerationsInOrder, CallsInOrder, StepsFinished
<1>6. StepCallable
  BY <1>1 DEF StepCallable
<1>7. NudgesInBudget
  <2>1. LimitCount = 0
    BY <1>2, <1>3, CountTyped
  <2> QED  BY <2>1, <1>3 DEF NudgesInBudget, maxOutputLimitNudges
<1>8. LifeInv
  <2>1. CallsKnown /\ VerdictFits /\ SomethingSaid
    BY <1>1 DEF CallsKnown, VerdictFits, SomethingSaid
  <2>2. PlaceFits
    BY <1>1, <1>4 DEF PlaceFits, Booting, Deciding, Answering
  <2>3. NudgesCounted
    BY <1>1, <1>3 DEF NudgesCounted, Booting, Deciding, Answering
  <2> QED  BY <2>1, <2>2, <2>3 DEF LifeInv
<1> QED  BY <1>2, <1>5, <1>6, <1>7, <1>8 DEF IInv, DurableInv

\* Every step keeps the invariant.
LEMMA NextInv ==
  ASSUME IInv, [Next]_vars  PROVE IInv'
<1>1. CASE Next
  BY <1>1, BootstrapInv, ReconcileInv, TurnInv, VerdictInv, OutsideInv DEF Next
<1>2. CASE UNCHANGED vars
  <2>1. /\ TypeOK /\ DurableInv /\ LifeInv
        /\ UNCHANGED <<profile, status, curStep, gen, lastFin, log, pc, callStep,
                       needsAdvance, reply, orphans, nudges, compactions, cancelling>>
    BY <1>2 DEF IInv, vars, durable, local, others
  <2>2. TypeOK'
    BY <2>1 DEF TypeOK
  <2>3. DurableInv'
    BY <2>1, SameDurable
  <2>4. pc = "repair" => \A s \in Steps, n \in 1..MaxCalls :
          <<s, n>> \in orphans' <=> n \in Calls(s)' \ Results(s)'
    BY <2>1, SameLog DEF LifeInv, CallsKnown
  <2>5. LifeInv'
    BY <2>1, <2>4, SameLog, LifeKept
  <2> QED  BY <2>2, <2>3, <2>5 DEF IInv
<1> QED  BY <1>1, <1>2

-----------------------------------------------------------------------------
\* The theorems.

\* Every reachable state satisfies the invariant: what the rows promise any
\* life, and what the goroutine knows of them at each place of Run and loop.
THEOREM Invariance == Spec => []IInv
<1>1. Init => IInv
  BY InitInv
<1>2. IInv /\ [Next]_vars => IInv'
  BY NextInv
<1> QED  BY <1>1, <1>2, PTL DEF Spec

\* Every write of the loop, of reconcileResume and of the canceller keeps the
\* rows, the Session row and the goroutine's variables well typed.
THEOREM TypeCorrect == Spec => []TypeOK
<1>1. IInv => TypeOK
  BY DEF IInv
<1> QED  BY <1>1, Invariance, PTL

\* A set whose members are all equal has none or one.
LEMMA AtMostOne ==
  ASSUME NEW S, \A i, j \in S : i = j
  PROVE  /\ S = {} => Cardinality(S) = 0
         /\ S # {} => Cardinality(S) = 1
<1>1. CASE S = {}
  BY <1>1, FS_EmptySet
<1>2. CASE S # {}
  <2>1. PICK x \in S : TRUE
    BY <1>2
  <2>2. S = {x}
    BY <2>1
  <2> QED  BY <2>2, FS_Singleton
<1> QED  BY <1>1, <1>2

\* Of a step with a turn there is one turn.
LEMMA TurnsCounted ==
  ASSUME IInv, NEW s \in Steps
  PROVE  /\ ~HasTurn(s) => CountIn(s, IsAsst) = 0
         /\ HasTurn(s) => CountIn(s, IsAsst) = 1
<1> DEFINE S == {i \in DOMAIN log[s] : IsAsst(log[s][i])}
<1>1. CountIn(s, IsAsst) = Cardinality(S)
  BY DEF CountIn
<1>2. \A i, j \in S : i = j
  BY DEF IInv, DurableInv, StepsInOrder
<1>3. HasTurn(s) <=> S # {}
  BY DEF HasTurn
<1> HIDE DEF S
<1>4. (S = {} => Cardinality(S) = 0) /\ (S # {} => Cardinality(S) = 1)
  BY <1>2, AtMostOne
<1> QED  BY <1>1, <1>3, <1>4

\* "AssistantEvent (exactly 1)": callStep is reused until its turn is written
\* (MustAdvance, ReuseStep), so no life leaves a step empty or answers it twice.
THEOREM OneTurnPerStep == Spec => []OneAssistantPerStep
<1>1. IInv => OneAssistantPerStep
  <2> SUFFICES ASSUME IInv, NEW s \in DOMAIN log \ {0}
               PROVE  /\ CountIn(s, IsAsst) <= IF s < curStep THEN 1 ELSE 0
                      /\ s < curStep - 1 => CountIn(s, IsAsst) = 1
    BY DEF OneAssistantPerStep
  <2>1. s \in Steps /\ s \in Nat /\ s # 0 /\ curStep \in Nat
    BY LogShape, CallStepFits DEF IInv
  <2>2. /\ ~HasTurn(s) => CountIn(s, IsAsst) = 0
        /\ HasTurn(s) => CountIn(s, IsAsst) = 1
    BY <2>1, TurnsCounted
  <2>3. (s >= curStep => ~HasTurn(s)) /\ (0 < s /\ s < curStep - 1 => HasTurn(s))
    BY <2>1 DEF IInv, DurableInv, StepsInOrder
  <2> QED  BY <2>1, <2>2, <2>3
<1> QED  BY <1>1, Invariance, PTL

\* The tool of a call or the placeholder of repairOrphanToolCalls answers it,
\* never both, and MarkStepFinalized only follows when all are answered.
THEOREM EveryCallAnsweredOnce == Spec => []CallsAnsweredOnce
<1>1. IInv => CallsAnsweredOnce
  <2> SUFFICES ASSUME IInv, NEW s \in DOMAIN log \ {0}, NEW n \in 1..MaxCalls
        PROVE  LET calls == CountIn(s, LAMBDA e : e.k = "tools" /\ n <= e.n)
                   results == CountIn(s, LAMBDA e : e.k = "result" /\ e.n = n)
               IN  /\ results <= calls
                   /\ s <= lastFin => results = calls /\ CountIn(s, IsAsst) = 1
    BY DEF CallsAnsweredOnce
  <2> DEFINE C == {i \in DOMAIN log[s] : log[s][i].k = "tools" /\ n <= log[s][i].n}
             R == {i \in DOMAIN log[s] : log[s][i].k = "result" /\ log[s][i].n = n}
  <2>1. s \in Steps /\ s \in Nat /\ 0 < s
    BY LogShape, CallStepFits DEF IInv
  <2>2. /\ CountIn(s, LAMBDA e : e.k = "tools" /\ n <= e.n) = Cardinality(C)
        /\ CountIn(s, LAMBDA e : e.k = "result" /\ e.n = n) = Cardinality(R)
    BY DEF CountIn
  <2>3. \A i, j \in C : i = j
    BY <2>1 DEF IInv, DurableInv, StepsInOrder, IsAsst, AsstKinds
  <2>4. \A i, j \in R : i = j
    BY <2>1 DEF IInv, DurableInv, CallsInOrder
  <2>5. R # {} => C # {}
    BY <2>1 DEF IInv, DurableInv, CallsInOrder
  <2>6. s <= lastFin => HasTurn(s) /\ (C # {} => R # {})
    <3>1. s <= lastFin => HasTurn(s) /\ Complete(s)
      BY <2>1 DEF IInv, DurableInv, StepsFinished
    <3>2. C # {} => n \in Calls(s)
      BY DEF Calls
    <3>3. n \in Results(s) => R # {}
      BY DEF Results
    <3> QED  BY <3>1, <3>2, <3>3 DEF Complete
  <2> HIDE DEF C, R
  <2>7. /\ (C = {} => Cardinality(C) = 0) /\ (C # {} => Cardinality(C) = 1)
        /\ (R = {} => Cardinality(R) = 0) /\ (R # {} => Cardinality(R) = 1)
    BY <2>3, <2>4, AtMostOne
  <2>8. /\ Cardinality(R) <= Cardinality(C)
        /\ s <= lastFin => Cardinality(R) = Cardinality(C) /\ CountIn(s, IsAsst) = 1
    BY <2>1, <2>5, <2>6, <2>7, TurnsCounted
  <2> QED  BY <2>2, <2>8
<1> QED  BY <1>1, Invariance, PTL

\* Whatever a life died of, the next request has every call answered, ends in
\* something to react to, and is more than the frame (buildRequest's context).
THEOREM RequestsAreAccepted == Spec => []ProviderSafeContext
<1>1. IInv => ProviderSafeContext
  <2> SUFFICES ASSUME IInv, pc = "llm"
        PROVE  LET sent == {r \in Context : r[1] <= callStep}
               IN  /\ Orphans = {} /\ ~EndsIn(sent, AsstKinds)
                   /\ \E r \in sent : Event(r).k \notin {"system", "marker"}
    BY DEF ProviderSafeContext
  <2>1. callStep \in Steps /\ callStep = curStep - 1 /\ callStep \in Nat /\ curStep \in Nat
    BY CallStepIsOpen, CallStepFits
  <2>2. Orphans = {}
    <3>1. Orphans \subseteq Steps \X (1..MaxCalls)
      BY LogShape DEF IInv, Orphans
    <3>2. \A s \in Steps, n \in 1..MaxCalls : n \notin Calls(s) \ Results(s)
      BY DEF IInv, LifeInv, CallsKnown, Complete
    <3> QED  BY <3>1, <3>2, ContextShowsStep
  <2>3. ~TurnIsTail(callStep)
    <3>1. ~HasTurn(callStep)
      BY DEF IInv, LifeInv, PlaceFits
    <3> QED  BY <2>1, <3>1 DEF IInv, DurableInv, StepCallable
  <2>4. SpokenUpTo(callStep)
    BY DEF IInv, LifeInv, SomethingSaid
  <2> QED  BY <2>2, <2>3, <2>4 DEF TurnIsTail, SpokenUpTo
<1> QED  BY <1>1, Invariance, PTL

\* CompactContext carries what is past the boundary into the new generation:
\* a message that arrived during the failed call is still in the context.
THEOREM UnansweredIsKept == Spec => []UnansweredStaysInContext
<1>1. IInv => UnansweredStaysInContext
  <2> SUFFICES ASSUME IInv, NEW s \in DOMAIN log \ {0}, CountIn(s, IsAsst) = 0,
                      NEW i \in DOMAIN log[s]
               PROVE  log[s][i].g = gen
    BY DEF UnansweredStaysInContext
  <2>1. s \in Steps /\ s \in Nat /\ 0 < s /\ curStep \in Nat
    BY LogShape, CallStepFits DEF IInv
  <2>2. ~HasTurn(s)
    BY <2>1, TurnsCounted
  <2>3. ~(s < curStep - 1)
    BY <2>1, <2>2 DEF IInv, DurableInv, StepsInOrder
  <2>4. curStep - 1 <= s
    BY <2>1, <2>3
  <2>5. \A t \in Steps : \A j \in DOMAIN log[t] :
          0 < t /\ curStep - 1 <= t => log[t][j].g = gen
    BY DEF IInv, DurableInv, GenerationsInOrder
  <2> QED  BY <2>1, <2>4, <2>5
<1> QED  BY <1>1, Invariance, PTL

\* What the log is read for: a step's turn and a call's result are there once,
\* through whatever crash, repairOrphanToolCalls and revival.
THEOREM LogIsWhole == Spec => []AnsweredOnce
BY OneTurnPerStep, EveryCallAnsweredOnce, PTL DEF AnsweredOnce

\* What the context is for: every request is one the provider accepts, and no
\* compaction has taken what is not answered out of it (tryCompact's boundary).
THEOREM ContextIsServed == Spec => []ContextServes
BY RequestsAreAccepted, UnansweredIsKept, PTL DEF ContextServes

\* outputLimitNudgesFromHistory gives every life the count its predecessors
\* left, so a cold restart cannot reset the retry budget before a compaction.
THEOREM BudgetOutlivesLives == Spec => []BudgetSurvivesRestarts
<1>1. IInv => BudgetSurvivesRestarts
  <2> SUFFICES ASSUME IInv, gen = 0  PROVE OutputLimitBudget
    BY DEF BudgetSurvivesRestarts
  <2>1. \A r \in Rows : Event(r).g = gen
    <3>1. \A s \in Steps : \A i \in DOMAIN log[s] : log[s][i].g \in Nat
      BY LogShape DEF IInv, Events
    <3>2. \A s \in Steps : \A i \in DOMAIN log[s] : log[s][i].g <= gen
      BY DEF IInv, DurableInv, GenerationsInOrder
    <3>3. \A s \in Steps : \A i \in DOMAIN log[s] : log[s][i].g = gen
      BY <3>1, <3>2
    <3> QED  BY <3>3, LogShape DEF IInv
  <2>2. Context = Rows
    BY <2>1 DEF Context, InContext
  <2> QED  BY <2>2 DEF IInv, DurableInv, NudgesInBudget, LimitCount, OutputLimitBudget
<1> QED  BY <1>1, Invariance, PTL

-----------------------------------------------------------------------------
\* Steps that change finalized steps, and the step that concludes.

\* The events of a step stay, and what joins them is a marker or a summary.
Frozen(s) ==
  /\ \A i \in DOMAIN log[s] :
       /\ i \in DOMAIN log'[s]
       /\ log'[s][i].k = log[s][i].k /\ log'[s][i].n = log[s][i].n
  /\ \A i \in DOMAIN log'[s] \ DOMAIN log[s] :
       log'[s][i].k \in {"marker", "compaction"}

\* A row that goes to an open step, or is a marker, changes no finalized step.
LEMMA InsertFreezes ==
  ASSUME IInv, NEW t \in Steps, NEW kind \in Kinds, NEW m \in 0..MaxCalls,
         log' = LogWith(t, kind, m),
         kind = "marker" \/ t = 0 \/ lastFin < t
  PROVE  \A s \in Steps \ {0} : s <= lastFin => Frozen(s)
<1> DEFINE e == [k |-> kind, n |-> m, g |-> gen]
<1>1. PICK new \in Nat : Inserted(t, new, e)
  BY InsertRow DEF IInv
<1>2. lastFin \in Nat /\ \A s \in Steps : s \in Nat
  BY DEF IInv, TypeOK, Steps
<1>3. e.k = kind
  OBVIOUS
<1> HIDE DEF e
<1>4. ASSUME NEW s \in Steps \ {0}, s <= lastFin  PROVE Frozen(s)
  <2>1. CASE s = t
    <3>1. kind = "marker"
      BY <1>2, <1>4, <2>1
    <3> QED  BY <1>1, <1>3, <2>1, <3>1 DEF Inserted, Frozen
  <2>2. CASE s # t
    BY <1>1, <2>2 DEF Inserted, Frozen
  <2> QED  BY <2>1, <2>2
<1> QED  BY <1>4

\* Nor does no row.
LEMMA SameLogFreezes ==
  ASSUME log' = log  PROVE \A s : Frozen(s)
BY DEF Frozen

\* The current step is past the last finalized one.
LEMMA CurrentStepIsOpen ==
  ASSUME IInv
  PROVE  /\ curStep \in Steps /\ (curStep = 0 \/ lastFin < curStep)
         /\ \A s \in Steps : s \in Nat
<1>1. lastFin \in Nat /\ curStep \in Nat /\ curStep \in Steps /\ \A s \in Steps : s \in Nat
  BY DEF IInv, TypeOK, Steps
<1> QED  BY <1>1 DEF IInv, DurableInv, StepsFinished

\* What is written at the current step disturbs nothing finalized.
LEMMA AppendFreezes ==
  ASSUME IInv, NEW kind \in Kinds, AppendEvent(kind)
  PROVE  \A s \in Steps \ {0} : s <= lastFin => Frozen(s)
<1>1. PICK c \in Steps : c = curStep /\ (c = 0 \/ lastFin < c)
  BY CurrentStepIsOpen
<1>2. log' = LogWith(c, kind, 0) /\ 0 \in 0..MaxCalls
  BY <1>1, BoundsAssumption DEF AppendEvent
<1> QED  BY <1>1, <1>2, InsertFreezes

\* failSession writes a marker only.
LEMMA FailFreezes ==
  ASSUME IInv, Fail
  PROVE  lastFin' = lastFin /\ \A s \in Steps \ {0} : s <= lastFin => Frozen(s)
<1>1. lastFin' = lastFin
  BY DEF Fail
<1>2. CASE status \in Terminal
  BY <1>1, <1>2, SameLogFreezes DEF Fail
<1>3. CASE status \notin Terminal
  <2>1. PICK t \in Steps : t = IF callStep >= 0 THEN callStep ELSE curStep
    BY CallStepFits
  <2>2. log' = LogWith(t, "marker", 0) /\ "marker" \in Kinds /\ 0 \in 0..MaxCalls
    BY <1>3, <2>1, BoundsAssumption DEF Fail, Kinds
  <2> QED  BY <1>1, <2>2, InsertFreezes
<1> QED  BY <1>2, <1>3

\* The cursor of finalized steps never goes back.
LEMMA CursorGrows ==
  ASSUME IInv, NEW t \in Steps, lastFin' = Max({lastFin, t})
  PROVE  lastFin <= lastFin'
<1>1. {lastFin, t} \subseteq Steps /\ {lastFin, t} # {}
  BY DEF IInv, TypeOK
<1> QED  BY <1>1, MaxOfSteps

\* The bootstrap writes to the steps it opens.
LEMMA BootstrapFreezes ==
  ASSUME IInv, Bootstrap
  PROVE  lastFin' = lastFin /\ \A s \in Steps \ {0} : s <= lastFin => Frozen(s)
<1>1. lastFin' = lastFin
  BY DEF Bootstrap, CreateSession, SeedFrame, SeedTask, SeedRecall,
         AdvancePastBootstrap, SeedFirstMessage, ParkWithoutTask
<1>2. log' = log \/ \E kind \in {"system", "task", "input"} : AppendEvent(kind)
  BY DEF Bootstrap, CreateSession, SeedFrame, SeedTask, SeedRecall,
         AdvancePastBootstrap, SeedFirstMessage, ParkWithoutTask
<1>3. {"system", "task", "input"} \subseteq Kinds
  BY DEF Kinds, UserKinds
<1> QED  BY <1>1, <1>2, <1>3, SameLogFreezes, AppendFreezes

\* A repaired call is of a step that is not finalized.
LEMMA ReconcileFreezes ==
  ASSUME IInv, Reconcile
  PROVE  lastFin <= lastFin' /\ \A s \in Steps \ {0} : s <= lastFin => Frozen(s)
<1>1. lastFin \in Nat /\ lastFin \in Steps /\ \A s \in Steps : s \in Nat
  BY DEF IInv, TypeOK, Steps
<1>2. CASE LoadHistory
  <2>1. lastFin' = lastFin /\ log' = log
    BY <1>2 DEF LoadHistory, durable
  <2> QED  BY <1>1, <2>1, SameLogFreezes
<1>3. CASE FinalizeRecovered
  <2> DEFINE S == {lastFin} \cup {s \in Steps : HasAssistant(s)}
  <2>1. lastFin' = Max(S) /\ log' = log
    BY <1>3 DEF FinalizeRecovered
  <2>2. S \subseteq Steps /\ S # {} /\ lastFin \in S
    BY <1>1
  <2> HIDE DEF S
  <2>3. lastFin <= lastFin'
    BY <2>1, <2>2, MaxOfSteps
  <2> QED  BY <2>1, <2>3, SameLogFreezes
<1>4. ASSUME NEW o \in orphans, RepairOrphan(o)
      PROVE  lastFin <= lastFin' /\ \A s \in Steps \ {0} : s <= lastFin => Frozen(s)
  <2>1. /\ lastFin' = lastFin /\ log' = LogWith(o[1], "result", o[2])
        /\ pc = "repair"
    BY <1>4 DEF RepairOrphan
  <2>2. PICK t \in Steps, m \in 1..MaxCalls : o = <<t, m>>
    BY <1>4 DEF IInv, TypeOK
  <2>3. m \in Calls(t) \ Results(t)
    BY <1>4, <2>1, <2>2 DEF IInv, LifeInv, CallsKnown
  <2>4. ~(0 < t /\ t <= lastFin)
    BY <2>3 DEF IInv, DurableInv, StepsFinished, Complete
  <2>5. t = 0 \/ lastFin < t
    BY <1>1, <2>4
  <2>6. m \in 0..MaxCalls /\ "result" \in Kinds /\ log' = LogWith(t, "result", m)
    BY <2>1, <2>2, BoundsAssumption DEF Kinds
  <2>7. \A s \in Steps \ {0} : s <= lastFin => Frozen(s)
    BY <2>5, <2>6, InsertFreezes
  <2> QED  BY <1>1, <2>1, <2>7
<1> QED  BY <1>2, <1>3, <1>4 DEF Reconcile

\* A turn writes to its own step, and a compaction moves rows between generations only.
LEMMA TurnFreezes ==
  ASSUME IInv, Turn
  PROVE  lastFin <= lastFin' /\ \A s \in Steps \ {0} : s <= lastFin => Frozen(s)
<1>1. lastFin \in Nat /\ lastFin \in Steps /\ \A s \in Steps : s \in Nat
  BY DEF IInv, TypeOK, Steps
<1>2. CASE StartLoop \/ IdleTimeout \/ AdvanceStep \/ ReuseStep \/ CountArrivals
  <2>1. lastFin' = lastFin /\ log' = log
    BY <1>2 DEF StartLoop, IdleTimeout, AdvanceStep, ReuseStep, CountArrivals, durable
  <2> QED  BY <1>1, <2>1, SameLogFreezes
<1>3. ASSUME NEW n \in 1..MaxCalls, AnswerWithTools(n)
      PROVE  lastFin <= lastFin' /\ \A s \in Steps \ {0} : s <= lastFin => Frozen(s)
  <2>1. /\ lastFin' = lastFin /\ log' = LogWith(callStep, "tools", n)
        /\ callStep \in Steps /\ (callStep = 0 \/ lastFin < callStep)
    BY <1>3, CallStepIsOpen DEF AnswerWithTools
  <2>2. "tools" \in Kinds /\ n \in 0..MaxCalls
    BY BoundsAssumption DEF Kinds, AsstKinds
  <2>3. \A s \in Steps \ {0} : s <= lastFin => Frozen(s)
    BY <2>1, <2>2, InsertFreezes
  <2> QED  BY <1>1, <2>1, <2>3
<1>4. ASSUME NEW n \in 1..MaxCalls, AppendResult(n)
      PROVE  lastFin <= lastFin' /\ \A s \in Steps \ {0} : s <= lastFin => Frozen(s)
  <2>1. /\ lastFin' = lastFin /\ log' = LogWith(callStep, "result", n) /\ pc = "tools"
        /\ Declared(callStep, n) /\ ~Answered(callStep, n)
    BY <1>4 DEF AppendResult
  <2>2. callStep \in Steps /\ n \in Calls(callStep) /\ n \notin Results(callStep)
    BY <2>1, AnsweringStepShows DEF Answering
  <2>3. ~(0 < callStep /\ callStep <= lastFin)
    BY <2>2 DEF IInv, DurableInv, StepsFinished, Complete
  <2>4. callStep = 0 \/ lastFin < callStep
    BY <1>1, <2>2, <2>3
  <2>5. "result" \in Kinds /\ n \in 0..MaxCalls
    BY BoundsAssumption DEF Kinds
  <2>6. \A s \in Steps \ {0} : s <= lastFin => Frozen(s)
    BY <2>1, <2>2, <2>4, <2>5, InsertFreezes
  <2> QED  BY <1>1, <2>1, <2>6
<1>5. CASE FinishTools
  <2>1. lastFin' = Max({lastFin, callStep}) /\ log' = log /\ pc = "tools"
    BY <1>5 DEF FinishTools
  <2>2. callStep \in Steps
    BY <2>1, AnsweringStepShows DEF Answering
  <2> QED  BY <2>1, <2>2, CursorGrows, SameLogFreezes
<1>6. ASSUME NEW kind \in Replies, AnswerWithoutTools(kind)
      PROVE  lastFin <= lastFin' /\ \A s \in Steps \ {0} : s <= lastFin => Frozen(s)
  <2>1. /\ lastFin' = Max({lastFin, callStep}) /\ log' = LogWith(callStep, kind, 0)
        /\ callStep \in Steps /\ (callStep = 0 \/ lastFin < callStep)
    BY <1>6, CallStepIsOpen DEF AnswerWithoutTools
  <2>2. kind \in Kinds /\ 0 \in 0..MaxCalls
    BY RepliesAssumption, BoundsAssumption DEF Kinds, AsstKinds
  <2>3. \A s \in Steps \ {0} : s <= lastFin => Frozen(s)
    BY <2>1, <2>2, InsertFreezes
  <2> QED  BY <2>1, <2>3, CursorGrows
<1>7. CASE ProviderFails
  <2>1. lastFin' = lastFin /\ \A s \in Steps \ {0} : s <= lastFin => Frozen(s)
    BY <1>7, FailFreezes DEF ProviderFails
  <2> QED  BY <1>1, <2>1
<1>8. CASE CompactContext
  <2>1. lastFin' = lastFin /\ pc = "llm" /\ Boundary >= 1 /\ TypeOK
    BY <1>8 DEF CompactContext, IInv
  <2>2. callStep \in Steps /\ callStep \in Nat
    BY <2>1, CallStepIsOpen
  <2>3. PICK b \in Steps : b = Boundary
    BY <2>1, <2>2, BoundsAssumption DEF Boundary, Steps
  <2>4. PICK new \in Nat : Compacted(b, new)
    BY <1>8, <2>1, <2>3, CompactionShape
  <2>5. /\ \A s \in Steps : \A i \in DOMAIN log[s] :
             log'[s][i].k = log[s][i].k /\ log'[s][i].n = log[s][i].n
        /\ \A s \in Steps : s # b => DOMAIN log'[s] = DOMAIN log[s]
        /\ DOMAIN log'[b] = DOMAIN log[b] \cup {new} /\ log'[b][new].k = "compaction"
    BY <2>4 DEF Compacted
  <2>6. \A s \in Steps : Frozen(s)
    BY <2>5 DEF Frozen
  <2> QED  BY <1>1, <2>1, <2>6
<1> QED  BY <1>2, <1>3, <1>4, <1>5, <1>6, <1>7, <1>8 DEF Turn

\* A verdict writes a nudge to an open step, or nothing.
LEMMA VerdictFreezes ==
  ASSUME IInv, Verdict
  PROVE  lastFin' = lastFin /\ \A s \in Steps \ {0} : s <= lastFin => Frozen(s)
<1>1. CASE ParkIdle \/ Conclude
  <2>1. lastFin' = lastFin /\ log' = log
    BY <1>1 DEF ParkIdle, Conclude
  <2> QED  BY <2>1, SameLogFreezes
<1>2. CASE Fail
  BY <1>2, FailFreezes
<1>3. ASSUME NEW event \in {"nudgeLimit", "nudgeEmpty"}, NEW counter, Nudge(event, counter)
      PROVE  lastFin' = lastFin /\ \A s \in Steps \ {0} : s <= lastFin => Frozen(s)
  <2>1. lastFin' = lastFin /\ AppendEvent(event) /\ event \in Kinds
    BY <1>3 DEF Nudge, Kinds, UserKinds
  <2> QED  BY <2>1, AppendFreezes
<1> QED  BY <1>1, <1>2, <1>3 DEF Verdict, Refused, OutputLimit, EmptyTurn

\* Who writes from outside writes to the current step, or a marker.
LEMMA OutsideFreezes ==
  ASSUME IInv, Outside
  PROVE  lastFin' = lastFin /\ \A s \in Steps \ {0} : s <= lastFin => Frozen(s)
<1>1. /\ lastFin' = lastFin
      /\ log' = log \/ \E kind \in {"input", "notice", "recover", "marker"} : AppendEvent(kind)
  BY DEF Outside, Die, Interrupt, Recover, Cancel, Arrive, durable
<1>2. {"input", "notice", "recover", "marker"} \subseteq Kinds
  BY DEF Kinds, UserKinds
<1> QED  BY <1>1, <1>2, SameLogFreezes, AppendFreezes

\* The observer summarizes up to last_finalized_step once: no later life, late
\* tool, arrival, cancel or compaction changes what a finalized step said.
THEOREM FinalizedStays == Spec => FinalizedStepsFrozen
<1>1. IInv /\ [Next]_vars =>
        /\ lastFin <= lastFin'
        /\ \A s \in DOMAIN log \ {0} : s <= lastFin => Frozen(s)
  <2> SUFFICES ASSUME IInv, [Next]_vars
               PROVE  /\ lastFin <= lastFin'
                      /\ \A s \in Steps \ {0} : s <= lastFin => Frozen(s)
    BY LogShape DEF IInv
  <2>1. lastFin \in Nat
    BY DEF IInv, TypeOK, Steps
  <2>2. CASE Bootstrap \/ Verdict \/ Outside
    <3>1. lastFin' = lastFin /\ \A s \in Steps \ {0} : s <= lastFin => Frozen(s)
      BY <2>2, BootstrapFreezes, VerdictFreezes, OutsideFreezes
    <3> QED  BY <2>1, <3>1
  <2>3. CASE Reconcile \/ Turn
    BY <2>3, ReconcileFreezes, TurnFreezes
  <2>4. CASE UNCHANGED vars
    <3>1. lastFin' = lastFin /\ log' = log
      BY <2>4 DEF vars, durable
    <3> QED  BY <2>1, <3>1, SameLogFreezes
  <2> QED  BY <2>2, <2>3, <2>4 DEF Next
<1>2. IInv /\ [Next]_vars =>
        [/\ lastFin <= lastFin'
         /\ \A s \in DOMAIN log \ {0} : s <= lastFin =>
              /\ \A i \in DOMAIN log[s] :
                   /\ i \in DOMAIN log'[s]
                   /\ log'[s][i].k = log[s][i].k /\ log'[s][i].n = log[s][i].n
              /\ \A i \in DOMAIN log'[s] \ DOMAIN log[s] :
                   log'[s][i].k \in {"marker", "compaction"}]_vars
  BY <1>1 DEF Frozen
<1> QED  BY <1>2, Invariance, PTL DEF Spec, FinalizedStepsFrozen

\* Only a conclusion concludes.
LEMMA ConcludedByConclude ==
  ASSUME Next, status' = "concluded", status # "concluded"  PROVE Conclude
<1>1. CASE Bootstrap
  BY <1>1 DEF Bootstrap, CreateSession, SeedFrame, SeedTask, SeedRecall,
              AdvancePastBootstrap, SeedFirstMessage, ParkWithoutTask
<1>2. CASE Reconcile
  BY <1>2 DEF Reconcile, LoadHistory, FinalizeRecovered, RepairOrphan, durable
<1>3. CASE Turn
  BY <1>3 DEF Turn, StartLoop, IdleTimeout, AdvanceStep, ReuseStep, AnswerWithTools,
              AppendResult, FinishTools, AnswerWithoutTools, CountArrivals,
              ProviderFails, Fail, CompactContext, durable
<1>4. CASE Verdict
  BY <1>4 DEF Verdict, ParkIdle, Refused, OutputLimit, EmptyTurn, Nudge, Fail
<1>5. CASE Outside
  BY <1>5 DEF Outside, Die, Recover, Cancel, Interrupt, Arrive, durable
<1> QED  BY <1>1, <1>2, <1>3, <1>4, <1>5 DEF Next

\* Judged in the loop or as the tail of a dead life (tailAssistantAtRest), a
\* session concludes only when the last turn of all its rows is a text.
THEOREM ConcludesOnText == Spec => ConclusionIsAnswer
<1>1. IInv /\ [Next]_vars =>
        (status' = "concluded" /\ status # "concluded" => LastTurnIsText')
  <2> SUFFICES ASSUME IInv, [Next]_vars, status' = "concluded", status # "concluded"
               PROVE  LastTurnIsText'
    OBVIOUS
  <2>1. Next
    BY DEF vars, durable
  <2>2. Conclude
    BY <2>1, ConcludedByConclude
  <2>3. pc \in {"verdict", "tail"} /\ reply = "text" /\ UNCHANGED <<log, gen>>
    BY <2>2 DEF Conclude, Judging
  <2>4. LastTurn("text")
    BY <2>3, JudgedTurn
  <2>5. LastTurn("text")'
    BY <2>3, <2>4, SameLog DEF Kept, NoToolKinds
  <2> QED  BY <2>5 DEF LastTurn, Turns, LastTurnIsText
<1>2. IInv /\ [Next]_vars =>
        [status' = "concluded" /\ status # "concluded" => LastTurnIsText']_vars
  BY <1>1
<1> QED  BY <1>2, Invariance, PTL DEF Spec, ConclusionIsAnswer

-----------------------------------------------------------------------------
\* The refinement: the log is a transcript.

\* What a step does to the conversation.
Tells == [Conversation!Next]_Conversation!vars

\* A step has one turn, so that is the one TurnOf finds.
LEMMA TurnFound ==
  IInv => \A s \in Steps : \A i \in DOMAIN log[s] : IsAsst(log[s][i]) => TurnOf(s) = i
<1> SUFFICES ASSUME IInv, NEW s \in Steps, NEW i \in DOMAIN log[s], IsAsst(log[s][i])
             PROVE  TurnOf(s) = i
  OBVIOUS
<1>1. \A j \in DOMAIN log[s] : IsAsst(log[s][j]) => j = i
  BY DEF IInv, DurableInv, StepsInOrder
<1> QED  BY <1>1 DEF TurnOf

\* What is said is the kind of each turn of the steps that have one.
LEMMA SaidShape ==
  IInv => /\ DOMAIN Said = {s \in Steps \ {0} : HasTurn(s)}
          /\ Said = [s \in DOMAIN Said |-> Said[s]]
          /\ \A s \in Steps \ {0} : \A i \in DOMAIN log[s] :
               IsAsst(log[s][i]) => Said[s] = log[s][i].k
<1> SUFFICES ASSUME IInv
             PROVE  /\ DOMAIN Said = {s \in Steps \ {0} : HasTurn(s)}
                    /\ Said = [s \in DOMAIN Said |-> Said[s]]
                    /\ \A s \in Steps \ {0} : \A i \in DOMAIN log[s] :
                         IsAsst(log[s][i]) => Said[s] = log[s][i].k
  OBVIOUS
<1>1. TurnSteps = {s \in Steps \ {0} : HasTurn(s)}
  BY LogShape DEF TurnSteps, HasTurn, IInv
<1>2. DOMAIN Said = TurnSteps /\ Said = [s \in DOMAIN Said |-> Said[s]]
  BY DEF Said
<1>3. ASSUME NEW s \in Steps \ {0}, NEW i \in DOMAIN log[s], IsAsst(log[s][i])
      PROVE  Said[s] = log[s][i].k
  <2>1. s \in TurnSteps
    BY <1>1, <1>3 DEF HasTurn
  <2>2. TurnOf(s) = i
    BY <1>3, TurnFound
  <2> QED  BY <2>1, <2>2 DEF Said
<1> QED  BY <1>1, <1>2, <1>3

\* The open calls, by step.
LEMMA OpenShape ==
  IInv => OpenCalls = {c \in (Steps \ {0}) \X (1..MaxCalls) :
                         c[2] \in Calls(c[1]) /\ c[2] \notin Results(c[1])}
<1> SUFFICES ASSUME IInv
             PROVE  OpenCalls = {c \in (Steps \ {0}) \X (1..MaxCalls) :
                                   c[2] \in Calls(c[1]) /\ c[2] \notin Results(c[1])}
  OBVIOUS
<1>1. DOMAIN log = Steps
  BY LogShape DEF IInv
<1>2. \A c \in (Steps \ {0}) \X (1..MaxCalls) : c[1] \in Steps \ {0} /\ c[2] \in 1..MaxCalls
  OBVIOUS
<1> QED  BY <1>1, <1>2 DEF OpenCalls, Calls, Results

\* What keeps the rows of every step and adds no turn adds nothing to what is said.
LEMMA NothingSaid ==
  ASSUME IInv, IInv',
         \A s \in Steps \ {0} :
           /\ HasTurn(s)' => HasTurn(s)
           /\ \A i \in DOMAIN log[s] : i \in DOMAIN log'[s] /\ log'[s][i].k = log[s][i].k
  PROVE  Said' = Said
<1> DEFINE T == {s \in Steps \ {0} : HasTurn(s)}
<1>1. /\ DOMAIN Said = T /\ Said = [s \in DOMAIN Said |-> Said[s]]
      /\ \A s \in Steps \ {0} : \A i \in DOMAIN log[s] :
           IsAsst(log[s][i]) => Said[s] = log[s][i].k
  BY SaidShape
<1>2. /\ DOMAIN Said' = {s \in Steps \ {0} : HasTurn(s)'}
      /\ Said' = [s \in DOMAIN Said' |-> Said'[s]]
      /\ \A s \in Steps \ {0} : \A i \in DOMAIN log'[s] :
           IsAsst(log'[s][i]) => Said'[s] = log'[s][i].k
  <2>1. (/\ DOMAIN Said = {s \in Steps \ {0} : HasTurn(s)}
         /\ Said = [s \in DOMAIN Said |-> Said[s]]
         /\ \A s \in Steps \ {0} : \A i \in DOMAIN log[s] :
              IsAsst(log[s][i]) => Said[s] = log[s][i].k)'
    BY SaidShape, PTL
  <2> QED  BY <2>1 DEF IsAsst
<1>3. ASSUME NEW s \in Steps \ {0}, HasTurn(s)
      PROVE  HasTurn(s)' /\ Said'[s] = Said[s]
  <2>1. PICK i \in DOMAIN log[s] : IsAsst(log[s][i])
    BY <1>3 DEF HasTurn
  <2>2. i \in DOMAIN log'[s] /\ log'[s][i].k = log[s][i].k
    BY <2>1
  <2>3. IsAsst(log'[s][i])
    BY <2>1, <2>2 DEF IsAsst
  <2>4. HasTurn(s)'
    BY <2>2, <2>3 DEF HasTurn, IsAsst
  <2> QED  BY <1>1, <1>2, <2>1, <2>2, <2>3, <2>4
<1>4. DOMAIN Said' = DOMAIN Said
  BY <1>1, <1>2, <1>3
<1>5. \A s \in DOMAIN Said : Said'[s] = Said[s]
  BY <1>1, <1>3
<1> QED  BY <1>1, <1>2, <1>4, <1>5

\* Nor does it open or answer a call when it leaves calls and results alone.
LEMMA NothingTold ==
  ASSUME IInv, IInv',
         \A s \in Steps \ {0} :
           /\ HasTurn(s)' => HasTurn(s)
           /\ \A i \in DOMAIN log[s] : i \in DOMAIN log'[s] /\ log'[s][i].k = log[s][i].k
           /\ Calls(s)' = Calls(s) /\ Results(s)' = Results(s)
  PROVE  Tells
<1>1. Said' = Said
  BY NothingSaid
<1>2. OpenCalls' = {c \in (Steps \ {0}) \X (1..MaxCalls) :
                      c[2] \in Calls(c[1])' /\ c[2] \notin Results(c[1])'}
  <2>1. (OpenCalls = {c \in (Steps \ {0}) \X (1..MaxCalls) :
                        c[2] \in Calls(c[1]) /\ c[2] \notin Results(c[1])})'
    BY OpenShape, PTL
  <2> QED  BY <2>1
<1>3. \A c \in (Steps \ {0}) \X (1..MaxCalls) : c[1] \in Steps \ {0}
  OBVIOUS
<1>4. OpenCalls' = OpenCalls
  BY <1>2, <1>3, OpenShape
<1> QED  BY <1>1, <1>4 DEF Tells, Conversation!vars

\* A step that leaves the log alone tells nothing.
LEMMA SilentTold ==
  ASSUME IInv, IInv', log' = log  PROVE Tells
<1>1. \A s \in Steps \ {0} :
        /\ HasTurn(s)' => HasTurn(s)
        /\ \A i \in DOMAIN log[s] : i \in DOMAIN log'[s] /\ log'[s][i].k = log[s][i].k
        /\ Calls(s)' = Calls(s) /\ Results(s)' = Results(s)
  BY DEF HasTurn, Calls, Results
<1> QED  BY <1>1, NothingTold

\* Neither does an event that is no turn and no result, nor any event of step 0.
LEMMA AsideTold ==
  ASSUME IInv, IInv', NEW t \in Steps, NEW kind \in Kinds, NEW m \in 0..MaxCalls,
         log' = LogWith(t, kind, m), t = 0 \/ kind \notin AsstKinds \cup {"result"}
  PROVE  Tells
<1> DEFINE e == [k |-> kind, n |-> m, g |-> gen]
<1>1. PICK new \in Nat : Inserted(t, new, e)
  BY InsertRow DEF IInv
<1>2. ASSUME NEW s \in Steps \ {0}
      PROVE  /\ HasTurn(s)' => HasTurn(s)
             /\ \A i \in DOMAIN log[s] : i \in DOMAIN log'[s] /\ log'[s][i].k = log[s][i].k
             /\ Calls(s)' = Calls(s) /\ Results(s)' = Results(s)
  <2>1. CASE s # t
    <3>1. log'[s] = log[s]
      BY <1>1, <2>1 DEF Inserted
    <3> QED  BY <3>1 DEF HasTurn, Calls, Results, IsAsst
  <2>2. CASE s = t
    <3>1. e.k = kind /\ kind \notin AsstKinds \cup {"result"} /\ kind # "tools"
      BY <2>2 DEF AsstKinds
    <3>2. /\ DOMAIN log'[s] = DOMAIN log[s] \cup {new} /\ log'[s][new] = e
          /\ \A i \in DOMAIN log[s] : log'[s][i] = log[s][i]
      BY <1>1, <2>2 DEF Inserted
    <3> HIDE DEF e
    <3> QED  BY <3>1, <3>2 DEF HasTurn, Calls, Results, IsAsst
  <2> QED  BY <2>1, <2>2
<1> QED  BY <1>2, NothingTold

\* The result of an open call answers it.
LEMMA ResultTold ==
  ASSUME IInv, IInv', NEW t \in Steps, NEW m \in Calls(t) \ Results(t),
         log' = LogWith(t, "result", m)
  PROVE  Tells
<1> DEFINE e == [k |-> "result", n |-> m, g |-> gen]
<1>1. m \in 1..MaxCalls /\ m \in 0..MaxCalls /\ "result" \in Kinds
  BY BoundsAssumption DEF Calls, Kinds
<1>2. CASE t = 0
  BY <1>1, <1>2, AsideTold
<1>3. CASE t # 0
  <2>1. PICK new \in Nat : Inserted(t, new, e)
    BY <1>1, InsertRow DEF IInv
  <2>2. /\ DOMAIN log'[t] = DOMAIN log[t] \cup {new} /\ log'[t][new] = e
        /\ \A i \in DOMAIN log[t] : log'[t][i] = log[t][i]
        /\ \A s \in Steps : s # t => log'[s] = log[s]
    BY <2>1 DEF Inserted
  <2>3. e.k = "result" /\ e.n = m
    OBVIOUS
  <2> HIDE DEF e
  <2>4. /\ HasTurn(t)' => HasTurn(t)
        /\ Calls(t)' = Calls(t) /\ Results(t)' = Results(t) \cup {m}
    BY <1>1, <2>2, <2>3 DEF HasTurn, Calls, Results, IsAsst, AsstKinds, NoToolKinds
  <2>5. \A s \in Steps : s # t => /\ HasTurn(s)' => HasTurn(s)
                                  /\ Calls(s)' = Calls(s) /\ Results(s)' = Results(s)
    BY <2>2 DEF HasTurn, Calls, Results, IsAsst
  <2>6. Said' = Said
    BY <2>2, <2>4, <2>5, NothingSaid
  <2>7. OpenCalls' = {c \in (Steps \ {0}) \X (1..MaxCalls) :
                        c[2] \in Calls(c[1])' /\ c[2] \notin Results(c[1])'}
    <3>1. (OpenCalls = {c \in (Steps \ {0}) \X (1..MaxCalls) :
                          c[2] \in Calls(c[1]) /\ c[2] \notin Results(c[1])})'
      BY OpenShape, PTL
    <3> QED  BY <3>1
  <2>8. OpenCalls = {c \in (Steps \ {0}) \X (1..MaxCalls) :
                       c[2] \in Calls(c[1]) /\ c[2] \notin Results(c[1])}
    BY OpenShape
  <2>9. <<t, m>> \in OpenCalls
    BY <1>1, <1>3, <2>8
  <2>10. ASSUME NEW c \in (Steps \ {0}) \X (1..MaxCalls)
         PROVE  c \in OpenCalls' <=> c \in OpenCalls /\ c # <<t, m>>
    <3>1. PICK s \in Steps \ {0}, n \in 1..MaxCalls : c = <<s, n>>
      OBVIOUS
    <3>2. c \in OpenCalls' <=> n \in Calls(s)' /\ n \notin Results(s)'
      BY <2>7, <3>1
    <3>3. c \in OpenCalls <=> n \in Calls(s) /\ n \notin Results(s)
      BY <2>8, <3>1
    <3>4. c = <<t, m>> <=> s = t /\ n = m
      BY <3>1
    <3> QED  BY <3>2, <3>3, <3>4, <2>4, <2>5
  <2>11. OpenCalls' = OpenCalls \ {<<t, m>>}
    BY <2>7, <2>8, <2>10
  <2>12. Conversation!AnswerCall
    BY <2>6, <2>9, <2>11 DEF Conversation!AnswerCall
  <2> QED  BY <2>12 DEF Tells, Conversation!Next
<1> QED  BY <1>2, <1>3

\* When the model is called, every step before its own has had its turn.
LEMMA SaidSoFar ==
  ASSUME IInv, pc = "llm", callStep # 0
  PROVE  /\ Said \in Seq(AsstKinds) /\ Len(Said) = callStep - 1
         /\ DOMAIN Said = 1..(callStep - 1) /\ OpenCalls = {}
<1>1. /\ StepsInOrder /\ callStep \in Steps /\ callStep = curStep - 1 /\ ~HasTurn(callStep)
      /\ \A s \in Steps : Complete(s)
  BY DEF IInv, DurableInv, LifeInv, PlaceFits, CallsKnown
<1>2. callStep \in Nat /\ curStep \in Nat /\ callStep <= MaxStep /\ MaxStep \in Nat
  BY <1>1, CallStepIsOpen, BoundsAssumption DEF IInv, TypeOK, Steps
<1>3. ASSUME NEW s \in Steps \ {0}  PROVE HasTurn(s) <=> s \in 1..(callStep - 1)
  <2>1. s \in Nat /\ 0 < s
    BY DEF Steps
  <2>2. (s >= curStep => ~HasTurn(s)) /\ (s < curStep - 1 => HasTurn(s))
    BY <1>1, <2>1 DEF StepsInOrder
  <2> QED  BY <1>1, <1>2, <2>1, <2>2
<1>4. \A s \in 1..(callStep - 1) : s \in Steps \ {0}
  BY <1>2 DEF Steps
<1>5. DOMAIN Said = 1..(callStep - 1)
  BY <1>3, <1>4, SaidShape
<1>6. ASSUME NEW s \in 1..(callStep - 1)  PROVE Said[s] \in AsstKinds
  <2>1. PICK i \in DOMAIN log[s] : IsAsst(log[s][i])
    BY <1>3, <1>4 DEF HasTurn
  <2>2. Said[s] = log[s][i].k
    BY <1>4, <2>1, SaidShape
  <2> QED  BY <2>1, <2>2 DEF IsAsst
<1>7. PICK n \in Nat : n = callStep - 1
  BY <1>2
<1>8. Said \in [1..n -> AsstKinds]
  BY <1>5, <1>6, <1>7, SaidShape
<1>9. Said \in Seq(AsstKinds) /\ Len(Said) = n
  BY <1>7, <1>8
<1>10. OpenCalls = {}
  <2>1. \A c \in (Steps \ {0}) \X (1..MaxCalls) : c[1] \in Steps
    OBVIOUS
  <2> QED  BY <1>1, <2>1, OpenShape DEF Complete
<1> QED  BY <1>5, <1>7, <1>9, <1>10

\* The turn of the step being called is said next, and opens its calls.
LEMMA TurnTold ==
  ASSUME IInv, IInv', pc = "llm", NEW kind \in AsstKinds, NEW m \in 0..MaxCalls,
         kind = "tools" <=> m # 0, log' = LogWith(callStep, kind, m)
  PROVE  Tells
<1>1. PICK t \in Steps : t = callStep /\ t \in Nat
  BY CallStepIsOpen
<1>2. kind \in Kinds /\ log' = LogWith(t, kind, m)
  BY <1>1 DEF Kinds
<1>3. CASE t = 0
  BY <1>2, <1>3, AsideTold
<1>4. CASE t # 0
  <2> DEFINE e == [k |-> kind, n |-> m, g |-> gen]
  <2>1. PICK new \in Nat : Inserted(t, new, e)
    BY <1>2, InsertRow DEF IInv
  <2>2. /\ DOMAIN log'[t] = DOMAIN log[t] \cup {new} /\ log'[t][new] = e
        /\ \A i \in DOMAIN log[t] : log'[t][i] = log[t][i]
        /\ \A s \in Steps : s # t => log'[s] = log[s]
    BY <2>1 DEF Inserted
  <2>3. e.k = kind /\ e.n = m
    OBVIOUS
  <2> HIDE DEF e
  <2>4. ~HasTurn(t) /\ t \in Steps \ {0}
    BY <1>1, <1>4 DEF IInv, LifeInv, PlaceFits
  <2>5. /\ HasTurn(t)' /\ Calls(t) = {} /\ Results(t) = {}
        /\ Calls(t)' = 1..m /\ Results(t)' = {}
    <3>1. \A i \in DOMAIN log[t] : log[t][i].k \notin AsstKinds
      BY <2>4 DEF HasTurn, IsAsst
    <3>2. \A i \in DOMAIN log[t] : log[t][i].k # "result"
      BY <3>1 DEF IInv, DurableInv, CallsInOrder, AsstKinds
    <3>3. Calls(t) = {} /\ Results(t) = {}
      BY <3>1, <3>2 DEF Calls, Results, AsstKinds
    <3>4. new \in DOMAIN log'[t] /\ IsAsst(log'[t][new])
      BY <2>2, <2>3 DEF IsAsst
    <3>5. HasTurn(t)'
      BY <3>4 DEF HasTurn, IsAsst
    <3>6. kind # "result"
      BY DEF AsstKinds, NoToolKinds
    <3>7. Results(t)' = {}
      BY <2>2, <2>3, <3>2, <3>6 DEF Results
    <3>8. Calls(t)' = {n \in 1..MaxCalls : kind = "tools" /\ n <= m}
      BY <2>2, <2>3, <3>1 DEF Calls, AsstKinds
    <3>9. Calls(t)' = 1..m
      BY <3>8, BoundsAssumption
    <3> QED  BY <3>3, <3>5, <3>7, <3>9
  <2>6. \A s \in Steps : s # t => /\ HasTurn(s)' <=> HasTurn(s)
                                  /\ Calls(s)' = Calls(s) /\ Results(s)' = Results(s)
    BY <2>2 DEF HasTurn, Calls, Results, IsAsst
  <2>7. /\ Said \in Seq(AsstKinds) /\ Len(Said) = t - 1
        /\ DOMAIN Said = 1..(t - 1) /\ OpenCalls = {}
    BY <1>1, <1>4, SaidSoFar
  <2>8. /\ DOMAIN Said' = {s \in Steps \ {0} : HasTurn(s)'}
        /\ Said' = [s \in DOMAIN Said' |-> Said'[s]]
        /\ \A s \in Steps \ {0} : \A i \in DOMAIN log'[s] :
             IsAsst(log'[s][i]) => Said'[s] = log'[s][i].k
    <3>1. (/\ DOMAIN Said = {s \in Steps \ {0} : HasTurn(s)}
           /\ Said = [s \in DOMAIN Said |-> Said[s]]
           /\ \A s \in Steps \ {0} : \A i \in DOMAIN log[s] :
                IsAsst(log[s][i]) => Said[s] = log[s][i].k)'
      BY SaidShape, PTL
    <3> QED  BY <3>1 DEF IsAsst
  <2>9. DOMAIN Said = {s \in Steps \ {0} : HasTurn(s)}
    BY SaidShape
  <2>10. DOMAIN Said' = 1..t
    <3>1. DOMAIN Said' = DOMAIN Said \cup {t}
      BY <2>4, <2>5, <2>6, <2>8, <2>9
    <3> QED  BY <1>1, <1>4, <2>7, <3>1
  <2>11. Said'[t] = kind
    <3>1. new \in DOMAIN log'[t] /\ IsAsst(log'[t][new]) /\ log'[t][new].k = kind
      BY <2>2, <2>3 DEF IsAsst
    <3> QED  BY <2>4, <2>8, <3>1
  <2>12. ASSUME NEW s \in 1..(t - 1)  PROVE Said'[s] = Said[s]
    <3>1. s \in Steps \ {0} /\ s # t /\ HasTurn(s)
      <4>1. s \in DOMAIN Said
        BY <2>7
      <4>2. s # t
        BY <1>1
      <4> QED  BY <2>9, <4>1, <4>2
    <3>2. PICK i \in DOMAIN log[s] : IsAsst(log[s][i])
      BY <3>1 DEF HasTurn
    <3>3. i \in DOMAIN log'[s] /\ log'[s][i] = log[s][i]
      BY <2>2, <3>1
    <3>4. Said[s] = log[s][i].k /\ Said'[s] = log'[s][i].k
      BY <2>8, <3>1, <3>2, <3>3, SaidShape
    <3> QED  BY <3>3, <3>4
  <2>13. Said' = Append(Said, kind)
    <3>1. PICK said \in Seq(AsstKinds) : said = Said
      BY <2>7
    <3>2. PICK next \in Seq(AsstKinds) : next = Append(said, kind)
      BY AppendProperties
    <3>3. /\ DOMAIN next = 1..t /\ next[t] = kind
          /\ \A s \in 1..(t - 1) : next[s] = said[s]
      BY <1>1, <1>4, <2>7, <3>1, <3>2, AppendProperties, LenProperties
    <3>4. next = [s \in 1..t |-> next[s]]
      BY <3>3, LenProperties
    <3>5. \A s \in 1..t : Said'[s] = next[s]
      BY <1>1, <1>4, <2>11, <2>12, <3>1, <3>3
    <3> QED  BY <2>8, <2>10, <3>1, <3>2, <3>4, <3>5
  <2>14. OpenCalls' = {Len(Said) + 1} \X (1..m)
    <3>1. OpenCalls' = {c \in (Steps \ {0}) \X (1..MaxCalls) :
                          c[2] \in Calls(c[1])' /\ c[2] \notin Results(c[1])'}
      <4>1. (OpenCalls = {c \in (Steps \ {0}) \X (1..MaxCalls) :
                            c[2] \in Calls(c[1]) /\ c[2] \notin Results(c[1])})'
        BY OpenShape, PTL
      <4> QED  BY <4>1
    <3>2. ASSUME NEW s \in Steps \ {0}, NEW n \in 1..MaxCalls
          PROVE  <<s, n>> \in OpenCalls' <=> s = t /\ n \in 1..m
      <4>1. <<s, n>> \in OpenCalls <=> n \in Calls(s) /\ n \notin Results(s)
        BY OpenShape
      <4>2. <<s, n>> \in OpenCalls' <=> n \in Calls(s)' /\ n \notin Results(s)'
        BY <3>1
      <4> QED  BY <2>5, <2>6, <2>7, <4>1, <4>2
    <3>3. Len(Said) + 1 = t /\ 1..m \subseteq 1..MaxCalls
      BY <1>1, <2>7, BoundsAssumption
    <3> QED  BY <2>4, <3>1, <3>2, <3>3
  <2>15. Conversation!Take(kind, m)
    BY <2>7, <2>13, <2>14 DEF Conversation!Take
  <2>16. CASE kind = "tools"
    <3>1. m \in 1..MaxCalls
      BY <2>16, BoundsAssumption
    <3> QED  BY <2>15, <2>16, <3>1 DEF Tells, Conversation!Next
  <2>17. CASE kind # "tools"
    <3>1. m = 0 /\ kind \in AsstKinds \ {"tools"}
      BY <2>17
    <3> QED  BY <2>15, <3>1 DEF Tells, Conversation!Next
  <2> QED  BY <2>16, <2>17
<1> QED  BY <1>3, <1>4

\* AppendEvent adds nothing to the conversation unless it is a turn or a result.
LEMMA AppendTold ==
  ASSUME IInv, IInv', NEW kind \in Kinds \ (AsstKinds \cup {"result"}), AppendEvent(kind)
  PROVE  Tells
<1>1. curStep \in Steps /\ 0 \in 0..MaxCalls
  BY BoundsAssumption DEF IInv, TypeOK
<1> QED  BY <1>1, AsideTold DEF AppendEvent

\* Kinds that are neither a turn nor a result.
LEMMA AsideKinds ==
  UserKinds \cup {"system", "notice", "marker"} \subseteq Kinds \ (AsstKinds \cup {"result"})
BY DEF Kinds, UserKinds, AsstKinds, NoToolKinds

\* Nor does the marker of a failure.
LEMMA FailTold ==
  ASSUME IInv, IInv', Fail  PROVE Tells
<1>1. CASE status \in Terminal
  BY <1>1, SilentTold DEF Fail
<1>2. CASE status \notin Terminal
  <2>1. PICK t \in Steps : t = IF callStep >= 0 THEN callStep ELSE curStep
    BY CallStepFits DEF IInv
  <2>2. log' = LogWith(t, "marker", 0) /\ 0 \in 0..MaxCalls
    BY <1>2, <2>1, BoundsAssumption DEF Fail
  <2> QED  BY <2>2, AsideKinds, AsideTold
<1> QED  BY <1>1, <1>2

\* Bootstrap writes no turn.
LEMMA BootstrapTold ==
  ASSUME IInv, IInv', Bootstrap  PROVE Tells
<1>1. log' = log \/ \E kind \in {"system", "task", "input"} : AppendEvent(kind)
  BY DEF Bootstrap, CreateSession, SeedFrame, SeedTask, SeedRecall,
         AdvancePastBootstrap, SeedFirstMessage, ParkWithoutTask
<1> QED  BY <1>1, SilentTold, AppendTold, AsideKinds DEF UserKinds

\* The repair answers the calls a dead life left open (repairOrphanToolCalls).
LEMMA ReconcileTold ==
  ASSUME IInv, IInv', Reconcile  PROVE Tells
<1>1. CASE LoadHistory \/ FinalizeRecovered
  <2>1. log' = log
    BY <1>1 DEF LoadHistory, FinalizeRecovered, durable
  <2> QED  BY <2>1, SilentTold
<1>2. ASSUME NEW o \in orphans, RepairOrphan(o)  PROVE Tells
  <2>1. log' = LogWith(o[1], "result", o[2]) /\ pc = "repair"
    BY <1>2 DEF RepairOrphan
  <2>2. PICK t \in Steps, m \in 1..MaxCalls : o = <<t, m>>
    <3>1. o \in Steps \X (1..MaxCalls)
      BY <1>2 DEF IInv, TypeOK
    <3> QED  BY <3>1
  <2>3. m \in Calls(t) \ Results(t)
    BY <1>2, <2>1, <2>2 DEF IInv, LifeInv, CallsKnown
  <2>4. log' = LogWith(t, "result", m)
    BY <2>1, <2>2
  <2> QED  BY <2>3, <2>4, ResultTold
<1> QED  BY <1>1, <1>2 DEF Reconcile

\* A compaction moves rows between generations and writes a summary.
LEMMA CompactTold ==
  ASSUME IInv, IInv', CompactContext  PROVE Tells
<1>1. pc = "llm" /\ Boundary >= 1 /\ TypeOK
  BY DEF CompactContext, IInv
<1>2. PICK b \in Steps : b = Boundary
  <2>1. callStep \in Steps /\ callStep \in Nat
    BY <1>1, CallStepIsOpen
  <2> QED  BY <1>1, <2>1, BoundsAssumption DEF Boundary, Steps
<1>3. PICK new \in Nat : Compacted(b, new)
  BY <1>1, <1>2, CompactionShape
<1>4. ASSUME NEW s \in Steps \ {0}
      PROVE  /\ HasTurn(s)' => HasTurn(s)
             /\ \A i \in DOMAIN log[s] : i \in DOMAIN log'[s] /\ log'[s][i].k = log[s][i].k
             /\ Calls(s)' = Calls(s) /\ Results(s)' = Results(s)
  <2>1. /\ \A i \in DOMAIN log[s] : /\ i \in DOMAIN log'[s]
                                    /\ log'[s][i].k = log[s][i].k /\ log'[s][i].n = log[s][i].n
        /\ \A i \in DOMAIN log'[s] : i \in DOMAIN log[s] \/ log'[s][i].k = "compaction"
    BY <1>3 DEF Compacted
  <2>2. "compaction" \notin AsstKinds \cup {"tools", "result"}
    BY DEF AsstKinds, NoToolKinds
  <2> QED  BY <2>1, <2>2 DEF HasTurn, Calls, Results, IsAsst
<1> QED  BY <1>4, NothingTold

\* The loop takes turns and answers their calls.
LEMMA TurnsTold ==
  ASSUME IInv, IInv', Turn  PROVE Tells
<1>1. CASE StartLoop \/ IdleTimeout \/ AdvanceStep \/ ReuseStep \/ FinishTools \/ CountArrivals
  <2>1. log' = log
    BY <1>1 DEF StartLoop, IdleTimeout, AdvanceStep, ReuseStep, FinishTools, CountArrivals,
                durable
  <2> QED  BY <2>1, SilentTold
<1>2. ASSUME NEW n \in 1..MaxCalls, AnswerWithTools(n)  PROVE Tells
  <2>1. pc = "llm" /\ log' = LogWith(callStep, "tools", n)
    BY <1>2 DEF AnswerWithTools
  <2>2. "tools" \in AsstKinds /\ n \in 0..MaxCalls /\ n # 0
    BY BoundsAssumption DEF AsstKinds
  <2> QED  BY <2>1, <2>2, TurnTold
<1>3. ASSUME NEW n \in 1..MaxCalls, AppendResult(n)  PROVE Tells
  <2>1. /\ log' = LogWith(callStep, "result", n) /\ pc = "tools"
        /\ Declared(callStep, n) /\ ~Answered(callStep, n)
    BY <1>3 DEF AppendResult
  <2>2. callStep \in Steps /\ n \in Calls(callStep) \ Results(callStep)
    BY <2>1, AnsweringStepShows DEF Answering
  <2>3. PICK t \in Steps : t = callStep
    BY <2>2
  <2> QED  BY <2>1, <2>2, <2>3, ResultTold
<1>4. ASSUME NEW kind \in Replies, AnswerWithoutTools(kind)  PROVE Tells
  <2>1. pc = "llm" /\ log' = LogWith(callStep, kind, 0)
    BY <1>4 DEF AnswerWithoutTools
  <2>2. kind \in AsstKinds /\ kind # "tools" /\ 0 \in 0..MaxCalls
    BY RepliesAssumption, BoundsAssumption DEF AsstKinds, NoToolKinds
  <2> QED  BY <2>1, <2>2, TurnTold
<1>5. CASE ProviderFails
  BY <1>5, FailTold DEF ProviderFails
<1>6. CASE CompactContext
  BY <1>6, CompactTold
<1> QED  BY <1>1, <1>2, <1>3, <1>4, <1>5, <1>6 DEF Turn

\* A verdict writes a nudge, a marker or nothing.
LEMMA VerdictTold ==
  ASSUME IInv, IInv', Verdict  PROVE Tells
<1>1. log' = log \/ Fail \/ \E kind \in {"nudgeLimit", "nudgeEmpty"} : AppendEvent(kind)
  BY DEF Verdict, ParkIdle, Refused, OutputLimit, EmptyTurn, Conclude, Nudge
<1> QED  BY <1>1, SilentTold, FailTold, AppendTold, AsideKinds DEF UserKinds

\* No one else takes a turn, and the death of the goroutine writes nothing.
LEMMA OutsideTold ==
  ASSUME IInv, IInv', Outside  PROVE Tells
<1>1. log' = log \/ \E kind \in {"input", "notice", "recover", "marker"} : AppendEvent(kind)
  BY DEF Outside, Die, Interrupt, Recover, Cancel, Arrive, durable
<1> QED  BY <1>1, SilentTold, AppendTold, AsideKinds DEF UserKinds

\* A session is created with an empty log.
LEMMA FirstTold ==
  ASSUME Init  PROVE Conversation!Init
<1>1. IInv /\ DOMAIN log = Steps /\ \A s \in Steps : DOMAIN log[s] = {}
  <2>1. DOMAIN log = Steps /\ \A s \in Steps : log[s] = <<>> /\ DOMAIN log[s] = 1..0
    BY DEF Init
  <2> QED  BY <2>1, InitInv
<1>2. \A s \in Steps : ~HasTurn(s) /\ Calls(s) = {}
  BY <1>1 DEF HasTurn, Calls
<1>3. DOMAIN Said = {} /\ Said = [s \in DOMAIN Said |-> Said[s]]
  BY <1>1, <1>2, SaidShape
<1>4. Said = <<>>
  BY <1>3
<1>5. OpenCalls = {}
  <2>1. \A c \in (Steps \ {0}) \X (1..MaxCalls) : c[1] \in Steps
    OBVIOUS
  <2> QED  BY <1>1, <1>2, <2>1, OpenShape
<1> QED  BY <1>4, <1>5 DEF Conversation!Init

\* The log of a session is a plain transcript: every write of the loop, of
\* reconcileResume, of the canceller and of CompactContext is a turn of the
\* conversation, the answer of one call, or nothing its readers can tell.
THEOREM ReadsAsTranscript == Spec => LogIsTranscript
<1>1. Init => Conversation!Init
  BY FirstTold
<1>2. IInv /\ IInv' /\ [Next]_vars => [Conversation!Next]_Conversation!vars
  <2> SUFFICES ASSUME IInv, IInv', [Next]_vars  PROVE Tells
    BY DEF Tells
  <2>1. CASE Next
    BY <2>1, BootstrapTold, ReconcileTold, TurnsTold, VerdictTold, OutsideTold DEF Next
  <2>2. CASE UNCHANGED vars
    BY <2>2, SilentTold DEF vars, durable
  <2> QED  BY <2>1, <2>2
<1> QED  BY <1>1, <1>2, Invariance, PTL DEF Spec, LogIsTranscript, Conversation!Spec
=============================================================================

----------------------------- MODULE Transcript -----------------------------
(***************************************************************************)
(* What the event log of a session promises its readers (the provider, the *)
(* observer, the UI): a conversation.  Turns follow one another, a turn    *)
(* may declare calls, every call is answered once, and no turn is taken    *)
(* while one is open.  There is no crash here, and no restart.             *)
(***************************************************************************)
EXTENDS Naturals, Sequences

CONSTANTS
  TurnKinds,   \* the kinds of an assistant turn, "tools" among them
  MaxCalls     \* most tool calls in one turn

VARIABLES
  said,   \* the turns taken so far
  open    \* the calls without an answer, as <<turn, number>>

vars == <<said, open>>

Init == said = <<>> /\ open = {}

Take(kind, n) ==
  /\ open = {}
  /\ said' = Append(said, kind)
  /\ open' = {Len(said) + 1} \X (1..n)

AnswerCall == \E c \in open : open' = open \ {c} /\ UNCHANGED said

Next ==
  \/ \E kind \in TurnKinds \ {"tools"} : Take(kind, 0)
  \/ \E n \in 1..MaxCalls : Take("tools", n)
  \/ AnswerCall

Spec == Init /\ [][Next]_vars
=============================================================================

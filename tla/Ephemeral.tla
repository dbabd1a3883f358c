----------------------------- MODULE Ephemeral -----------------------------
(***************************************************************************)
(* Agents without a session: the in-memory tool loop of agent/ephemeral,   *)
(* which writes run reports (RunTyped) and context compactions (Run), and  *)
(* the bounded repair of llm/jsonextract, which reads the summaries of     *)
(* steps and phases and the mined lessons out of one reply.                *)
(*                                                                         *)
(* A reply is "calls" or the quality of a final text: "valid", "invalid"   *)
(* (it parses and its schema refuses it), "malformed", "empty".  Messages  *)
(* are kept as their roles, with the calls and results still to be paired. *)
(***************************************************************************)
EXTENDS Naturals, Sequences

CONSTANTS
  Agents,     \* the configurations: [kind, tools, force, maxIter, repairs]
  Final,      \* the texts a model may end with
  MaxCalls    \* tool calls of one reply

(* A budget is positive (0 is the default, 50), and RunTyped's caller gives *)
(* a forced answer room for its repairs (30 and 2, critic/report.go).      *)
EphemeralAssumption ==
  \A a \in Agents :
    /\ a.kind \in {"plain", "typed", "extract"}
    /\ a.maxIter \in Nat \ {0} /\ a.repairs \in Nat \ {0}
    /\ a.kind = "typed" /\ a.force => a.repairs <= a.maxIter

VARIABLES
  agent,       \* the configuration of this run
  pc,          \* "llm" | "reply" | "tools" | "repair" | "done"
  iter,        \* the iteration of run's loop, or the repair pass
  finalizing,  \* a final reply was refused: tools are not offered any more
  attempts,    \* final replies RunTyped refused
  messages,    \* roles: "system", "user", "text", "calls", "result"
  open,        \* tool calls of the last reply without a result
  request,     \* what the provider was asked for: [tools, disabled]
  calls,       \* LLM calls made
  defied,      \* replies with calls that were not offered, or were disabled
  result,      \* the quality of the text returned, or "none"
  outcome      \* "none" | "answer" | "unusable" | "exceeded" | "failed"

vars == <<agent, pc, iter, finalizing, attempts, messages, open, request, calls, defied, result,
          outcome>>

MaxOf(a, b) == IF a > b THEN a ELSE b

NoRequest == [tools |-> FALSE, disabled |-> FALSE]

Init ==
  /\ agent \in Agents
  /\ pc = "llm" /\ iter = 0 /\ finalizing = FALSE /\ attempts = 0
  /\ messages = IF agent.kind = "extract" THEN <<"user">> ELSE <<"system", "user">>
  /\ open = 0 /\ request = NoRequest /\ calls = 0 /\ defied = 0
  /\ result = "none" /\ outcome = "none"

End(o, text) ==
  /\ pc' = "done" /\ outcome' = o /\ result' = text

-----------------------------------------------------------------------------
(* The tool loop.                                                          *)

(* RunTyped: room to repair an answer that had to be forced.               *)
Reserve == IF agent.kind = "typed" /\ agent.force THEN agent.repairs ELSE 0

(* Mutant of ForceAt: the last iteration, whatever has to follow it.       *)
ForceAtLast == agent.maxIter - 1

(* The iteration whose reply may not call tools (ForceFinalAnswer).        *)
ForceAt == MaxOf(agent.maxIter - Reserve, 1) - 1

Loops == agent.kind # "extract"

(* The top of an iteration: a cancelled context, the nudge, the request.   *)
Ask ==
  /\ pc = "llm" /\ Loops /\ iter < agent.maxIter
  /\ LET forced == agent.force /\ ~finalizing /\ iter >= ForceAt /\ agent.tools
     IN  /\ messages' = IF forced /\ iter = ForceAt THEN Append(messages, "user") ELSE messages
         /\ request' = [tools |-> agent.tools /\ ~finalizing, disabled |-> forced]
  /\ pc' = "reply" /\ calls' = calls + 1
  /\ UNCHANGED <<agent, iter, finalizing, attempts, open, result, outcome, defied>>

Exceeded ==
  /\ pc = "llm" /\ Loops /\ iter = agent.maxIter
  /\ End("exceeded", "none")
  /\ UNCHANGED <<agent, iter, finalizing, attempts, messages, open, request, calls, defied>>

(* A cancelled context, or a provider that gives up.                       *)
Fail ==
  /\ pc \in {"llm", "reply"} /\ Loops
  /\ End("failed", "none")
  /\ UNCHANGED <<agent, iter, finalizing, attempts, messages, open, request, calls, defied>>

(* Whatever calls a reply holds are executed: a provider that cannot       *)
(* disable tools ignores the switch (provider.go, wire.go), and a call of  *)
(* a tool that was not offered is answered with an error.                  *)
ReplyWithCalls ==
  /\ pc = "reply" /\ Loops
  /\ \E n \in 1..MaxCalls : open' = n
  /\ messages' = Append(messages, "calls")
  /\ defied' = IF request.tools /\ ~request.disabled THEN defied ELSE defied + 1
  /\ pc' = "tools"
  /\ UNCHANGED <<agent, iter, finalizing, attempts, request, calls, result, outcome>>

(* tool.ExecuteAll: one result per call, an unknown tool and a tool that   *)
(* panics included; they run in parallel and are appended in call order.   *)
RunTools ==
  /\ pc = "tools"
  /\ messages' = messages \o [i \in 1..open |-> "result"]
  /\ open' = 0 /\ iter' = iter + 1 /\ pc' = "llm"
  /\ UNCHANGED <<agent, finalizing, attempts, request, calls, result, outcome, defied>>

(* RunTyped's onFinal, after its count of refused replies went up.         *)
GivesUp == attempts + 1 >= agent.repairs

(* A reply without calls: the answer of Run; RunTyped parses it, accepts,  *)
(* gives up, or asks again without offering tools.                         *)
ReplyWithText(q) ==
  /\ pc = "reply" /\ Loops
  /\ \/ /\ agent.kind = "plain" \/ q = "valid"
        /\ End(IF agent.kind = "plain" /\ q = "empty" THEN "unusable" ELSE "answer", q)
        /\ messages' = Append(messages, "text")
        /\ UNCHANGED <<iter, finalizing, attempts>>
     \/ /\ agent.kind = "typed" /\ q # "valid" /\ GivesUp
        /\ End("unusable", q)
        /\ attempts' = attempts + 1
        /\ messages' = Append(messages, "text")
        /\ UNCHANGED <<iter, finalizing>>
     \/ /\ agent.kind = "typed" /\ q # "valid" /\ ~GivesUp
        /\ attempts' = attempts + 1 /\ finalizing' = TRUE
        /\ messages' = messages \o <<"text", "user">>
        /\ iter' = iter + 1 /\ pc' = "llm"
        /\ UNCHANGED <<result, outcome>>
  /\ UNCHANGED <<agent, open, request, calls, defied>>

-----------------------------------------------------------------------------
(* jsonextract.Extract over the one reply of its caller: without a schema, *)
(* so that whatever parses is accepted.                                    *)

Parses(q) == q \in {"valid", "invalid"}

(* The caller's own call; the fallback it keeps is the outcome "unusable". *)
ExtractFirst(q) ==
  /\ pc = "llm" /\ ~Loops
  /\ calls' = calls + 1 /\ result' = q
  /\ IF Parses(q) THEN pc' = "done" /\ outcome' = "answer"
                  ELSE pc' = "repair" /\ outcome' = outcome
  /\ UNCHANGED <<agent, iter, finalizing, attempts, messages, open, request, defied>>

(* A pass of repair: a contextless call on the text that did not parse;    *)
(* a call that fails, and the last pass, return the parse error.           *)
RepairPass(q) ==
  /\ pc = "repair" /\ iter < agent.repairs
  /\ calls' = calls + 1 /\ iter' = iter + 1 /\ result' = q
  /\ IF Parses(q) THEN pc' = "done" /\ outcome' = "answer"
                  ELSE UNCHANGED <<pc, outcome>>
  /\ UNCHANGED <<agent, finalizing, attempts, messages, open, request, defied>>

RepairEnds ==
  /\ pc = "repair"
  /\ pc' = "done" /\ outcome' = "unusable"
  /\ UNCHANGED <<agent, iter, finalizing, attempts, messages, open, request, calls, result, defied>>

Finished == pc = "done" /\ UNCHANGED vars

Next ==
  \/ Ask \/ Exceeded \/ Fail \/ ReplyWithCalls \/ RunTools
  \/ \E q \in Final : ReplyWithText(q) \/ ExtractFirst(q) \/ RepairPass(q)
  \/ RepairEnds \/ Finished

Spec == Init /\ [][Next]_vars

-----------------------------------------------------------------------------
(* "a model that keeps calling tools still answers instead of the loop     *)
(* failing", and "a forced final answer must leave room to repair it"      *)
(* (ephemeral.go ForceFinalAnswer, finalReserve; typed.go RunTyped): the   *)
(* budget of a forced answer is exceeded only if the provider called tools *)
(* against its orders, and then it did so in every reserved iteration that *)
(* was not a refused answer; a report is given up only after every repair  *)
(* it was promised; and no repair goes past the budget.                    *)
ForcedAnswerLands ==
  /\ agent.force /\ outcome = "exceeded" =>
       defied > 0 /\ defied + attempts >= agent.maxIter - ForceAt
  /\ agent.kind = "typed" /\ outcome = "unusable" => attempts = agent.repairs
  /\ calls <= IF Loops THEN agent.maxIter ELSE 1 + agent.repairs
=============================================================================

----------------------------- MODULE BridgeCall -----------------------------
(***************************************************************************)
(* One generation over a dialled bridge, both ends of it: the provider     *)
(* (internal/llm/bridge: Call or Stream, the retries, the idle reader) and *)
(* the handler another amplio serves it with (model, line writer, pinger). *)
(***************************************************************************)
EXTENDS Integers, Sequences

CONSTANTS
  maxAttempts,
  Modes,              \* how the caller asks: "call", "stream"
  idleTimeout,        \* idle_timeout of the spec, 0 to disable
  defaultIdleTimeout,
  Statuses,           \* refusals the far end may answer with
  Errors,             \* what a failing model says: sets of signatures
  MaxDeltas           \* bound: deltas of one attempt

BridgeCallAssumption ==
  /\ maxAttempts \in Nat \ {0} /\ defaultIdleTimeout \in Nat \ {0}
  /\ idleTimeout \in Nat /\ MaxDeltas \in Nat
  /\ Modes \subseteq {"call", "stream"}

VARIABLES
  mode,
  pc,       \* the caller's end: "post", "ahead", "handed", "backoff", "ended"
  attempt,  \* withRetry's n
  replay,   \* subStream.replay
  shown,    \* deltas the caller was given, as <<attempt, number>>
  result,   \* how the call ended
  ctx,      \* "live" or "cancelled"
  silent,   \* time since the last byte of the response
  limit,    \* what the idle timer is set to
  net,      \* lines on their way to the caller
  far,      \* the handler: "idle", "model", "lines", "closing", "returned"
  deltas,   \* deltas it has written in this attempt
  pinger,   \* "off", "waiting", "writing", "stopped"
  said      \* history: how the model ended each attempt

caller == <<mode, pc, attempt, replay, shown, result, ctx>>
timer == <<silent, limit>>
server == <<far, deltas, pinger, said>>
vars == <<caller, timer, net, server>>

Line(type, body) == [type |-> type, body |-> body]
Outcome(kind, body) == [kind |-> kind, body |-> body]
Pending == Outcome("pending", {})

Init ==
  /\ mode \in Modes
  /\ pc = "post" /\ attempt = 1 /\ replay = FALSE
  /\ shown = <<>> /\ result = Pending /\ ctx = "live"
  /\ silent = 0 /\ limit = idleTimeout
  /\ net = <<>>
  /\ far = "idle" /\ deltas = 0 /\ pinger = "off"
  /\ said = <<>>

\* errors.go: a refusal's class.
codeForStatus(status) ==
  CASE status = 401 -> "unauthorized"
    [] status \in {403, 404} -> "not_allowed"
    [] OTHER -> "protocol"

\* Mutant of isTransient: overflow texts that also look transient are retried.
isTransientByText(code, text) == code = "provider" /\ "transient" \in text
\* retry.go: only the far model's own failures, and never an overflow.
isTransient(code, text) ==
  code = "provider" /\ "overflow" \notin text /\ "transient" \in text

End(outcome) == pc' = "ended" /\ result' = outcome /\ UNCHANGED <<mode, attempt, ctx>>

\* withRetry after a failed attempt.
Failed(code, text) ==
  IF isTransient(code, text) /\ attempt < maxAttempts /\ ctx = "live"
  THEN pc' = "backoff" /\ UNCHANGED <<mode, attempt, result, ctx>>
  ELSE End(Outcome(code, text))

\* The backoff: the next attempt, or the context ended during it.
Retry ==
  /\ pc = "backoff"
  /\ IF ctx = "live"
     THEN pc' = "post" /\ attempt' = attempt + 1 /\ UNCHANGED <<mode, result, ctx>>
     ELSE End(Outcome("cancelled", {}))
  /\ UNCHANGED <<replay, shown, timer, net, server>>

\* provider.post is refused: the request does not decode, its protocol is not
\* spoken (400), the token is wrong (401), the handle is not on the menu (403),
\* lending is off (404).
Refused ==
  /\ pc = "post"
  /\ \E status \in Statuses : Failed(codeForStatus(status), {})
  /\ UNCHANGED <<replay, shown, timer, net, server>>

\* The connection fails: the transport's business, not retried here.
Unreachable ==
  /\ pc = "post"
  /\ End(Outcome("transport", {}))
  /\ UNCHANGED <<replay, shown, timer, net, server>>

\* The handler answers 200, flushes its headers and starts its pinger; the idle
\* timer starts with the body. An earlier handler has returned by then.
Accepted ==
  /\ pc = "post" /\ far \in {"idle", "returned"}
  /\ pc' = "ahead" /\ silent' = 0 /\ limit' = idleTimeout
  /\ net' = <<>>
  /\ far' = "model" /\ deltas' = 0 /\ pinger' = "waiting"
  /\ UNCHANGED <<mode, attempt, replay, shown, result, ctx, said>>

Write(line) == net' = Append(net, line)

\* stream: provider.Stream blocks until the model answers, then each delta is
\* a line. A line waits for the writer's mutex.
Delta ==
  /\ far \in {"model", "lines"} /\ pinger # "writing" /\ deltas < MaxDeltas
  /\ far' = "lines" /\ deltas' = deltas + 1
  /\ Write(Line("delta", {<<attempt, deltas + 1>>}))
  /\ UNCHANGED <<caller, timer, pinger, said>>

\* The model ends: a final line, or its error text verbatim (errorLine). A bridge
\* that is not an amplio may end its response with neither.
Finish ==
  /\ far \in {"model", "lines"} /\ pinger # "writing"
  /\ \/ /\ Write(Line("final", {})) /\ said' = Append(said, {"final"})
     \/ \E e \in Errors : Write(Line("error", e)) /\ said' = Append(said, e)
     \/ said' = Append(said, {"none"}) /\ UNCHANGED net
  /\ far' = "closing"
  /\ UNCHANGED <<caller, timer, deltas, pinger>>

\* A write fails or the provider sees its context end: the caller is gone.
Abandoned ==
  /\ far \in {"model", "lines"} /\ pc \in {"ended", "backoff"}
  /\ far' = "closing" /\ said' = Append(said, {"gone"})
  /\ UNCHANGED <<caller, timer, net, deltas, pinger>>

\* The pinger: a line under the mutex at every tick, until stop is closed.
PingBegins ==
  /\ pinger = "waiting"
  /\ pinger' = "writing"
  /\ UNCHANGED <<caller, timer, net, far, deltas, said>>
PingEnds ==
  /\ pinger = "writing"
  /\ pinger' = "waiting"
  /\ IF Len(net) < MaxDeltas THEN Write(Line("ping", {})) ELSE UNCHANGED net
  /\ UNCHANGED <<caller, timer, far, deltas, said>>
PingerStops ==
  /\ pinger = "waiting" /\ far \in {"closing", "returned"}
  /\ pinger' = "stopped"
  /\ UNCHANGED <<caller, timer, net, far, deltas, said>>

\* The handler returns: close(stop), then it waits for the pinger.
Return ==
  /\ far = "closing" /\ pinger = "stopped"
  /\ far' = "returned"
  /\ UNCHANGED <<caller, timer, net, deltas, pinger, said>>

\* idleReader.Read: data resets the timer, to the default.
Received == silent' = 0 /\ limit' = IF limit = 0 THEN 0 ELSE defaultIdleTimeout

Reading == pc \in {"ahead", "handed"} /\ ~replay

\* readFinal (Call) ignores deltas; Stream hands over at its first one, and the
\* caller is given each once.
ReadDelta(line) ==
  /\ line.type = "delta"
  /\ IF mode = "call"
     THEN UNCHANGED <<pc, replay, shown>>
     ELSE /\ pc' = "handed"
          /\ replay' = (pc = "ahead")
          /\ shown' = IF pc = "ahead" THEN shown ELSE Append(shown, line.body)
  /\ UNCHANGED <<mode, attempt, result, ctx>>

\* An error line: Call may retry; Stream may before its first delta, after it
\* the caller reads the error from the stream.
ReadError(line) ==
  /\ line.type = "error"
  /\ IF pc = "ahead" THEN Failed("provider", line.body) ELSE End(Outcome("provider", line.body))
  /\ UNCHANGED <<replay, shown>>

ReadLine ==
  /\ Reading /\ net # <<>>
  /\ net' = Tail(net)
  /\ Received
  /\ LET line == Head(net) IN
       \/ line.type = "ping" /\ UNCHANGED caller
       \/ ReadDelta(line)
       \/ ReadError(line)
       \/ line.type = "final" /\ End(Outcome("final", {})) /\ UNCHANGED <<replay, shown>>
  /\ UNCHANGED server

\* subStream.Next replays the delta Stream read ahead.
Replay ==
  /\ pc = "handed" /\ replay
  /\ replay' = FALSE
  /\ shown' = Append(shown, {<<attempt, 1>>})
  /\ UNCHANGED <<mode, pc, attempt, result, ctx, timer, net, server>>

\* The body ends without a final: Call fails, Stream returns an empty response.
ReadEnd ==
  /\ Reading /\ net = <<>> /\ far = "returned"
  /\ End(Outcome(IF mode = "call" THEN "transport" ELSE "empty", {}))
  /\ UNCHANGED <<replay, shown, timer, net, server>>

\* The connection breaks, or its lines cannot be parsed.
Broken ==
  /\ Reading
  /\ \E code \in {"transport", "protocol"} : End(Outcome(code, {}))
  /\ UNCHANGED <<replay, shown, timer, net, server>>

\* Time passes with no byte read, and the idle timer fires.
Silence ==
  /\ Reading /\ silent < limit
  /\ silent' = silent + 1
  /\ UNCHANGED <<caller, limit, net, server>>
IdleFires ==
  /\ Reading /\ limit > 0 /\ silent = limit
  /\ End(Outcome("idle", {}))
  /\ UNCHANGED <<replay, shown, timer, net, server>>

\* The caller's context ends; a call that is reading or posting fails with it.
Cancel ==
  /\ ctx = "live" /\ pc # "ended"
  /\ ctx' = "cancelled"
  /\ IF pc = "backoff" THEN UNCHANGED <<pc, result>>
     ELSE pc' = "ended" /\ result' = Outcome("cancelled", {})
  /\ UNCHANGED <<mode, attempt, replay, shown, timer, net, server>>

Next ==
  \/ Retry \/ Refused \/ Unreachable \/ Accepted
  \/ Delta \/ Finish \/ Abandoned \/ Return
  \/ PingBegins \/ PingEnds \/ PingerStops
  \/ ReadLine \/ Replay \/ ReadEnd \/ Broken
  \/ Silence \/ IdleFires \/ Cancel

Spec == Init /\ [][Next]_vars

(***************************************************************************)
(* Properties                                                              *)
(***************************************************************************)

TypeOK ==
  /\ mode \in Modes /\ attempt \in 1..maxAttempts
  /\ pc \in {"post", "ahead", "handed", "backoff", "ended"}
  /\ far \in {"idle", "model", "lines", "closing", "returned"}
  /\ pinger \in {"off", "waiting", "writing", "stopped"}
  /\ limit \in {idleTimeout, defaultIdleTimeout} /\ silent \in 0..limit

\* Text reaches the caller once and in order, however often the call was retried:
\* what it has been shown is a prefix of what one attempt produced ("once text has
\* streamed to the caller, a retry would show it twice", provider.go).
ShownOnce == \A i \in DOMAIN shown : shown[i] = {<<attempt, i>>}

\* The event loop compacts when it reads an overflow (retry.go): a call is only
\* retried after a failure that is not one, and an overflow the caller lived to
\* read reaches it verbatim.
OverflowReaches ==
  \A n \in DOMAIN said : "overflow" \in said[n] =>
    /\ attempt = n
    /\ pc # "backoff"
    /\ result.kind = "provider" => result.body = said[n]

\* "A ResponseWriter is only valid until its handler returns" (server.go): no ping
\* is inside Write once the handler has returned.
PingerJoined == far = "returned" => pinger # "writing"

\* "a bridge that never pings should raise this ... rather than be cut off
\* mid-thought" (transport_http.go): a stream is presumed dead only after it was
\* silent for its idle_timeout. The code resets the timer to the default instead.
IdleTimeoutHonoured == result.kind = "idle" => silent >= idleTimeout
=============================================================================

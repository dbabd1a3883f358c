------------------------------- MODULE LiveFeed -------------------------------
(***************************************************************************)
(* How a browser keeps up with a run: a commit emits a store event, the    *)
(* server's Bridge republishes it on the bus, a stream goroutine writes it *)
(* to the client, and the client re-reads over HTTP. What a read returns   *)
(* is a version number, bumped by every commit and by every ephemeral      *)
(* worker that starts or ends.                                             *)
(***************************************************************************)
EXTENDS Integers, Sequences, FiniteSets

CONSTANTS
  Runs,        \* run IDs
  Clients,     \* open pages
  Dashboards,  \* the clients subscribed with runID = ""
  Workers,     \* ephemeral agents (report, compaction), one run each
  StoreDepth,  \* capacity of the store's event channel
  QueueDepth,  \* defaultQueueDepth: capacity of a subscription
  MaxWrites,   \* bound: commits
  MaxNoise,    \* bound: events that change nothing a read returns
  MaxBreaks,   \* bound: connections that end
  MaxAnswers   \* bound: responses of a client in flight at once

ASSUME LiveFeedAssumption ==
  /\ Dashboards \subseteq Clients
  /\ {StoreDepth, QueueDepth, MaxAnswers} \subseteq Nat \ {0}
  /\ {MaxWrites, MaxNoise, MaxBreaks} \subseteq Nat

VARIABLES
  version,     \* what GET /api/runs reads of each run
  writes, noise, breaks,
  storeEvents, \* sqliteStore.events
  storeClosed, \* sqliteStore.eventsClosed
  lost,        \* history: runs whose last store event was never sent
  worker,      \* per ephemeral agent: "idle", "active", "done"
  publishing,  \* per publisher: the event's kind and the subscriptions left
  stream,      \* per client: "closed", "registered", "open"
  epoch,       \* per client: which of its subscriptions is current
  queue,       \* per client: Subscription.ch
  overflow,    \* per client: Subscription.overflow
  asks,        \* per client: reads requested and not yet served
  answers,     \* per client: responses on their way back
  served,      \* history, per client: what its latest served read returned
  detail       \* per client: RunStore.detail

feed == <<version, writes, noise, breaks, storeEvents, storeClosed, lost, worker>>
conn == <<stream, epoch, queue, overflow>>
page == <<asks, answers, served, detail>>
vars == <<feed, publishing, conn, page>>

None == <<>>
Publishers == {"bridge", "noise"} \cup Workers

\* The run a page shows; a dashboard shows them all (Subscription.runID).
Shown(c) == IF c \in Dashboards THEN Runs ELSE {CHOOSE r \in Runs : TRUE}
\* The run a worker registers for.
RunOf(w) == CHOOSE r \in Runs : TRUE

\* RunEvents by what they tell the client: an event of a run, or of every run
\* (""), that makes it read again or that carries its own payload.
Event(kind, r) == [kind |-> kind, run |-> r]
RefetchAll == "refetch"

Init ==
  /\ version = [r \in Runs |-> 0]
  /\ writes = 0 /\ noise = 0 /\ breaks = 0
  /\ storeEvents = <<>> /\ storeClosed = FALSE
  /\ lost = {}
  /\ worker = [w \in Workers |-> "idle"]
  /\ publishing = [p \in Publishers |-> None]
  /\ stream = [c \in Clients |-> "closed"]
  /\ epoch = [c \in Clients |-> 0]
  /\ queue = [c \in Clients |-> <<>>]
  /\ overflow = [c \in Clients |-> FALSE]
  /\ asks = [c \in Clients |-> 0]
  /\ answers = [c \in Clients |-> {}]
  /\ served = [c \in Clients |-> None]
  /\ detail = [c \in Clients |-> None]

\* sqliteStore.emit: never blocks, and drops the event when the channel is full
\* or closed. A drop matters until a later event of the run gets through.
emit(r) ==
  IF storeClosed \/ Len(storeEvents) = StoreDepth
  THEN lost' = lost \cup {r} /\ UNCHANGED storeEvents
  ELSE lost' = lost \ {r} /\ storeEvents' = Append(storeEvents, r)

\* Any store method that writes a run's rows: commit, then emit.
Commit(r) ==
  /\ writes < MaxWrites
  /\ writes' = writes + 1
  /\ version' = [version EXCEPT ![r] = @ + 1]
  /\ emit(r)
  /\ UNCHANGED <<noise, breaks, storeClosed, worker, publishing, conn, page>>

\* sqliteStore.Close; an emit still to come is a no-op.
CloseStore ==
  /\ ~storeClosed
  /\ storeClosed' = TRUE
  /\ UNCHANGED <<version, writes, noise, breaks, storeEvents, lost, worker, publishing, conn, page>>

\* Bus.Publish, first half: the matching subscriptions are copied under mu.
Targets(run) ==
  {<<c, epoch[c]>> : c \in {x \in Clients : stream[x] # "closed"
                                            /\ (run = "" \/ run \in Shown(x))}}
toDeliver(kind, left) == IF left = {} THEN None ELSE [kind |-> kind, left |-> left]
publish(p, ev) ==
  /\ publishing[p] = None
  /\ publishing' = [publishing EXCEPT ![p] = toDeliver(ev.kind, Targets(ev.run))]

\* Server.Bridge takes a store event and republishes it (toRunEvent).
BridgeTakes ==
  /\ storeEvents # <<>>
  /\ publish("bridge", Event("refetch", Head(storeEvents)))
  /\ storeEvents' = Tail(storeEvents)
  /\ UNCHANGED <<version, writes, noise, breaks, storeClosed, lost, worker, conn, page>>

\* EphemeralAgentRegistry.Register and Unregister: the entry changes under mu and
\* the hook publishes after it is released.
WorkerChanges(w) ==
  /\ worker[w] # "done"
  /\ worker' = [worker EXCEPT ![w] = IF @ = "idle" THEN "active" ELSE "done"]
  /\ version' = [version EXCEPT ![RunOf(w)] = @ + 1]
  /\ publish(w, Event("refetch", RunOf(w)))
  /\ UNCHANGED <<writes, noise, breaks, storeEvents, storeClosed, lost, conn, page>>

\* BusBroadcaster.Chunk (one run) and SysStat (Watcher.update, every subscriber).
Noise ==
  /\ noise < MaxNoise
  /\ noise' = noise + 1
  /\ \E r \in Runs \cup {""} : publish("noise", Event("payload", r))
  /\ UNCHANGED <<version, writes, breaks, storeEvents, storeClosed, lost, worker, conn, page>>

\* Mutant of deliver: a full queue drops the event without a trace.
DeliverSilently(c, kind) ==
  /\ queue' = [queue EXCEPT ![c] = IF Len(@) < QueueDepth THEN Append(@, kind) ELSE @]
  /\ UNCHANGED overflow

\* Subscription.deliver: enqueue, or flag the subscriber that is behind.
deliver(c, kind) ==
  IF Len(queue[c]) < QueueDepth
  THEN queue' = [queue EXCEPT ![c] = Append(@, kind)] /\ UNCHANGED overflow
  ELSE overflow' = [overflow EXCEPT ![c] = TRUE] /\ UNCHANGED queue

\* Bus.Publish, second half: one target at a time, outside mu. A subscription
\* closed since the copy was taken receives what nobody reads. Named bound: fewer
\* than QueueDepth events reach a subscription between Subscribe's registration
\* and its prime (the real depth is 1024).
PublishStep(p) ==
  /\ publishing[p] # None
  /\ \E t \in publishing[p].left :
       LET c == t[1]  kind == publishing[p].kind IN
       /\ publishing' = [publishing EXCEPT ![p] = toDeliver(kind, @.left \ {t})]
       /\ IF stream[c] # "closed" /\ epoch[c] = t[2]
          THEN /\ stream[c] = "registered" => Len(queue[c]) < QueueDepth - 1
               /\ deliver(c, kind)
          ELSE UNCHANGED <<queue, overflow>>
  /\ UNCHANGED <<feed, stream, epoch, page>>

\* EventSource connects: Server.stream subscribes. The subscription is in the
\* bus before it is primed.
Connect(c) ==
  /\ stream[c] = "closed"
  /\ stream' = [stream EXCEPT ![c] = "registered"]
  /\ epoch' = [epoch EXCEPT ![c] = @ + 1]
  /\ queue' = [queue EXCEPT ![c] = <<>>]
  /\ overflow' = [overflow EXCEPT ![c] = FALSE]
  /\ UNCHANGED <<feed, publishing, page>>

\* Subscribe's last statement: the prime goes behind what arrived meanwhile.
Prime(c) ==
  /\ stream[c] = "registered"
  /\ stream' = [stream EXCEPT ![c] = "open"]
  /\ queue' = [queue EXCEPT ![c] = Append(@, RefetchAll)]
  /\ UNCHANGED <<feed, publishing, epoch, overflow, page>>

\* RunStore.#onEvent: a structural event triggers a refresh of what is shown.
receives(c, kind) ==
  asks' = [asks EXCEPT ![c] = IF kind = "refetch" THEN @ + 1 ELSE @]

\* stream's loop: the next event is written and flushed.
StreamEvent(c) ==
  /\ stream[c] = "open" /\ queue[c] # <<>>
  /\ queue' = [queue EXCEPT ![c] = Tail(@)]
  /\ receives(c, Head(queue[c]))
  /\ UNCHANGED <<feed, publishing, stream, epoch, overflow, answers, served, detail>>

\* The ticker: TakeOverflow, and a RefetchAll if it was set, else a keepalive.
StreamTick(c) ==
  /\ stream[c] = "open" /\ overflow[c]
  /\ overflow' = [overflow EXCEPT ![c] = FALSE]
  /\ receives(c, RefetchAll)
  /\ UNCHANGED <<feed, publishing, stream, epoch, queue, answers, served, detail>>

\* The request's context ends, or a write misses its deadline: the handler
\* returns and Subscription.Close detaches it. What was taken may be lost.
Break(c) ==
  /\ stream[c] = "open" /\ breaks < MaxBreaks
  /\ breaks' = breaks + 1
  /\ stream' = [stream EXCEPT ![c] = "closed"]
  /\ queue' = [queue EXCEPT ![c] = <<>>]
  /\ overflow' = [overflow EXCEPT ![c] = FALSE]
  /\ UNCHANGED <<version, writes, noise, storeEvents, storeClosed, lost, worker, publishing, epoch, page>>

\* RunStore.refresh, at the server: handleGetRun reads the rows and the registry
\* (EphemeralAgentRegistry.ForRun).
Serve(c) ==
  /\ asks[c] > 0 /\ Cardinality(answers[c]) < MaxAnswers
  /\ asks' = [asks EXCEPT ![c] = @ - 1]
  /\ LET read == [r \in Shown(c) |-> version[r]]
     IN  /\ answers' = [answers EXCEPT ![c] = @ \cup {read}]
         /\ served' = [served EXCEPT ![c] = read]
  /\ UNCHANGED <<feed, publishing, conn, detail>>

\* RunStore.refresh, after its await: a response is taken for the page's run
\* whatever was asked after it.
Answer(c) ==
  /\ \E a \in answers[c] :
       /\ answers' = [answers EXCEPT ![c] = @ \ {a}]
       /\ detail' = [detail EXCEPT ![c] = a]
  /\ UNCHANGED <<feed, publishing, conn, asks, served>>

Next ==
  \/ \E r \in Runs : Commit(r)
  \/ CloseStore
  \/ BridgeTakes
  \/ \E w \in Workers : WorkerChanges(w)
  \/ Noise
  \/ \E p \in Publishers : PublishStep(p)
  \/ \E c \in Clients : Connect(c) \/ Prime(c) \/ StreamEvent(c) \/ StreamTick(c)
                        \/ Break(c) \/ Serve(c) \/ Answer(c)

\* Every goroutine runs, the ticker ticks, the browser reconnects and its
\* requests are answered; commits, workers and failures owe nothing.
Fairness ==
  /\ WF_vars(BridgeTakes)
  /\ \A p \in Publishers : WF_vars(PublishStep(p))
  /\ \A c \in Clients : /\ WF_vars(Connect(c)) /\ WF_vars(Prime(c))
                        /\ WF_vars(StreamEvent(c)) /\ WF_vars(StreamTick(c))
                        /\ WF_vars(Serve(c)) /\ WF_vars(Answer(c))

Spec == Init /\ [][Next]_vars
FairSpec == Spec /\ Fairness

(***************************************************************************)
(* Properties                                                              *)
(***************************************************************************)

Nat0(S) == [S -> 0..(MaxWrites + 2 * Cardinality(Workers))]

TypeOK ==
  /\ version \in Nat0(Runs)
  /\ writes \in 0..MaxWrites /\ noise \in 0..MaxNoise /\ breaks \in 0..MaxBreaks
  /\ storeEvents \in Seq(Runs) /\ Len(storeEvents) <= StoreDepth
  /\ storeClosed \in BOOLEAN /\ lost \subseteq Runs
  /\ worker \in [Workers -> {"idle", "active", "done"}]
  /\ stream \in [Clients -> {"closed", "registered", "open"}]
  /\ \A c \in Clients : Len(queue[c]) <= QueueDepth

\* A refetch is due to a client: a publisher has yet to deliver it, it is queued
\* or flagged, or the page was told.
Due(c) ==
  \/ \E p \in Publishers : publishing[p] # None /\ publishing[p].kind = "refetch"
                             /\ <<c, epoch[c]>> \in publishing[p].left
  \/ \E i \in DOMAIN queue[c] : queue[c][i] = "refetch"
  \/ overflow[c] \/ asks[c] > 0

\* deliver, TakeOverflow and Bridge, at every moment: of each run that an open
\* stream shows, the last read is what the store holds, or the event that says
\* otherwise is in the store's channel, or a refetch is due. No publisher, full
\* queue or reconnection loses it on the way.
NewsIsComing ==
  \A c \in Clients : stream[c] = "open" =>
    \A r \in Shown(c) \ lost :
      \/ served[c] # None /\ served[c][r] = version[r]
      \/ \E i \in DOMAIN storeEvents : storeEvents[i] = r
      \/ Due(c)

Fresh(c, read) == read # None /\ \A r \in Shown(c) \ lost : read[r] = version[r]

\* "On overflow or (re)subscribe, a RefetchAll marker tells the client to resync"
\* (eventstream.go): however the queue of a subscription overflows, the stream
\* breaks and a publisher is overtaken by a reconnection, every client in the end
\* asks again after the last change of what it shows, unless the store's own
\* channel dropped that change's event; and until then the news is on its way.
CaughtUp == [](NewsIsComing /\ \A c \in Clients : <>[]Fresh(c, served[c]))

\* "keeps `detail` fresh" (runContext.svelte.ts): what the page shows in the end is
\* what the store holds. The code does not promise it: two reads in flight are
\* applied in the order their responses arrive.
KeepsDetailFresh == \A c \in Clients : <>[](Fresh(c, detail[c]))
=============================================================================

----------------------------- MODULE Projection -----------------------------
(***************************************************************************)
(* What a provider is sent and what is kept of its answer: the event log   *)
(* is projected into messages (eventloop.buildMessages), fitted to the     *)
(* image limits (llm.FitImages) and converted into the wire format of      *)
(* Gemini, Anthropic or an OpenAI-compatible server; the streamed answer   *)
(* is folded back into one assistant event, its calls are run, and a crash *)
(* before their results is repaired by repairOrphanToolCalls.              *)
(*                                                                         *)
(* A piece of text is a tuple of numbers naming its turn, its call and its *)
(* place; an image is its size; an identifier is <<turn, call>> when the   *)
(* server gives it and <<0, index>> when toolCallID makes it up.           *)
(***************************************************************************)
EXTENDS Integers, Sequences, SequencesExt, FiniteSetsExt, TLC

CONSTANTS
  Providers,      \* of "gemini", "anthropic", "openai"
  Styles,         \* how an OpenAI-compatible server frames its tool calls
  Turns,          \* the turns a server may mean to take
  Images,         \* the images a result or a user may bring: sequences of sizes
  Limits,         \* provider -> image limits, 0 for none
  MaxTurns,       \* bound on the turns
  MaxMessages,    \* bound on the messages of the user
  MaxFaults       \* bound on the frames lost and the streams that end too soon

VARIABLES
  provider, style,
  captureExtras, \* an OpenAI-compatible server's signatures are kept
  log,       \* the session's events
  turns,     \* what arrived of each of the turns that were kept
  phase,     \* "idle", "establish", "stream", "tools", "crashed", "failed"
  attempt,   \* attempts of the request under way
  wire,      \* the last request
  meant,     \* the turn the server is taking
  sent,      \* how much of it is in frames already
  heard,     \* the pieces of text that arrived
  lost,      \* a frame of a call did not arrive
  faults,    \* frames lost and streams that ended too soon
  acc,       \* the provider's accumulator
  shown,     \* the text handed to the live preview
  pending    \* the calls whose tool is still running

vars == <<provider, style, captureExtras, log, turns, phase, attempt, wire, meant, sent, heard,
          lost, faults, acc, shown, pending>>

\* What was chosen for the session, and what is known of the stream.
settings == <<provider, style, captureExtras>>
stream == <<meant, sent, heard, lost>>

NoID == <<>>
Silent == [thoughts |-> <<>>, text |-> 0, calls |-> <<>>]

-----------------------------------------------------------------------------
(* From the log to messages.                                               *)

IsResult(m) == m.role = "tool_result"

\* eventToMessage: an empty turn without calls gets a placeholder, and the
\* verdict of a failed tool is not carried over.
eventToMessage(e) ==
  CASE e.role = "assistant" ->
         [e EXCEPT !.text = IF e.text = <<>> /\ e.calls = <<>> THEN <<<<0>>>> ELSE e.text]
    [] OTHER -> e

\* The results that follow message i at once.
RunOf(msgs, i) == {j \in (i + 1)..Len(msgs) : \A m \in (i + 1)..j : IsResult(msgs[m])}

\* The assistant turn a run of results follows, 0 when it follows none.
CallerOf(msgs, j) ==
  LET before == {i \in 1..(j - 1) : j \in RunOf(msgs, i) /\ ~IsResult(msgs[i])}
  IN IF before = {} THEN 0 ELSE Max(before)

Rank(calls, id) ==
  LET at == {j \in DOMAIN calls : calls[j].id = id}
  IN IF at = {} THEN Len(calls) + 1 ELSE Min(at)

\* orderToolResults: each run of results in the order of the calls.
orderToolResults(msgs) ==
  [j \in DOMAIN msgs |->
    LET i == CallerOf(msgs, j) IN
    IF ~IsResult(msgs[j]) \/ i = 0 \/ msgs[i].role # "assistant" THEN msgs[j]
    ELSE LET Before(a, b) ==
               \/ Rank(msgs[i].calls, msgs[a].id) < Rank(msgs[i].calls, msgs[b].id)
               \/ Rank(msgs[i].calls, msgs[a].id) = Rank(msgs[i].calls, msgs[b].id) /\ a < b
         IN msgs[SetToSortSeq(RunOf(msgs, i), Before)[j - i]]]

Leading(events) ==
  {i \in DOMAIN events : \A j \in 1..i : events[j].role = "system"}

\* buildMessages: the leading system events are the system prompt.
buildMessages(events) ==
  [system |-> Len(SelectSeq(events, LAMBDA e : e.role = "system")) > 0 /\ 1 \in Leading(events),
   messages |->
     LET all == [i \in DOMAIN events |-> eventToMessage(events[i])]
     IN orderToolResults(SubSeq(all, Cardinality(Leading(events)) + 1, Len(all)))]

-----------------------------------------------------------------------------
(* llm.FitImages.                                                          *)

Refs(msgs) ==
  FlattenSeq([i \in DOMAIN msgs |-> [j \in DOMAIN msgs[i].images |-> <<i, j>>]])

SizeOf(msgs, r) == msgs[r[1]].images[r[2]]
TotalOf(msgs, refs) == FoldSeq(LAMBDA r, t : SizeOf(msgs, r) + t, 0, refs)

PerImage(lim) ==
  IF lim.maxTotalBytes > 0 /\ (lim.maxImageBytes = 0 \/ lim.maxTotalBytes < lim.maxImageBytes)
  THEN lim.maxTotalBytes ELSE lim.maxImageBytes

\* over(count, bytes, quarters / 4)
Over(lim, count, bytes, quarters) ==
  \/ lim.maxImages > 0 /\ count > (quarters * lim.maxImages) \div 4
  \/ lim.maxTotalBytes > 0 /\ bytes > (quarters * lim.maxTotalBytes) \div 4

\* Drops the oldest of the window until it is under the low water, or one is left.
Trim(msgs, lim, window) ==
  LET n == Len(window)
      enough == {d \in 0..(n - 1) :
                   LET rest == SubSeq(window, d + 1, n)
                   IN d = n - 1 \/ ~Over(lim, Len(rest), TotalOf(msgs, rest), 3)}
  IN SubSeq(window, Min(enough) + 1, n)

\* Mutant of Admit: trims as soon as the low water is passed.
AdmitEager(msgs, lim, window, r) ==
  LET grown == Append(window, r) IN
  IF PerImage(lim) > 0 /\ SizeOf(msgs, r) > PerImage(lim) THEN window
  ELSE IF Over(lim, Len(grown), TotalOf(msgs, grown), 3) THEN Trim(msgs, lim, grown)
  ELSE grown

Admit(msgs, lim, window, r) ==
  LET grown == Append(window, r) IN
  IF PerImage(lim) > 0 /\ SizeOf(msgs, r) > PerImage(lim) THEN window
  ELSE IF Over(lim, Len(grown), TotalOf(msgs, grown), 4) THEN Trim(msgs, lim, grown)
  ELSE grown

Kept(msgs, lim) == FoldLeft(LAMBDA w, r : Admit(msgs, lim, w, r), <<>>, Refs(msgs))

\* Each omitted image leaves a note in the text of its message.
FitImages(msgs, lim) ==
  LET kept == Range(Kept(msgs, lim)) IN
  [i \in DOMAIN msgs |->
    LET stay == SelectSeq([j \in DOMAIN msgs[i].images |-> j], LAMBDA j : <<i, j>> \in kept)
    IN [msgs[i] EXCEPT !.images = [j \in DOMAIN stay |-> msgs[i].images[stay[j]]],
                       !.notes = Len(msgs[i].images) - Len(stay)]]

-----------------------------------------------------------------------------
(* From messages to the wire. A content is [role, parts]; a part is a      *)
(* record whose field p says what it is.                                   *)

Text(m) == IF m.text = <<>> /\ m.notes = 0 THEN <<>> ELSE <<[p |-> "text", text |-> m.text]>>
ImageParts(m) == [j \in DOMAIN m.images |-> [p |-> "image", size |-> m.images[j]]]

\* An empty part stands where a message would have none.
OrEmpty(parts) == IF parts = <<>> THEN <<[p |-> "text", text |-> <<>>]>> ELSE parts

CallPart(m, k, sig) ==
  [p |-> "call", id |-> m.calls[k].id, name |-> m.calls[k].name, args |-> m.calls[k].args, sig |-> sig]

SigOf(m, k) == IF k \in DOMAIN m.extra.sigs THEN m.extra.sigs[k] ELSE NoID

\* functionResponseParts, toolResultContent: the images of a result are inside it.
ResultPart(m) == [p |-> "result", id |-> m.id, images |-> m.images]

\* The turns of Gemini and Anthropic: one content for each message but the
\* results, one for each run of them.
Heads(msgs) ==
  SelectSeq([i \in DOMAIN msgs |-> i],
            LAMBDA i : ~(i > 1 /\ IsResult(msgs[i]) /\ IsResult(msgs[i - 1])))

Answers(msgs, i) ==
  LET last == Max({i} \cup RunOf(msgs, i)) IN [n \in 1..(last - i + 1) |-> ResultPart(msgs[i + n - 1])]

\* gemini.convertMessages: the text with its signature, then the calls with theirs.
geminiContent(msgs, i) ==
  LET m == msgs[i] IN
  CASE m.role = "tool_result" -> [role |-> "user", parts |-> Answers(msgs, i)]
    [] m.role = "assistant" ->
         [role |-> "model",
          parts |-> (IF m.text = <<>> THEN <<>>
                     ELSE <<[p |-> "text", text |-> m.text, sig |-> m.extra.textSig]>>)
                    \o [k \in DOMAIN m.calls |-> CallPart(m, k, SigOf(m, k))]]
    [] OTHER -> [role |-> "user", parts |-> OrEmpty(Text(m) \o ImageParts(m))]

\* An unsigned block would be refused.
replayThinkingBlocks(m) == SelectSeq(m.extra.thinking, LAMBDA b : b.sig # NoID)

\* anthropic.convertMessages: the signed thinking blocks lead the turn.
anthropicContent(msgs, i) ==
  LET m == msgs[i] IN
  CASE m.role = "tool_result" -> [role |-> "user", parts |-> Answers(msgs, i)]
    [] m.role = "assistant" ->
         [role |-> "assistant",
          parts |-> OrEmpty(replayThinkingBlocks(m) \o Text(m)
                            \o [k \in DOMAIN m.calls |-> CallPart(m, k, NoID)])]
    [] OTHER -> [role |-> "user", parts |-> <<[p |-> "text", text |-> m.text]>> \o ImageParts(m)]

\* openai.convertMessages: a tool message holds text only, so the images of a
\* result follow it in a message of the user.
openaiContents(m) ==
  CASE m.role = "tool_result" ->
         <<[role |-> "tool", parts |-> <<[p |-> "result", id |-> m.id, images |-> <<>>]>>]>>
         \o (IF m.images = <<>> THEN <<>> ELSE <<[role |-> "user", parts |-> ImageParts(m)]>>)
    [] m.role = "assistant" ->
         <<[role |-> "assistant",
            parts |-> <<[p |-> "text", text |-> m.text]>>
                      \o [k \in DOMAIN m.calls |-> CallPart(m, k, SigOf(m, k))]]>>
    [] OTHER -> <<[role |-> m.role, parts |-> OrEmpty(Text(m) \o ImageParts(m))]>>

\* gemini build, anthropic buildParams: the images fitted, a content for each head.
geminiContents(msgs) ==
  LET fitted == FitImages(msgs, Limits.gemini)
  IN [n \in DOMAIN Heads(fitted) |-> geminiContent(fitted, Heads(fitted)[n])]

anthropicContents(msgs) ==
  LET fitted == FitImages(msgs, Limits.anthropic)
  IN [n \in DOMAIN Heads(fitted) |-> anthropicContent(fitted, Heads(fitted)[n])]

\* openai buildBody: no limit is known, so no image is left out.
openaiBody(msgs) == FlattenSeq([i \in DOMAIN msgs |-> openaiContents(msgs[i])])

Request(events) ==
  LET built == buildMessages(events) IN
  [system |-> built.system,
   contents |-> CASE provider = "gemini" -> geminiContents(built.messages)
                  [] provider = "anthropic" -> anthropicContents(built.messages)
                  [] provider = "openai" -> openaiBody(built.messages)]

-----------------------------------------------------------------------------
(* From the frames of the answer to the response.                          *)

EmptyAcc == [text |-> <<>>, thinking |-> <<>>, calls |-> <<>>, sigs |-> <<>>, textSig |-> NoID,
             byIndex |-> <<>>, byID |-> <<>>]

Put(f, k, v) == (k :> v) @@ f

\* toolCallID
toolCallID(id, index) == IF id # NoID THEN id ELSE <<0, index>>

\* Mutant of SlotOf: an ID synthesized for a call splits it from its late ID.
SlotSplitting(a, f) ==
  IF f.id \in DOMAIN a.byID THEN a.byID[f.id]
  ELSE IF f.index \notin DOMAIN a.byIndex THEN 0
  ELSE IF f.id # NoID /\ a.calls[a.byIndex[f.index]].id # f.id THEN 0
  ELSE a.byIndex[f.index]

\* The slot a frame of a call belongs to, 0 for a new one: an ID the server
\* gave before wins over the index; another ID at an index whose call has an ID
\* of the server is another call; any other frame continues its index.
SlotOf(a, f) ==
  IF f.id # NoID /\ f.id \in DOMAIN a.byID THEN a.byID[f.id]
  ELSE IF f.index \notin DOMAIN a.byIndex THEN 0
  ELSE LET slot == a.byIndex[f.index]
           existing == a.calls[slot].id
       IN IF f.id # NoID /\ existing \in DOMAIN a.byID /\ a.byID[existing] = slot THEN 0 ELSE slot

\* accumulator.addToolCall; merge keeps a signature only when asked to.
addToolCall(a, f) ==
  LET found == SlotOf(a, f)
      slot == IF found = 0 THEN Len(a.calls) + 1 ELSE found
      calls == IF found # 0 THEN a.calls
               ELSE Append(a.calls, [id |-> toolCallID(f.id, f.index), name |-> NoID, args |-> <<>>])
      sigs == IF found # 0 THEN a.sigs ELSE Append(a.sigs, NoID)
  IN [a EXCEPT
       !.byIndex = Put(@, f.index, slot),
       !.byID = IF f.id = NoID THEN @ ELSE Put(@, f.id, slot),
       !.calls = [calls EXCEPT ![slot] =
         [id |-> IF f.id # NoID THEN f.id ELSE @.id,
          name |-> IF @.name = NoID THEN f.name ELSE @.name,
          args |-> @.args \o f.args]],
       !.sigs = [sigs EXCEPT ![slot] = IF captureExtras /\ f.sig # NoID THEN f.sig ELSE @]]

\* respAcc.add and the SDK's blocks: a call comes whole, with its signature.
addWholeCall(a, f) ==
  [a EXCEPT !.calls = Append(@, [id |-> f.id, name |-> f.name, args |-> f.args]),
            !.sigs = Append(@, f.sig)]

\* respAcc.add: the last signature outside a call is kept for the text.
addText(a, f) ==
  [a EXCEPT !.text = Append(@, f.text), !.textSig = IF f.sig # NoID THEN f.sig ELSE @]

addThought(a, f) ==
  [a EXCEPT !.thinking = Append(@, [p |-> "thinking", text |-> f.text, sig |-> f.sig])]

\* What each provider keeps beside the turn to replay: respAcc.response the
\* signatures, convertResponse the thinking, accumulator.response the extras.
NoExtra == [sigs |-> <<>>, textSig |-> NoID, thinking |-> <<>>]
geminiExtra(a) == [NoExtra EXCEPT !.sigs = a.sigs, !.textSig = a.textSig]
anthropicExtra(a) == [NoExtra EXCEPT !.thinking = a.thinking]
openaiExtra(a) == IF captureExtras THEN [NoExtra EXCEPT !.sigs = a.sigs] ELSE NoExtra

response(a) ==
  [role |-> "assistant", text |-> a.text, calls |-> a.calls, images |-> <<>>, notes |-> 0,
   extra |-> CASE provider = "gemini" -> geminiExtra(a)
               [] provider = "anthropic" -> anthropicExtra(a)
               [] provider = "openai" -> openaiExtra(a)]

-----------------------------------------------------------------------------
(* The session.                                                            *)

Event(role, text, images) == [role |-> role, text |-> text, images |-> images, notes |-> 0]

Init ==
  /\ provider \in Providers
  /\ style \in IF provider = "openai" THEN Styles ELSE {"whole"}
  /\ captureExtras \in IF provider = "openai" THEN BOOLEAN ELSE {FALSE}
  /\ log = <<Event("system", <<<<0>>>>, <<>>), Event("user", <<<<0>>>>, <<>>)>>
  /\ turns = <<>> /\ phase = "idle" /\ attempt = 0
  /\ wire = [system |-> FALSE, contents |-> <<>>]
  /\ meant = Silent /\ sent = Silent /\ heard = <<>> /\ lost = FALSE /\ faults = 0
  /\ acc = EmptyAcc /\ shown = <<>> /\ pending = {}

\* An Input arrives between two turns, and the turn is requested later.
AddUser(images) ==
  /\ phase = "idle"
  /\ Cardinality({i \in DOMAIN log : log[i].role = "user"}) <= MaxMessages
  /\ log' = Append(log, Event("user", <<<<0>>>>, images))
  /\ UNCHANGED <<settings, turns, phase, attempt, wire, stream, faults, acc, shown, pending>>

\* Call, Stream: the request is built once and attempted.
Send ==
  /\ phase = "idle"
  /\ wire' = Request(log)
  /\ phase' = "establish" /\ attempt' = 1
  /\ UNCHANGED <<settings, log, turns, stream, faults, acc, shown, pending>>

\* gemini.isTransient, openai.post: which failures are tried again, and how often.
isTransient(e) == e \in {"overloaded", "reset"}
openaiRetried(e) == e \in {"overloaded", "reset", "other"}

\* maxRetries of anthropic: its SDK retries what the comment there lists.
anthropicRetried(e) == e \in {"overloaded", "reset", "other"}

Retries(e) ==
  \/ provider = "gemini" /\ isTransient(e)
  \/ provider = "openai" /\ openaiRetried(e)
  \/ provider = "anthropic" /\ anthropicRetried(e)

maxAttempts == [gemini |-> 5, openai |-> 3, anthropic |-> 6]

\* withRetry, post: no attempt is made once tokens may have been shown.
Attempt(e) ==
  /\ phase = "establish"
  /\ \/ /\ e = "none" /\ Len(turns) < MaxTurns
        /\ phase' = "stream" /\ acc' = EmptyAcc /\ shown' = <<>>
        /\ meant' \in Turns
        /\ sent' = [Silent EXCEPT !.calls = [k \in DOMAIN meant'.calls |-> 0]]
        /\ heard' = <<>> /\ lost' = FALSE
        /\ UNCHANGED attempt
     \/ /\ e # "none" /\ Retries(e) /\ attempt < maxAttempts[provider]
        /\ attempt' = attempt + 1
        /\ UNCHANGED <<phase, stream, acc, shown>>
     \/ /\ e # "none" /\ ~(Retries(e) /\ attempt < maxAttempts[provider])
        /\ phase' = "failed"
        /\ UNCHANGED <<attempt, stream, acc, shown>>
  /\ UNCHANGED <<settings, log, turns, wire, faults, pending>>

This == Len(turns) + 1
Signed(what, tag) == IF what THEN tag ELSE NoID

\* A thinking block. Only Anthropic signs them.
ThoughtFrame ==
  /\ phase = "stream" /\ Len(sent.thoughts) < Len(meant.thoughts)
  /\ LET n == Len(sent.thoughts) + 1
         tag == <<This, 8, n>>
     IN /\ acc' = addThought(acc, [text |-> tag,
                   sig |-> Signed(provider = "anthropic" /\ meant.thoughts[n], tag)])
        /\ sent' = [sent EXCEPT !.thoughts = Append(@, n)]
  /\ UNCHANGED <<settings, log, turns, phase, attempt, wire, meant, heard, lost, faults, shown,
                 pending>>

\* A piece of the text; Gemini signs the last one of a signed turn.
TextFrame ==
  /\ phase = "stream" /\ Len(sent.thoughts) = Len(meant.thoughts) /\ sent.text < meant.text
  /\ LET n == sent.text + 1
     IN /\ acc' = addText(acc, [text |-> <<This, 9, n>>,
                   sig |-> Signed(provider = "gemini" /\ n = meant.text, <<This, 9>>)])
        /\ shown' = Append(shown, <<This, 9, n>>) /\ heard' = Append(heard, n)
        /\ sent' = [sent EXCEPT !.text = n]
  /\ UNCHANGED <<settings, log, turns, phase, attempt, wire, meant, lost, faults, pending>>

\* How a server frames piece n of call k:
\*   indexed  every call its index, its ID and name in its first frame;
\*   late     the same, with ID and name in its last frame;
\*   bare     every call its index and no ID at all;
\*   reused   no index, the ID in the first frame, one call after the other;
\*   tagged   no index, the ID in every frame.
Frame(k, n) ==
  LET call == meant.calls[k]
      first == n = 1
      last == n = call.pieces
      names == IF style = "late" THEN last ELSE first
      identifies == CASE style = "bare" -> FALSE
                      [] style = "tagged" -> TRUE
                      [] OTHER -> names
  IN [index |-> IF style \in {"reused", "tagged"} THEN 0 ELSE k - 1,
      id |-> IF identifies THEN <<This, k>> ELSE NoID,
      name |-> IF names THEN <<This, k>> ELSE NoID,
      args |-> <<<<This, k, n>>>>,
      sig |-> Signed(call.signed /\ last, <<This, k, 0>>)]

Whole(k) ==
  [index |-> k - 1, id |-> <<This, k>>, name |-> <<This, k>>,
   args |-> [n \in 1..meant.calls[k].pieces |-> <<This, k, n>>],
   sig |-> Signed(provider = "gemini" /\ meant.calls[k].signed, <<This, k, 0>>)]

\* A call of Gemini or Anthropic, in order.
WholeCall(k) ==
  /\ phase = "stream" /\ provider # "openai" /\ sent.text = meant.text
  /\ sent.calls[k] = 0 /\ \A j \in 1..(k - 1) : sent.calls[j] > 0
  /\ acc' = addWholeCall(acc, Whole(k))
  /\ sent' = [sent EXCEPT !.calls[k] = meant.calls[k].pieces]
  /\ UNCHANGED <<settings, log, turns, phase, attempt, wire, meant, heard, lost, faults, shown,
                 pending>>

\* The server may send the next piece of call k: the calls are begun in order,
\* and their fragments may be mixed when the server tells them apart.
Continues(k) ==
  /\ phase = "stream" /\ provider = "openai" /\ sent.text = meant.text
  /\ sent.calls[k] < meant.calls[k].pieces
  /\ \A j \in 1..(k - 1) :
       IF style = "reused" THEN sent.calls[j] = meant.calls[j].pieces ELSE sent.calls[j] > 0

\* A fragment of a call.
CallFragment(k) ==
  /\ Continues(k)
  /\ acc' = addToolCall(acc, Frame(k, sent.calls[k] + 1))
  /\ sent' = [sent EXCEPT !.calls[k] = @ + 1]
  /\ UNCHANGED <<settings, log, turns, phase, attempt, wire, meant, heard, lost, faults, shown,
                 pending>>

\* stream.Next: a malformed frame is skipped, whatever it held.
SkipFrame ==
  /\ faults < MaxFaults /\ faults' = faults + 1
  /\ \/ /\ phase = "stream" /\ provider = "openai" /\ sent.text < meant.text
        /\ sent' = [sent EXCEPT !.text = @ + 1] /\ UNCHANGED lost
     \/ \E k \in DOMAIN meant.calls :
          /\ Continues(k)
          /\ sent' = [sent EXCEPT !.calls[k] = @ + 1] /\ lost' = TRUE
  /\ UNCHANGED <<settings, log, turns, phase, attempt, wire, meant, heard, acc, shown, pending>>

Complete ==
  /\ Len(sent.thoughts) = Len(meant.thoughts) /\ sent.text = meant.text
  /\ \A k \in DOMAIN meant.calls : sent.calls[k] = meant.calls[k].pieces

Ended(k) == sent.calls[k] = meant.calls[k].pieces

\* What arrived of a turn: the calls begun, each with its pieces, its name and
\* ID if their frame arrived, and its signature if the last frame did.
Arrived ==
  LET begun == SelectSeq([k \in DOMAIN meant.calls |-> k], LAMBDA k : sent.calls[k] > 0)
  IN [thoughts |-> SubSeq(meant.thoughts, 1, Len(sent.thoughts)), text |-> heard, lost |-> lost,
      textSigned |-> meant.text > 0 /\ sent.text = meant.text,
      calls |-> [n \in DOMAIN begun |->
        [pieces |-> sent.calls[n], named |-> style # "late" \/ Ended(n),
         signed |-> meant.calls[n].signed /\ Ended(n)]]]

\* The stream ends and the turn is appended to the log. No adapter asks for the
\* server's last word ([DONE], message_stop): a stream that ends without an error
\* is a turn, whatever has arrived of it.
EndStream ==
  /\ phase = "stream"
  /\ \/ Complete /\ UNCHANGED faults
     \/ ~Complete /\ faults < MaxFaults /\ faults' = faults + 1
  /\ log' = Append(log, response(acc))
  /\ turns' = Append(turns, Arrived)
  /\ pending' = DOMAIN acc.calls
  /\ phase' = IF acc.calls = <<>> THEN "idle" ELSE "tools"
  /\ UNCHANGED <<settings, attempt, wire, stream, acc, shown>>

\* A stream that breaks with an error fails the turn: nothing of it is kept.
BreakStream ==
  /\ phase = "stream"
  /\ phase' = "failed"
  /\ UNCHANGED <<settings, log, turns, attempt, wire, stream, faults, acc, shown, pending>>

\* A tool finishes and its result is appended at once.
Finish(k, images) ==
  /\ phase = "tools" /\ k \in pending
  /\ log' = Append(log, [Event("tool_result", <<<<0>>>>, images) EXCEPT !.role = "tool_result"]
                        @@ [id |-> acc.calls[k].id])
  /\ pending' = pending \ {k}
  /\ phase' = IF pending' = {} THEN "idle" ELSE "tools"
  /\ UNCHANGED <<settings, turns, attempt, wire, stream, faults, acc, shown>>

\* The process dies with tools running, or the turn was never kept.
Crash ==
  /\ phase \in {"establish", "stream", "tools"}
  /\ phase' = "crashed" /\ pending' = {} /\ acc' = EmptyAcc /\ shown' = <<>>
  /\ UNCHANGED <<settings, log, turns, attempt, wire, stream, faults>>

Orphans ==
  {id \in UNION {{log[i].calls[k].id : k \in DOMAIN log[i].calls} :
                  i \in {i \in DOMAIN log : log[i].role = "assistant"}} :
     \A i \in DOMAIN log : IsResult(log[i]) => log[i].id # id}

\* repairOrphanToolCalls: a placeholder for every call of the context whose ID
\* no result has.
Repair ==
  /\ phase = "crashed" /\ phase' = "idle"
  /\ log' = log \o [n \in 1..Cardinality(Orphans) |->
       Event("tool_result", <<<<0>>>>, <<>>)
       @@ [id |-> SetToSortSeq(Orphans, LAMBDA x, y :
                    x[1] < y[1] \/ (x[1] = y[1] /\ x[2] < y[2]))[n]]]
  /\ UNCHANGED <<settings, turns, attempt, wire, stream, faults, acc, shown, pending>>

Errors == {"none", "overloaded", "reset", "refused", "other"}

Next ==
  \/ \E images \in Images : AddUser(images)
  \/ Send
  \/ \E e \in Errors : Attempt(e)
  \/ ThoughtFrame \/ TextFrame
  \/ \E k \in DOMAIN meant.calls : WholeCall(k) \/ CallFragment(k)
  \/ SkipFrame \/ EndStream \/ BreakStream
  \/ \E k \in pending, images \in Images : Finish(k, images)
  \/ Crash \/ Repair

Spec == Init /\ [][Next]_vars

-----------------------------------------------------------------------------
(* What the projection owes the model and the session.                     *)

TurnEvents == SelectSeq([i \in DOMAIN log |-> i], LAMBDA i : log[i].role = "assistant")

\* addToolCall, respAcc.add, convertResponse: however a server frames its
\* calls, and wherever its stream ends, the turn kept is what arrived of the turn
\* it meant: every call begun once, in the order begun, its arguments as far as
\* they came and in order, under its name and ID once their frame came, and else
\* under an ID made up for its index; and the text kept is the text the preview
\* showed. Of a turn that lost a frame of a call only the text is promised.
TurnKept ==
  /\ \A t \in DOMAIN turns :
       LET kept == log[TurnEvents[t]]
           came == turns[t].calls
       IN
       /\ ~turns[t].lost =>
            /\ Len(kept.calls) = Len(came)
            /\ \A k \in DOMAIN kept.calls :
                 /\ kept.calls[k].args = [n \in 1..came[k].pieces |-> <<t, k, n>>]
                 /\ kept.calls[k].name = IF came[k].named THEN <<t, k>> ELSE NoID
                 /\ kept.calls[k].id =
                      IF style = "bare" \/ ~came[k].named THEN <<0, k - 1>> ELSE <<t, k>>
       /\ kept.text = [n \in DOMAIN turns[t].text |-> <<t, 9, turns[t].text[n]>>]
  /\ phase \in {"stream", "tools"} => shown = acc.text

ModelContents ==
  SelectSeq([i \in DOMAIN wire.contents |-> i],
            LAMBDA i : wire.contents[i].role \in {"model", "assistant"})

PartsOf(i, what) == SelectSeq(wire.contents[i].parts, LAMBDA x : x.p = what)

\* decodeSigs, replayThinkingBlocks, replayToolCallExtraFields: what the server
\* signed it is sent again with the part it signed: calls and text by Gemini,
\* the blocks that lead the turn by Anthropic, the calls by the others if
\* captureExtras is on; and nothing is sent as signed that was not.
ReplayedAsSigned ==
  \A t \in DOMAIN ModelContents :
    LET i == ModelContents[t]
        calls == PartsOf(i, "call")
        signed == SelectSeq([n \in DOMAIN turns[t].thoughts |-> n], LAMBDA n : turns[t].thoughts[n])
    IN /\ provider = "gemini" \/ (captureExtras /\ ~turns[t].lost) =>
            \A k \in DOMAIN calls : calls[k].sig = Signed(turns[t].calls[k].signed, <<t, k, 0>>)
       /\ provider = "openai" /\ ~captureExtras => \A k \in DOMAIN calls : calls[k].sig = NoID
       /\ provider = "gemini" =>
            \A part \in Range(PartsOf(i, "text")) : part.sig = Signed(turns[t].textSigned, <<t, 9>>)
       /\ provider = "anthropic" =>
            /\ Len(signed) <= Len(wire.contents[i].parts)
            /\ \A n \in DOMAIN signed :
                 wire.contents[i].parts[n]
                   = [p |-> "thinking", text |-> <<t, 8, signed[n]>>, sig |-> <<t, 8, signed[n]>>]

\* The results that answer content i: the next content of Gemini and Anthropic;
\* the tool messages before the next other turn, images between them aside.
AnswerIds(i) ==
  LET n == Len(wire.contents)
      IsAnswer(j) == \/ wire.contents[j].role = "tool"
                     \/ \A part \in Range(wire.contents[j].parts) : part.p = "image"
      upTo == IF provider # "openai" THEN Min({i + 1, n})
              ELSE Max({i} \cup {j \in (i + 1)..n : \A m \in (i + 1)..j : IsAnswer(m)})
      results == FlattenSeq([j \in 1..(upTo - i) |-> PartsOf(i + j, "result")])
  IN [j \in DOMAIN results |-> results[j].id]

\* convertMessages, orderToolResults, repairOrphanToolCalls: every turn that
\* called tools is followed by one result for each call, in the order of the
\* calls and in one message where the API asks for it, whatever order the tools
\* finished in and wherever the process crashed.
EveryCallAnswered ==
  \A t \in DOMAIN ModelContents :
    LET calls == PartsOf(ModelContents[t], "call") IN
    calls # <<>> => AnswerIds(ModelContents[t]) = [k \in DOMAIN calls |-> calls[k].id]

\* No ID names two calls. The IDs of a server are its own; those toolCallID
\* makes up for two turns may be the same.
IdsDistinct ==
  LET all == FlattenSeq([n \in DOMAIN TurnEvents |->
               [k \in DOMAIN log[TurnEvents[n]].calls |-> log[TurnEvents[n]].calls[k].id]])
  IN IsInjective(all)

Wired == FlattenSeq([i \in DOMAIN wire.contents |->
  FlattenSeq([j \in DOMAIN wire.contents[i].parts |->
    LET part == wire.contents[i].parts[j] IN
    CASE part.p = "image" -> <<part.size>> [] part.p = "result" -> part.images [] OTHER -> <<>>])])

\* FitImages: no request is over a limit of its provider; and without limits,
\* or below them, every image of the context is in it.
ImagesWithinLimits ==
  LET lim == Limits[provider]
      total == FoldSeq(+, 0, Wired)
      all == Refs(log)
  IN phase = "establish" =>
       IF provider = "openai" THEN Len(Wired) = Len(all)
       ELSE /\ ~Over(lim, Len(Wired), total, 4) /\ \A s \in Range(Wired) : s <= PerImage(lim)
            /\ (/\ ~Over(lim, Len(all), TotalOf(log, all), 4)
                /\ \A r \in Range(all) : SizeOf(log, r) <= PerImage(lim)) => Len(Wired) = Len(all)

\* FitImages: a context that only grows loses an image it had only when the
\* images do not fit any more, and never gets one back: the prefix is stable.
CutMovesRarely ==
  LET before == Kept(log, Limits[provider])
      after == Kept(log', Limits[provider])
      fresh == SelectSeq(after, LAMBDA r : r[1] > Len(log))
      all == before \o fresh
  IN provider # "openai" /\ log' # log =>
       /\ \A r \in Range(after) : r[1] <= Len(log) => r \in Range(before)
       /\ (\E r \in Range(before) : r \notin Range(after)) =>
            Over(Limits[provider], Len(all), TotalOf(log', all), 4)
=============================================================================

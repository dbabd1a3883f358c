# A TLA+ development of amplio

amplio runs long-lived LLM agents. A *run* is a tree of *sessions*; a session is
a durable event log plus a goroutine that may be there or not. The server starts
goroutines, stops them, and starts them again from the log after idle timeouts,
crashes and restarts. What makes it hard is that a session's truth is spread over
a database row, an event log, a registry slot, a waiter and a goroutine's local
variables, and that operators, parents, children, background scripts and timers
all act on it at once. Around the sessions there are workers that derive rows from
other rows (observer, critic, lessons, skills), child processes (bash, the LLM
bridge), and readers that must not be misled (provider, browser, command line).

These modules model that system, TLC checks them on small instances
(`tlc -config X.cfg M`), and TLAPS proves the theorems of the eight `*Proofs`
modules (`tlapm M.tla`).

## 1. Inventory

| Component | State it keeps | Operations | Talks to |
|---|---|---|---|
| `session.Waiter`, `Handle` | counter, broadcast channel, mutex | `notify`, `Counter`, `WaitAfter`, `cancel` | event loop and `await_event` wait on it, the notifier bumps it |
| `session.Registry` | session id → handle | `RegisterAndContext`, `release`, `Notify`, `Interrupt`, `IsEmpty` | launchers, notifier, cancellers |
| `runtime.RunRegistry` | run → `Registry` | `GetOrCreate`, `Get`, `RemoveIfEmpty` | manager, notifier |
| `runtime.RunManager` | providers, allocators | `StartRun`, `AddChatbot`, `RespawnSession`, `RecoverRun`, goroutine clean-up | registries, store, agents |
| commit notifier | none | wake, respawn, environment gate | runs in the goroutine that committed an event |
| sqlite store | `Run`, `Session`, `Event`, `Observation`, ... rows, an event channel | one transaction per write, listeners after the commit | everybody |
| event loop | step locals, nudge counters | bootstrap, resume, turn, compaction, park, conclude, fail | store, waiter, LLM, tools |
| `CancelSession` | its recursion | verdict, cascade, interrupt | store, registry |
| coordination tools, `spawn_agent` | none | `await_event`, `send_message`, `session_cancel`; allocate a name, claim a slot, start a goroutine | store, waiter, registry |
| tool execution | errgroup | parallel calls, results in completion order | event loop |
| message projection, provider adapters | none; a stream's accumulators | log → messages → wire format → one assistant event; image limits | event loop, providers |
| LLM bridge | a process with generations, cooldowns; a call's retries and timers | start, restart, reap, shut down; call, stream, ping | providers, another amplio |
| `view_file`, `edit_file` | none beyond the file and anchors handed out | view, resolve, check overlaps, apply, write, diff | agents, other programs |
| bash tool, process view | process groups; a cached list | start, deadline, kill, reap; scan `/proc` | agents, kernel, dashboard |
| observer | pending and active sets, three cursors per session, summary rows | enqueue, worker, catch up, close phases, sweep, drain | store listeners, server's views |
| critic | mutex per run, report watermark, sentinels | report, grade, mine, score; operator's request; backfill | observer, lessons |
| skills, lessons | rows, vectors, in-memory index | scan, cache, embed, swap; mine, judge, rebuild, recall | agents, critic |
| ephemeral agents | messages in memory, table of those in flight | bounded tool loop, forced answer, repair, extraction | critic, compaction, observer |
| dashboard handlers | `Run` and root `Session` rows | create, patch, delete, page, count, badge, notify, rewrite | store, manager |
| event bus, streams, browser | bounded queues with overflow flags, reads in flight | publish, subscribe, stream, refetch, reconnect | store channel, dashboard |
| server process, its clients | lock, port, token, `server.json` | serve, headless, submit, notify, `client` | file system, each other |
| `monitor` | last known statuses | poll, print, exit code | server |
| name allocator | used names, seeded from rows | `Next`, dropped with the run's registry | spawn, manager |
| configuration, workspaces, run specs, embeddings, text ranking, other tools, pages | | parsing, rendering, numerics | |

The hard behaviours, and what makes each component correct:

* **Waiter**: a notify must not fall between a look at the store and the sleep
  that follows it, and the returned counter must tell news from silence.
* **Registries**: one goroutine per session; a registered session is found by the
  notifier; no slot leaks. Hazard: two levels, two mutexes, and pointers held
  across both.
* **Step model**: exactly one assistant turn per step and one result per call, in
  a log that crashes, cancels, compactions and late arrivals all write to, because
  everything a resumed life does is derived from it.
* **Life cycle**: the status, the goroutine and the parent's knowledge agree; an
  ended life is reported once; an Input restarts whatever is dormant and nothing
  else does; cancels stop, waits wake.
* **Projection**: what the model meant comes back as it was signed, and a request
  never holds a call without its result or more images than fit.
* **Observer**: cursors stand for rows; views built from the rows miss no step;
  no signal is lost; the drain ends.
* **Critic, lessons, skills**: side effects behind sentinels happen once across
  crashes; an index never serves a vector of another content.
* **Tools**: an edit lands on the line it was meant for or nowhere; a deadline
  kills the whole group and what got away is still listed.
* **Live updates**: whoever falls behind is told to ask again after the last change.
* **Server process**: one owner of the data directory is advertised.

`PROJECT.json` lists every component and its status, and the hazards at their
lines with the properties that would catch them.

## 2. Modules and how they correspond to the code

| Module | Models | Composes with |
|---|---|---|
| `Waiter` | `registry.go` `Waiter`/`Handle` under its callers' protocol | implements `LevelWait` |
| `LevelWait` | what callers assume of `WaitAfter` | |
| `RunRegistry` | `runreg.go`, `registry.go`, the launch and exit paths of `manager.go` and `spawn.go`, the notifier's lookup | `MCRunRegistry` |
| `StepLoop` | one session of `eventloop.go` and `compact.go` over the `Event` and `Session` tables | implements `Transcript`; `MCEventLoop` |
| `Transcript` | what the log promises to its readers | |
| `SessionLifecycle` | a tree of sessions: `Run`'s phases, `coordination.go`, `spawn.go`, `CancelSession`, `notify.go`, `RecoverRun`, crashes | abstracts `Waiter`, `RunRegistry`, `StepLoop`; `MCRunRegistry` |
| `Projection` | `buildMessages`, `FitImages`, the Gemini, Anthropic and OpenAI adapters, `repairOrphanToolCalls` | `MCAgents` |
| `BridgeProc` | `transport_spawn.go`: one bridge process shared by all requests | `WorldAgents` |
| `BridgeCall` | one generation over a bridge, both ends of it | `WorldAgents` |
| `Ephemeral` | `agent/ephemeral`, `jsonextract` | `WorldAgents` |
| `Skills` | `skills/`, its index and the seed | `WorldAgents` |
| `Lessons` | `lessons/`, `critic/mine.go`, `recall` | `WorldAgents` |
| `EditFile` | `viewfile`, `editfile`, `anchor` on one file | `MCTools` |
| `BashTool` | `bash.go`, `proctree_linux.go`, `processes.go` and the kernel they rely on | `WorldAgents` |
| `Observer` | `internal/observer`, its start and stop in `serve.go`, the views of `trajectory.go` and `chat.go` | `ObserverProofs` |
| `Critic` | `internal/agent/critic` without mining, `reports.go` | |
| `LiveFeed` | store channel, `bridge.go`, `bus.go`, `sse.go`, the browser's run context | `WorldProofs` |
| `Board` | `write.go`, `read.go`, `dto.go` and the rows below them | `WorldServer`, `MCServer` |
| `Service` | `serve.go`, `serverinfo.go`, `headless.go`, `notify.go`, `client.go` | `MCServer` |
| `Monitor` | `monitor.go` | `WorldServer`, `MCServer` |
| `WorldAgents`, `WorldServer` | the components above with constants, state and properties of their own, side by side | `MCAgents`, `MCServer` |
| `MC*` | the instances TLC checks; `MCSession` and `MCObserver` choose the worlds of one module | |
| `WaiterProofs`, `RunRegistryProofs`, `SessionLifecycleProofs`, `StepLoopProofs`, `ObserverProofs`, `CriticProofs`, `ServiceProofs` | proofs about the module each is named for | |
| `WorldProofs` | proofs about `BridgeProc`, `BridgeCall`, `Ephemeral`, `Lessons`, `BashTool`, `Skills`, `Board`, `Monitor` and `LiveFeed` | `WorldAgents`, `WorldServer` |

**Waiter.** A channel is a number. `Notify` is the body of `notify`: it bumps the
counter, closes the current channel and replaces it. `CheckCounter` is the locked
part of `waitAfter`'s loop and leaves the caller in `select`, where `Notified`,
`TimerFires` and `CtxReturn` are the three cases. The timer's case and the second
lock it takes (`TimeoutReturn`) are two actions, because a notify fits in between.
`Snapshot` and `SkipWait` are the protocol of `waitForFollowUp` and `await_event`.

**RunRegistry.** A session registry is an *instance* with an identity, since
launchers keep the pointer after the run's entry was dropped. A thread is first a
committer, launcher or recoverer and then the goroutine it launches:
`GetOrCreate` (under `rr.mu`) and `RegisterAndContext` (under `r.mu`) are two
actions, `StartGoroutine` stands for all slow work in between, `Release` and
`RemoveIfEmpty` for the deferred clean-up of a failed launch and of a returned
goroutine alike. `NotifyOrRespawn` may not respawn: the event may be a Notice.
Spawned children use the parent's instance and never call `RemoveIfEmpty`.

**StepLoop.** `log[s]` is the sequence of events stamped with step `s`. An event is
its kind, its generation and a number. One action is one committed write, or one
read that a decision rests on, so the goroutine can die (`Die`) between any two.
`callStep` is the code's `a.callStep`; `needsAdvance` and the two nudge counters
are its variables. A row is a step and a place in it; `Context` holds the rows that
`CurrentContextOnly` selects (step 0, or the current generation). `LoadHistory` is the single read of `reconcileResume`; it takes all
its decisions there although they are carried out by later writes. The verdicts
(`Refused`, `OutputLimit`, `EmptyTurn`, `Conclude`, `ParkIdle`) are shared by the
loop and by the recovery path, as the code duplicates them in this order.
`Cancel` and `Interrupt` are separate, with the loop going on in between.

**SessionLifecycle.** `fresh[s]` holds the classes (Input or Notice) of the events
at or past the current step; `Top` empties it, as `AdvanceStep` leaves them behind.
A thread that commits an event owes the notifier call (`fire`) before it does
anything else: the listener runs in the committing goroutine after the commit and
outside the store's lock. `stack` is the recursion of `CancelSession`: each frame
reads, writes the verdict, lists the children, recurses and interrupts, and other
threads run between these. The goroutine's `pc` follows `Run`, `waitForFollowUp`,
`loop` and `AwaitEvent`. `TerminateAndNotifyParent` is one transaction with its
condition on the status; `UpdateSessionStatus` has none. `ContextDone` applies
wherever the code looks at the context or passes it to a store call; the places
that use a background context (`conclude`, the end of `await_event`) are left out
of it. `interactive` is the type of the root, chosen at the start. `UpdateSessionStatus` looks
at nothing, and at four places (`BlindPlaces`: where a chat parks or goes on, and where
`await_event` marks and restores) its caller may write over a cancel's verdict
(`WriteBlindly`); such a session is in `clobbered` until its next life, and in `crossed` if a
cancel that an Input or such a write overtook is still to interrupt it. These two, `told` and a
frame's `ended` are history: no guard reads them. `NextOrCrash` adds the process crash.

**Projection.** A piece of text is a name, an image its size, an identifier what the
server gave or `toolCallID` made up. `wire` is the last request in the provider's
form; the answer's deltas come in one of several *styles* (indexed, late or reused
indexes, ids missing) and are folded into `acc` as the adapter does it. `captureExtras` is the
option of the OpenAI adapter that keeps signatures, off by default. A stream may end anywhere:
with an error (`BreakStream`), or, on the OpenAI wire, without `[DONE]`, which is a finished turn
like any other (`EndStream`); a frame that does not parse is skipped (`SkipFrame`). `turns` is what
arrived of each turn; of one that lost a frame of a call only the text is promised, since a
fragment without its opening frame belongs to no call. Anthropic's blocks come whole from its SDK.
A crash falls before the results of the calls, then the repair runs.

**BridgeProc, BridgeCall.** A *generation* is one process with its socket, client and
wait goroutine; the regions under `p.mu` are the actions. `BridgeCall` has the
caller (attempts, idle timer, deltas shown) and the far handler (model, line writer,
pinger) with the connection between them; time is the silence since the last line.

**Ephemeral.** The loop's iterations, the reserved turns of `finalizing`, the forced
call and the typed repairs are the code's; replies are classed by their quality. A provider may
call tools although `DisableToolCalls` was set, as `provider.go` says it may, and the loop runs
them; `defied` counts that, and the loop may then end without an answer.

**Skills, Lessons.** A version stands for a guide's content and hash, a vector is what
was embedded with which model, closeness is a table. A scan reads the directories of a
source one by one, in any order (`ReadGuide`), and merges them when all are read
(`MergeSource`), while the user edits. Reads of rows and swaps of the
index are separate steps. `Miners` is the instance with two miners at once.

**EditFile.** A content is a sequence of bytes with 0 the newline; an anchor is the
window of lines its hash is of. Reading, resolving and applying, the temporary file
and the rename are separate steps of a call; other programs write in between.
`Resolve` and `Apply` follow the code's order of checks and `sortByStartDesc`. `formatSuccess`
is what the agent is told: for each edit the span and the aligned lines of the edit's last place
in the file, which is the first of the sorted splices, with both trims of a trailing newline, no
alignment above `maxLines`, and no more edits after `MaxEchoed` lines (the code counts bytes).
**BashTool** has processes with group, parent, run id and fate; the kernel's fork,
setsid, exit and adoption run against a scan that reads one process at a time. What
the viewer is sent is what hangs under the roots: what every set holds that has the roots
and the children of its members (`Under`).

**Observer.** A worker's action is one store call or one region under `o.mu`;
`worker[w]` holds the locals of the two loops. A session goroutine commits and then
owes (`owed`) the listener call. `ReadSession` and `ReadCursors` read the row once;
the decision to force a phase is taken there. What the summarizer answers is any
boundary of the chunk (`EndSteps`); a failed call covers the chunk. With `StoreMayFail` any store
call may fail while the context is live (`StoreFails`): the part of the work under way returns
and the next part runs (`GiveUpSteps`, `GiveUpPhases`, `GiveUpReport`), and a sweep finds nothing.
Two history sets tell what that excuses: `dropped`, the sessions cut short since they were last
taken up, and `torn`, those of which a phase was written and its cursor was not. `Trajectory` and
`RolledUp` are what the two handlers derive from the rows.

**Critic.** The mutex per run makes the job one record of locals; requests wait in
`asked`. Report, grade, sentinels and scores are one store call each, with a crash
between any two, and a job that starts again rereads the rows as the code does. Verdicts
on a lesson are read in the order of session ids, which are random: any session's last
judging phase may be the one that counts.

**LiveFeed.** A version number stands for everything a read returns. Commits emit into
the store's bounded channel, the bridge moves them to the bus, each subscription has a
bounded queue and an overflow flag; the stream's goroutine and the browser's refetches
with several reads in flight are separate.

**Board, Service, Monitor.** Board's time is what `formatTime` keeps of it, so several
calls share a tick; a page is a keyset query against rows that move between pages: the
set of the rows with fewer than the limit before them, whose oldest makes the cursor.
Service models what each process deferred, run in reverse order, against the start of
another process and a crash; clients read `server.json` and the token and end with an
exit code. `Given` says which tokens a server may be configured with, 0 standing for none: only
then does it go to `auth.token`, and mints a new one if that is empty, torn or cannot be read,
truncating the file before it fills it (`TruncateToken`, `MintToken`). In a process of `DiskFails`
reading it may fail, and so may writing it or `server.json`, which ends the process (`WriteFails`).
`shown` holds the file's tokens that users have and that no failed read put aside. Monitor samples one run per request with the server coming and going.

## 3. Runs

Small components are checked together: such an MC module instantiates each of them
with its own constants, chooses one *world* at the start and lets only that world
step; the variables of the others keep a placeholder, or the values they start with.
Worlds do not interact, so a run is the union of independent checks and its state count
their sum. `WorldAgents` and `WorldServer` hold the components that are also proved about,
with their constants still open: a property there is one of a component, guarded by the
name of its world, and the cfg gives the constants. Where two worlds share constants, the
rest of the instance is in the step: the badge's world leaves the notices alone and the
notifiers' the rows, the badge's is of one run and the pages' of runs with one root, archived
under way; one lesson world lets one miner work, the other two over one start; of a command
one world has the long output and nobody who looks, one a single scan of three processes,
one a list asked for several times.

| Run | Instance | What it shows |
|---|---|---|
| `Waiter` | 2 callers, 2 notifies | no missed or invented wake; implements `LevelWait`, liveness included |
| `RunRegistry` | worlds: 2 sessions, 3 threads, 3 instances; a root and child under crashes, with a messaged child or a cancelled root | slots and holders agree; a holder of the reachable instance stays reachable; an end of a life is told once and nothing but an Input restarts, through any number of crashes |
| `EventLoop` | worlds: a task with every kind of reply, 4 steps; a chat with 2 parallel calls, a compaction, 3 steps; an arrival, 2 deaths | one turn a step and one result a call, contexts the provider accepts, nothing unanswered summarized away, finalized steps frozen, conclusions on answers, the retry budget across restarts; the log implements `Transcript` in both worlds (`LogIsTranscript`) |
| `SessionLifecycle` | worlds: a main agent that awaits and its child, which the canceller and its parent's end cancel; a root without children, a chat or a main agent, cancelled again and again; operator, failing provider | status, goroutine and reports agree; waits wake and cancels stop, also where the status is written without a look: who is overwritten is known, stops all the same, and is told at most twice |
| `Observer` | 1 session, 2 workers, 2 steps; worlds: one stop, signal or crash; one life, with store calls that may fail at any time and at most a stop or a crash at its end | cursors and views match the rows; phases tile the steps; no signal is lost; the stop drains and returns; each part of the work gives up by itself on an error, and only what it cut short is behind |
| `Critic` | main agent and a sub-agent, 2 steps, a lesson, one crash | reports are spaced, side effects not repeated, a conclusion is covered in the end |
| `LiveFeed` | a page, a worker, store channel of 1, queue of 2, one broken stream | at every moment what an open stream shows is read, or its news is on its way; in the end the page asks again after the last change; both unless the store's channel dropped it |
| `Agents` | 14 worlds: two of the projection, bridge process, bridge call, ephemeral agents, guides, two of lessons; three of edits, three of commands | what its properties say, listed below |
| `Server` | 5 worlds: pages, badge, notifiers; monitor; a data directory with two servers that want one port, one of them with an untrusted certificate, and a lending listener and a disk that may fail, the other with a token of its own or none, a headless run, two commands, one crash | what its properties say, listed below |
| `RunRegistryRival` | the registry world, 2 instances | *violated*: a session gets two goroutines |
| `EditOverlap` | the edits of `Agents` | *violated*: an insert at the start of a replaced range is overwritten |
| `OrphanIds` | a server without ids | *violated*: an unanswered call is taken for answered and sent without a result |

`Agents`: an applied batch of edits with distinct starts does every edit, anchors hit
their line or nothing, no half file is seen and the diff shown is the edit made
(`EditsLand`); a deadline kills the group and a scan finds who got away
(`NothingHides`); however cut, the output tells how the command ended
(`StatusSurvives`); what arrived of a turn comes back in order and signed as far as the
provider's adapter keeps signatures (`TurnsComeBack`); requests
fit the image limits with a cut that moves rarely (`ImagesFit`); one bridge at a time,
and a request brings down only the process it failed on (`OneBridgeAtATime`); each
delta is shown once, overflows stay overflows, the pinger is joined
(`StreamIsFaithful`); a forced answer comes within the
budget unless the provider keeps calling tools it was not given (`ForcedAnswerLands`); after
a build the index is the guides on disk, no guide is ever ranked by a vector of another
content or model, and a seed is of one snapshot (`GuidesAreCurrent`); a superseded
lesson keeps every counted use, and none is inserted unjudged beside a close one of the
index (`LessonsAreKept`).

`Server`: a client that follows the cursor sees every run that matched all the while
(`PagesCover`); the badge stays until what is new was seen (`BadgeUntilSeen`); the
notification cap is exceeded by at most the concurrent notifiers (`NoticesBounded`);
the printed lines explain the exit code (`LinesTellTheExit`); whatever starts, fails to
listen, stops or crashes, one process has the database, `server.json` names the one that
serves and its token, a file token shown to a user stays the token of every server that is
configured with none and can read it, and a command's exit code tells whether
its message is in the log, once (`OwnershipIsHonest`).

**Known disagreements.** Each violated run states what a comment of the repository
promises; `PROJECT.json` quotes it. `ReachableStaysReachable`, `StatusMatrix` with `CancelStops`,
`EditsLand` and `TurnsComeBack` are what does hold in their place. Further statements of comments or
docs that the code does not keep are definitions in the modules, left out of the runs:

| Definition | What goes wrong |
|---|---|
| `SessionLifecycle!NeverClobber` | `await_event` overwrites a `cancelled` written between its read and its restore (`coordination.go` 137-141), though the comment above says it never does |
| `SessionLifecycle!InputRestarts` | an Input committed while its goroutine is on its way out only wakes that goroutine |
| `SessionLifecycle!NoStranding`, without its exception | a life that overtook the interrupt of a cancel (a revival, or a status written over the verdict) is stopped by it and its row stays ongoing; `crossed` names those sessions |
| `StepLoop!OutputLimitBudget` | a compaction hides nudges from the count a restart takes; `BudgetSurvivesRestarts` is what holds |
| `StepLoop!NoAssistantAtStep0` | a life that died inside bootstrap leaves step 0 to the next |
| `BridgeProc!RestartsSpaced` | only the restart path waits for the cooldown, not the next request's start |
| `BridgeCall!IdleTimeoutHonoured` | the idle timer is reset to the default, not to the configured value |
| `EditFile!RemovedLinesAreShown` | a newline is trimmed twice on the way into the diff (`editfile.go` 364, 423), so a removed blank line is not shown, though 336 says that every removed line is prefixed and 357 that the diff is self-verifying |
| `BashTool!NoSplitRune` | each stream is first capped at a byte (`readCapped`), only the joined text at a character |
| `Board!DeleteRemovesAll` | rows of restated answers outlive their run |
| `Service!CertNeverRefused` | a client refuses an untrusted certificate that `docs/internals/tls.md` says is not verified |
| `Monitor!SamePoll` | a failed request keeps a run's status of an earlier poll |
| `LiveFeed!KeepsDetailFresh` | two reads in flight are applied in the order of their responses |

Two of them need more than the bounds of the runs: `OutputLimitBudget` a task of five
steps with a compaction whose turns all hit the output limit, `KeepsDetailFresh` a page
with two answers on their way (`MaxAnswers = 2`).

The properties of `SessionLifecycle` hold with the window of `NeverClobber` open: its second
world cancels the root while it is at one of the places that write blindly. The two worlds are
apart because a child and a root cancelled any number of times are together too many states.
The theorems of section 4 are about any tree and any roles at once.

**Bounds.** Every bound is a constant named in the module and enforced in a guard; the
cfg or the MC module gives its value.

* `Waiter`: a second notify is the one that could be confused with the first; two callers
  share the broadcast.
* `RunRegistry`: the orphaning scenarios need one thread to leave, one to launch and one
  to be the rival; three instances allow an instance to be replaced twice. Threads are a
  symmetry set only in `RunRegistryRival`, whose states are all of that world.
* `EventLoop`: the resume rules look at most one step back, so four steps have the
  bootstrap step, two finished steps and an open one; a death may hit the recovery of an
  earlier one (two deaths); two nudges and the refused third fit in. Cancels count as
  deaths. One compaction has an old and a new generation; the pathological run of
  compactions is bounded in the code by `maxConsecutiveCompactions`.
* `SessionLifecycle` counts nothing: turns, messages, cancels, revivals and crashes are
  unbounded; the space is finite because the log is abstracted to what has not been read.
  One child is enough for the cascade to be a recursion that overlaps with the child's own
  steps; siblings do not interact. Ids are never reused.
* `Observer`: keys are independent but for the pool, so one session and two workers show
  every race on a key; two steps give a phase of one and of two, a carryover and a forced
  tail; one end of a process reaches every crash point and the next start. The proof
  lifts `CursorsMatchRows` and `PhasesTile` to any number of all of them. Ends of
  processes and store errors are in different worlds, and a settled session is not revived in
  the second: together they are too many states for liveness. A row whose cursor could not
  be written is there as after a crash, and the errors of one life are not counted.
* `Critic`: two steps with `MinSteps` two make a report due or deferred; one crash falls
  between any two of the job's writes and `SideEffectsOnce` counts repeats per crash.
* `LiveFeed`: a queue of two overflows with the third event, a store channel of one drops
  the second; two commits and the worker's start and end are enough for both.
* `Agents`: two requests and three starts let a process fail, be replaced and be reaped
  late; three attempts and two deltas a retry before and after a shown token; budgets of
  four to six iterations reach each of the reserved turns with up to three repairs; two
  sources, two names, two versions an override and an edit, two starts a change of model;
  three topics a close pair and a stranger, two miners at once only with stored vectors; edits are pairs from ten, against four
  contents, so each order and each kind of contact between two ranges occurs; texts of up
  to three lines for the diff, whose limits are two and three lines so that they are met; one
  frame lost or stream cut short, in either of two turns; pids for a shell, a child and a grandchild, and one
  scan among their steps; outputs around each cut.
* `Server`: three runs over pages of one cross a boundary twice; three notifiers at a cap
  of three; two watched runs, three changes and three polls. Two servers and a headless run
  compete for the lock, two of them for a port; one crash leaves each file behind; two
  commands read before and after a change of owner. `s1` has no token of its own and a disk
  that may fail, `s2` is configured with one or with none, so a file token is used, put
  aside and used again.

**Deadlock** is checked in `Waiter`, `SessionLifecycle` and `Observer`. It is off
elsewhere: instances, steps, deaths, writes, polls or other bounds run out, a concluded
session stops, and a process that has exited does nothing.

**Fairness.** `Waiter`: only the code inside `waitAfter` is fair, not the timer, so
`NotifyUnblocks` is owed to the notify alone. `SessionLifecycle`: a runnable
goroutine runs, a notifier call and a `CancelSession` under way go on, an LLM call
returns. `Observer`: workers, listener calls, main's start and stop sequence and the
broadcast on cancellation go on; the summarizer's call returns, as its client times out.
`Critic`: the job under the mutex and the observer's hook go on. `LiveFeed`: the bridge,
publishers and each client's stream, requests and reconnection go on. All of these are
promises of the Go scheduler, of timeouts in the clients or of the browser's timers.
Nobody is obliged to write, finalize, cancel, stop, crash, recover or fail (`StoreFails` is in no
fairness condition, so nothing rests on an error either), and no timer
of a wait ever has to fire. Weak fairness on the disjunction of a goroutine's steps is
enough, since its steps are in sequence. The other modules state safety only.

## 4. Proofs

`WaiterProofs`, for any set of callers and any `MaxNotify \in Nat`. `AsleepMeansNoNews`
is not inductive: nothing in it says that the channel a sleeper holds is the one the
next notify closes. The invariant `IInv` adds `ChannelsFollowCounter` (channel `n` is
the one closed by notify `n+1`, and exactly the older ones are closed) and
`CallerKnows` (a selecting caller's channel is at most the current one, and if it is
the current one its snapshot is the counter). From it follow `TypeCorrect`,
`NoMissedNotify`, `ReturnTellsTheTruth`, and `ImplementsLevelWait`: initial states map
to initial states of `LevelWait` and every step to a step of it or a stutter.

`RunRegistryProofs`, for any sets of sessions and threads with `None` no thread, and
any number of instances. `SlotsMatchHolders` becomes inductive with `TargetsAreNamed`
(a busy thread works for a session whose launch was started, so a spawn's fresh name
cannot collide) and `InstancesAreCaptured` (a thread that registers or releases has a
real instance). `HoldersStayReachable` is an action property: in a state of the
invariant, a thread that holds a slot keeps its instance non-empty, so no
`RemoveIfEmpty` of another thread can drop it and no `GetOrCreate` replaces it.

`ObserverProofs`, for any sessions and workers, any thresholds and number of steps, and
any number of stops, signals, crashes and store errors. `CursorsMatchRows` relates cursors, rows and
two derived views; alone it does not survive a worker's write, which goes by what the
worker read earlier. `IInv` adds

* `Exclusive`: a busy worker's key is in `active` and no two share one;
* `LocalsAgree`: what a worker holds of its session (cursor, watermark, the row it has
  just written) is what the row still says. It holds because nobody else is on the
  session, and finalized steps only grow;
* `PrefixTold`, in `RowsTell`: from each phase's end, phases that end no later cover every
  step back to the first. A crash between a phase's row and its cursor leaves a row ahead
  of the cursor, and a later boundary may replace a row or overlap it; a cover up to the
  cursor alone would not give the views, which trust the last end of any row.

`PhaseExtends` shows that a phase written from the cursor keeps `PrefixTold`, whichever
row it replaces; `LastEndIsTheLast` (by well-foundedness of `<`) and `ViewsFollow` derive
the trajectory and the chat from it. `QuietStep`, `OthersStand` and `ResetStep` carry the
invariant over steps that write nothing, over one worker's step, and over a start or an
end; `EndsLeft` bounds the ends of processes. The theorems are `TypeCorrect`,
`OneWorkerPerSession` and `RowsCarryTheViews`. `FirstLifeTiles` proves `PhasesTile` from
`TileInv`: while no process has ended, the rows of a session that is not `torn` are disjoint,
cover every step before the cursor, and reach past it only by the row of a worker about to move
it. Both hold whether the store may fail or not: a worker that gives up between two parts keeps
its session and forgets the rest (`Handed`), so what `LocalsAgree` asks of it is empty.

`SessionLifecycleProofs`, for any number of sub-agents and any roles. The first half
holds through any number of process crashes (`CrashSpec`). `ToldOnce` is not inductive:
nothing in it says that whoever reports an end has just written one. `IInv` adds where a
goroutine may be for a given status (`PlaceFits`, `StatusFits`) and what the frames of a
`CancelSession` may be about (`FramesFit`): a cancel writes behind the goroutine's back,
so the place of a session it may reach says nothing of the row. From it follow
`EndsAreToldOnce` and the action property `RestartMatrix`. The second half is about one
process: `LInv` adds that a row which says its session works has a goroutine beyond the
checks a new life makes (`LifeFits`), unless a cancel it overtook has stopped it (`crossed`), and
that only sessions a cancel reaches can be so; it gives `WorkersAreLive`. No hypothesis is made on
who cancels, awaits or messages whom. The windows of section 3 are part of the statements: what
is said of a session after its verdict was written over is less, and who it can happen to is
said.

`StepLoopProofs`, for any profiles and replies and every bound: calls a turn, steps,
compactions, arrivals, deaths. The invariant is in two halves, as the code is.
`DurableInv` is about rows alone, so that no death can break it:

* `StepsInOrder`: a step has at most one turn, those before the one being called have one;
* `GenerationsInOrder`: from the step being called on everything is in the current
  generation, a turn in the context has its whole step with it, and a summary follows
  whatever was left behind. Without it a step the context no longer shows could be taken
  for one without a turn (`MustAdvance`), or a call for an open one (`Orphans`);
* `CallsInOrder`, `StepsFinished`: a result has its call before it and no double; only the
  last step with a turn has open calls, and no finalized one has;
* `StepCallable`: if the last step still needs its turn, the context does not end in one;
* `NudgesInBudget`: the limit nudges of the context since its last tool turn.

`LifeInv` is what the goroutine knows of them, place by place: which calls are open
(`CallsKnown`), which step it is about and whether it will bump it (`PlaceFits`), that a
turn waiting for its verdict is the last of all rows and that a stream at rest is never
called on (`VerdictFits`), that there is something to answer (`SomethingSaid`), and that
its counter is no less than the nudges it can see (`NudgesCounted`). Every action has a lemma; they rest
on what an insert and a compaction do to rows, context and tails (`InsertRow`,
`InsertKeeps`, `InsertDurable`, `InsertTurn`, `CompactionShape`), on `LifeKept` (what a
life knows outlives the writes of others) and on `ContextShowsStep` (what a new life reads
off the context is what the rows say). The theorems are `OneTurnPerStep`,
`EveryCallAnsweredOnce` (together `LogIsWhole`), `RequestsAreAccepted`, `UnansweredIsKept`
(together `ContextIsServed`), `BudgetOutlivesLives` and the action properties
`FinalizedStays` and `ConcludesOnText`.

`ReadsAsTranscript`, in the same module, is the refinement: what the rows say as a
conversation (`Said`, `OpenCalls`) begins as `Transcript` does, and every step of a session
maps to a step of it or a stutter. A result closes one open call (`ResultTold`), also when
the repair of a later life writes it (`ReconcileTold`); a turn comes when every step before
its own has had one and no call is open (`SaidSoFar`), so it is the next (`TurnTold`); and
nothing else, a compaction or a failure's marker included, says anything (`NothingTold`,
`AsideTold`). The invariant does all the work: a step with two turns, a turn out of order or
a call open under a new turn would have no step of `Transcript` to map to.

`CriticProofs`, for any sessions, lessons, grades, thresholds and numbers of steps and
crashes. `IInv` says what the mutex per run is for: while a job holds it the last report
stays the last, so what the gate found out is still true at the write (`DraftGoesOn`,
`DraftIsTold`); only a lesson being scored, or one a crashed job was scoring, has a score
and no sentinel (`ScoresAreOwed`). The theorem is `NothingTwice`.

`ServiceProofs`, for any finite set of processes, any of them headless, any ports, clients
and configured tokens, any of the disks failing, and any number of crashes. `OwnershipIsHonest` speaks of serving processes and finished
commands; `IInv` says what their earlier stages may rely on: the lock's holder is the
process between taking and releasing it, and nobody else has the database (`LockHeld`);
`server.json` has not been written or removed since the process wrote it (`Advertised`;
without the lock, the deferred removal of an older process would break it); users hold no other
file token than the one in the file, and none while one is being minted, and who has read it has
it (`TokenOfFile`); and
a request is equally far at its two ends and in the log (`RequestTold`). The theorem is
`OwnersAreHonest`.

`WorldProofs` has a part for each of the eight modules that `WorldAgents` and `WorldServer`
instantiate, and one for `LiveFeed`. Each theorem says of the behaviours of one instance what the runs check of it.

* `BridgeProc`, for any requests, cooldowns, number of starts and clock. While a request
  holds the mutex nothing is up but what it starts, and otherwise nothing but the command
  the manager knows (`UpIsKnown`), and the mutex is held by the request that is starting or
  cooling down (`MutexHeld`). The theorem is `BridgeIsOne`, of the invariant and the action
  property.
* `Ephemeral`, for any agents with a positive budget and at least one attempt at a typed
  answer. The iterations run ahead of the forced one by at most the attempts made and the replies that
  called disabled tools (`BudgetFits`), and attempts are counted only of typed answers (`AttemptsFit`).
  `EphemeralAssumption` asks that a forced typed answer has at least as many iterations as
  repairs: `RunTyped` does not check it, its one such caller gives 30 and 2
  (`critic/report.go`). The theorem is `AnswersLand`.
* `BridgeCall`, for any number of attempts, any errors, statuses and timeouts. The lines on
  the wire carry the next numbers a caller is to be shown, with a witness for how many
  deltas precede each line (`Numbered`); an error line on the wire or read is what the
  model said of this attempt (`ErrorsFit`), the far end is done with an attempt before the
  next (`SaidFits`, `FarFits`), and none of the earlier ones was an overflow
  (`NoOverflowBefore`). The theorem is `StreamsAreFaithful`.
* `Lessons`, for any miners, topics, closeness, embedders and starts. Each hand writes its
  own part of a row, so rows and counted uses stay in step (`CorpusFits`); a miner is gone
  before its server's configuration is (`MinersFit`), so every row of the index has a
  vector the candidate can be compared with (`IndexFits`). `NearestIsNearest` shows, by
  well-foundedness of `<` on the distances from the greatest closeness, that the index has
  a nearest lesson: if that one is not close, none is. The theorem is `LessonsLast`.
* `Board`, for any run ids, requests, finite set of notifiers, cap and clock. Whoever has
  counted saw room for one (`NoticesInv`): `FloodIsBounded`. A run is seen no earlier than
  created, no row is older than its run or younger than the clock, what is unread stopped
  no earlier than the last look, and what stopped later is unread (`BadgeInv`):
  `BadgeIsNews`. For pages (`PagingInv`): what was delivered lies on or before the cursor,
  and a run that matched all along was delivered or lies past it. A run keeps its key while
  it exists (`PlacesKept`: ids are not drawn again), a row that is left out has every row of
  the page before it (`PageTakesTheNewest`, by the cardinalities of what is newer), and a
  page has an oldest row (`OldestOfPage`, by well-foundedness of `<` on its timestamps, then
  on their ids). The theorem is `NothingIsSkipped`; runs are finitely many.
* `Monitor`, for any ids, changes, outages and polls. The status kept of a run is where its
  last line ends, and a run without lines was unfinished when first seen, or is not seen
  yet (`RunTold`); what is kept of it is terminal or unwatchable exactly as its flags say
  (`RunKept`). The theorem is `OneStory`.
* `BashTool`, for any commands, viewers, outputs, limits, and any set of pids, so any
  number of forks. The next pid is above those in use, so a parent and the leader of a
  group are older than those below them (`Ascending`); a shell leads its group, and all in
  it are of its call (`ShellsLead`), hence who is killed in a group was struck by the
  deadline of its own call, which the answer tells (`KillsFit`). A process that carried
  the mark when a scan began is still to be read, was found, or carries it no more
  (`ScanFits`), for no step gives a mark to a process that is there (`Fades`); and
  all that was found hangs under a root: the least pid that does not would have an older
  parent that does (`ForestIsAll`, by well-foundedness of `<`). The theorem is
  `NobodyHides`. Of a text that is cut, half of what the marker leaves is its end; with
  nine bytes that is the three of a status line, and the line begins a character, so the
  cut cannot begin behind it (`TailKept`, `TextCut`, `Formatted`). The theorem is
  `StatusIsTold`.
* `Skills`, for any sources, names, embedders, blocked and pinned guides and numbers of
  edits, attempts and starts. While nothing was edited since a scan began, what is merged is
  what the sources so far are due, and what was read of the next is what its directories
  hold (`BuildFits`); merging a source gives what one source more is due (`KeptOffers`,
  `DueGrows`, `MergeFits`), and what all are due is what layered directories promise, the
  last source of a name first (`DueOfAll`). That holds of the rows until they are served, and of nothing else:
  a failed build leaves an older index, which is why the property speaks of the rows.
  A vector is of the content it ranks wherever it is kept (`VectorsFit`), so reuse by name
  and hash may take any cached one (`RowFits`); no name is twice (`NamesOnce`), and a seed
  takes indices of its snapshot, once each (`SeedMakes`). The theorem is `GuidesStayCurrent`.
* `LiveFeed`, for any runs, pages, dashboards, workers, capacities and numbers of writes,
  breaks and reads, with no assumption on them. `NewsIsComing` is inductive but for types
  (`FeedTypes`): each step moves the news of a run one stage on, from the store's channel to
  a publisher's bulletin, which names every open stream that shows the run (`Published`), to
  a queue or its overflow flag (`DeliverStep`), to a request of the page (`StreamStep`), to a
  read of what the store holds (`PageStep`). A reconnection starts with a refetch, so a
  bulletin for the old subscription may be lost. The theorem is `NewsArrives`, the
  safety half of `CaughtUp`; that what is coming does come needs fairness.

Assumptions used: the named assumptions of the modules, on the constants alone. TLC
evaluates them in the runs; those of an instance are assumed by name in `WorldAgents` and
`WorldServer`, for the constants the instance gets there.

**Model-checked only.** Liveness under fairness (`NotifyUnblocks`, `AwaitWakes`,
`CancelStops`, `CaughtUp` of both modules, `StopIsOrderly`, `ConclusionCovered`, and the
fairness part of `IsLevelWait`), which is out of the prover's reach, as is induction over
data. `EditsLand`, `TurnsComeBack`, `ImagesFit` and `EndsAcrossCrashes` stay with TLC: the
first three are about the recursive functions of `EditFile` and `Projection`, the last is
`EndsAreToldOnce` and `RestartMatrix`, proved of `CrashSpec`, in the worlds of its run.

## 5. Not modelled, and why

* The name allocator: `RunRegistry` takes ids to be fresh. Its drop with the registry and
  its re-seeding from rows is the next module to write.
* Configuration, workspaces, run specs, flags: parsing and external commands. Embeddings
  and text ranking: floating point; `Skills` and `Lessons` take closeness as given.
* The other tools (search, inspection, web): sequential readers and formatters. Pages of
  the frontend: rendering; the part that decides when to ask again is in `LiveFeed`.
* Of modelled parts: prompts and wording, tool schemas, token usage and caching fields;
  fuzzy matches of `str_replace`; search, statistics, attachments and migrations of the
  store. Store errors are deaths in `StepLoop` and excluded in `SessionLifecycle`: the code
  leaves such a session ongoing on purpose. They are modelled in `Observer`, and in `Critic` only
  as crashes: without one, a sentinel that cannot be written (`attribute.go` 96-98) leaves its
  lesson to be scored a second time in the same process. Panics outside tools are deaths too.
* Two calls of `edit_file` on one file may lose an update (each reads, resolves and writes
  for itself) and an index of lessons may be replaced by an older list; nothing in the
  repository promises otherwise, so no property says so.
* Lost Inputs after a crash between a commit and its notifier call: nothing obliges anyone
  to recover, so there is no liveness property to state.

## 6. Plan

Done: all modules above and the proofs of sixteen of them.

1. The name allocator with spawn, its drop and its re-seeding, against `RemoveIfEmpty`.
2. `Observer` and `Critic` composed: the hook's order against the phases' as one system.

# Verification of orcha-agents

TLA+ models of the parts of orcha-agents whose correctness depends on order: what happens when a turn ends
while another session is being created, when a process dies between two file operations, when two callers
wait for the same write. TLC checks the models on small instances; TLAPS proves the most important
invariants for every value of the constants.

| module | what it is |
| --- | --- |
| `Conductor` | one task run: scheduling, dispatch, completions, verification, repair, restart |
| `MCConductor` | small task graphs for TLC |
| `ConductorProofs` | theorems about `Conductor`: types, slots, verdicts, attempts and repair passes |
| `ConductorFresh` | theorems about `Conductor`: no stale results; extends `ConductorProofs` |
| `SessionPersistence` | one session's way to its file: the debounced queue, its callers, the watcher |
| `MCSessionPersistence` | two metadata values for TLC |
| `SessionPersistenceProofs` | theorems about `SessionPersistence`: types, entries and flushes, what the files hold |
| `SessionTurns` | the turns of one session: sending, steering, queueing, stopping, retrying, reporting |
| `MCSessionTurns` | small sets of messages and mishaps for TLC |
| `SessionTurnsProofs` | theorems about `SessionTurns`: where messages wait, when a turn may begin over another, what Stop and reports mean |
| `EventStream` | abstract: what the transport promises an application |
| `Transport` | the WebSocket client and server; implements `EventStream` |
| `TransportProofs` | theorems about `Transport`, the refinement among them |
| `MCTransport` | all mishaps for TLC |
| `WebhookRetries` | the webhooks of automations: first requests, the retry queue file, the history file |
| `MCWebhookRetries` | two webhooks of two automations for TLC |
| `WebhookRetriesProofs` | theorems about `WebhookRetries` |
| `SourceAuth` | the OAuth credential of one source: refreshing, signing in and out, the sessions that wait |
| `MCSourceAuth` | all mishaps for TLC |
| `SourceAuthProofs` | theorems about `SourceAuth` |
| `Picking` | the elements of an array that a condition picks, in their order; used by `SessionTurns` and `WebhookRetries` |
| `SequenceLemmas` | lemmas about sequences, finite sets and iteration that the proofs share |

Run them with `tlc -config X.cfg MCConductor.tla` (or another `MC` module) and
`tlapm` on each of `ConductorProofs.tla`, `ConductorFresh.tla`, `SessionPersistenceProofs.tla`,
`SessionTurnsProofs.tla`, `TransportProofs.tla`, `SourceAuthProofs.tla`, `WebhookRetriesProofs.tla` and
`SequenceLemmas.tla`. `PROJECT.json` maps every
definition to the lines it models and lists hazards, runs and theorems.

## 1. The system

orcha-agents runs LLM agents in *sessions*. A server process (headless, or inside the Electron app) holds
the sessions in memory, stores each in a JSONL file, runs turns by driving an agent SDK, and streams events
to user interfaces over WebSocket RPC. A *task* is a directed acyclic graph of prompts; the *Conductor*
runs every node in a child session and lets an orchestrator session verify the outcome.

All of it is single-threaded JavaScript per process. Concurrency is interleaving at `await`: a handler runs
to its first await undisturbed, and whatever it read before may have changed after. The models use exactly
that granularity: an action is one stretch between awaits.

### Components

| component | state | operations | hard behaviours | what makes it correct |
| --- | --- | --- | --- | --- |
| **Conductor** `server-core/src/tasks/TaskRunner.ts` | the `ActiveRun` (status, node states, slots, verdict listener, counters), the append-only run log, node outputs | run, dispatch, onSessionComplete, retry, verify, repair, pause/resume/stop, rehydrate | commands and completions during awaited session creation; stray turns of replaced sessions; crash and rebuild from the log | slots exact, cap kept; results built from current inputs; verdict always awaited, never misattributed; attempts, repairs and tokens bounded; a run settles |
| **Session persistence** `shared/src/sessions/persistence-queue.ts`, `storage.ts` | pending entry and timer, writes in flight, last written signature; `session.jsonl` and `.tmp` | enqueue, timer, flush, cancel, write; listSessions' cleanup; updateSessionMetadata | timer writes beside flushes; two flushes waiting for one write; crash between file operations; the queue's own writes reported back by the watcher | nothing pending is forgotten; an acknowledged message is stored; the file never goes back; no foreign metadata lost |
| **Session turns** `server-core/src/sessions/SessionManager.ts` | per session: `isProcessing`, generation, message queue, background agents, pending permissions and credentials | sendMessage, cancelProcessing, onProcessingStopped, queued-message replay, session deletion | state read before an await and used after it; stop racing completion | one turn at a time, no queued message lost, one completion per turn |
| **Transport** `server-core/src/transport/` | per client: sequence number, unacknowledged buffer, reconnect deadline; pending requests | request/response, event push, acknowledge, reconnect and replay, eviction | lost connections, replay and overlap of old and new sockets, buffer limits | every event exactly once and in order, or the client is told to refresh |
| **Decisions** `server-core/src/decisions/` | none | ask a model with a fixed form | timeouts answer "undecided" | stateless: nondeterministic answers inside `Conductor` |
| **Webhook retries** `shared/src/automations/` | the retry queue file and the tick that reads it, the history file with its mutex and compaction | event handler, enqueue, tick, append, compaction, start-up, import | requests and file operations are awaited one by one; the queue is read at the start of a tick and rewritten at its end; crashes | a queued webhook stays queued until the history tells how it ended; attempts bounded |
| **Automations** (the rest) | event-bus handlers, rate counters | match event, run action | few | matching rules |
| **Source credentials and token refresh** `shared/src/sources/`, `shared/src/auth/`, `server-core/src/handlers/rpc/oauth.ts` | per source: the stored credential, refreshes in flight, cooldowns, sign-in flows, preparations under way, cards of paused sessions | ensureFreshToken, oauth start/complete/cancel/revoke, completing paused sessions | concurrent refreshes with rotated tokens; a start during another's preparation; restart, crash, late failures | one refresh and one sign-in at a time; every paused session answered |
| **MCP pool** `shared/src/mcp/` | clients by source | connect, sync, disconnect, call | sync while calls run | calls go to connected clients only |
| **Messaging gateway** `messaging-gateway/src/` | pairing codes, bindings, renderer buffers | pair, bind, route, render | events of one session rendered in order | codes used once; ordering |
| **Privileged execution broker** `server-core/src/services/` | pending approvals | request, approve, expire | answer after expiry | approval used once, before its expiry |
| **Permissions, pages, session tools, bootstrap, scheduler, archive cascade, adapters, user interfaces** | little or none | per-call decisions, request and reply, start-up | few | see `PROJECT.json` for why each is left out |

### How they interact

* The Conductor calls `createSession`, `sendMessage` and `cancelProcessing` of the SessionManager and
  listens to `onSessionComplete`, one event per ended turn. The event says whether the turn answered a
  person (`fromUser`), whether background agents still work, and how it ended. The orchestrator's verdict
  arrives the same way, through a one-shot listener.
* The SessionManager changes a session in memory and calls `persistSession`, which enqueues it; before
  acknowledging a user's message it awaits `flushSession`. The queue writes a file; a watcher reports the
  change back to the SessionManager, which has to tell its own writes from an outsider's. It does so by
  comparing signatures of the header.
* User interfaces send RPC calls over the transport and get every session event pushed back.
* Automations, pages and messaging adapters create sessions and send messages like users do.

## 2. Conductor

### Correspondence

The class instance is the record `run`; each method is an operator from a run to the run it leaves behind
(`ScheduleReady`, `FailNode`, `OnSessionComplete`, `HandleVerdict`, ...), so calls inside a handler compose
as in the code. Pending promises are part of the run: `creating` (dispatches awaiting `createSession`),
`sending` (awaiting `sendMessage`'s set-up), `checks` (outcome classifications), `asks` (sends to the
orchestrator), `hop` (the decision model reading a verdict or narrowing a repair). The run log is the part
of the record that survives `Crash`: `logState`, `logFails`, `logUnparsed`, with `attempt`, `session` and
`output`, which are rebuilt from `node-scheduled` and `node-spawned` entries and from the output files.

Child sessions are named `<<node, attempt>>`, because each dispatch creates one. `userTurns` and `wakeTurns`
are the sessions busy with a turn of a person or of an ended background agent: `TurnEnds` makes the
completion event from them. The SessionManager is thus modelled by what it promises the Conductor, and
the module leaves every order of creation, prompt, message, turn end, wake-up, refusal and error open.

Three fields record history for the properties: `inputs` (the outputs the last prompt of a node quoted),
`verified` (the outputs the last verification quoted) and `repairs` (passes over all restarts).

### Environment

`MaxForeign` counts what users and background agents do unasked; `MaxCrashes` counts crashes. A user for
whom a node waits can always answer. `QuietWindows` is an assumption that some runs make: nobody ends an
old turn of a node, or messages its new session, while that session is being created and prompted, and a
send to the orchestrator is refused only while the run still waits for it. `conductor_rounds` makes it,
`conductor_open` does not; section 8 says what happens without it.

### Runs

| run | instance | shows |
| --- | --- | --- |
| `conductor_rounds` | join of three nodes, two slots, one retry, one repair pass, budget, 2 foreign steps, quiet windows | `TypeOK`, `ResultsFresh`, `CompletedAsVerified` |
| `conductor_open` | a step and one that reads its reply, one slot, one retry, one repair pass, no quiet windows, 1 foreign step, 1 crash with rehydration | `SlotsExact`, `VerdictAwaited`, `AttemptsBounded`, `RepairsBounded`, `RunSettles` |
| `conductor_orphan` | stop during creation | a stopped run registers and prompts a child (TaskRunner.ts:436-442) |

*Bounds.* The join is the smallest graph with two nodes in parallel, a node with two inputs, and a proper
repair frontier. A retry of one node, one repair pass, two foreign steps and one crash are enough for every
pair of them to overlap; the invariants about counting are proved without these bounds (below).

*Fairness.* `WF` of the dispatch, of the sessions and of the verification: promises settle, turns
end, ended background agents report. A user, a command, a crash or a restart is never forced.
`RunSettles` therefore says "settled, or waiting for a person, or down".

### What is proved

From `ConductorAssumption` only (any acyclic graph, any limits, any wiring, any number of foreign steps and
crashes, quiet or not):

* `TypeCorrect`: `Spec => []TypeOK`.
* `CapHolds`: `Spec => []SlotsExact`. `TypeOK` alone is not inductive (a slot could be released below zero),
  nor is `SlotsExact` without the types and the finiteness of the running set, so both are proved by one inductive invariant, `SoundInv`. The
  arithmetic is about the cardinality of the batch that `ScheduleReady` marks running: `NextBatch` never
  has more members than there are free slots.
* `VerdictHeard`: `Spec => []VerdictAwaited`. The invariant `AwaitInv` adds that a listener and a pending
  decision-model call exclude each other, that a running or paused run has neither, and that a crash leaves
  none: without this a verdict could be taken twice.
* `AttemptsLimited`: `Spec => []AttemptsBounded`. The bound alone is not inductive, because a dispatch adds an
  attempt. `LimitInv` adds that a pending node is one below it, that only a finished run has cancelled nodes
  (so resuming a paused one revives none), and that after a crash every node is one below the new bound.
* `RepairsLimited`: `Spec => []RepairsBounded`. Every pass is paid for before it starts, in
  `repairsUsed` and in the FAIL entries of the log, so `repairs` is at most both; a pass that waits for the decision
  model to narrow it is paid for and not started. Rehydration recounts `repairsUsed` from the log and so
  never refills it.

With `QuietWindows`, and otherwise as above:

* `NoStaleResults`: `Spec => [](crashes = 0 => ResultsFresh)`. `ResultsFresh` is preserved because whatever is redone takes its
  dependents with it (`FrontierClosed`) and nothing that runs or is done depends on a node that is not done. That the node
  whose attempt ends is the one the completion is about needs `GoodInv`: every session under way is its node's
  latest attempt, of a node that runs or that `stop()` cancelled, and a running node's current session is its latest as
  soon as that session exists. The crash is excluded because rehydration takes node states from the last
  `node-finished` entry: a node that a repair pass had sent back is done again, with the output of an earlier attempt.
* `CompletesAsVerified`: `Spec => []CompletedAsVerified`, crashes or not. In a verifying run every node is done, so no session is
  under way and no output can change before the verdict.

Each method of the class has a lemma per invariant, and the actions cite the lemmas of the methods they apply.

Only checked: `RunSettles` (liveness is out of the proof system's reach). `ResultsFresh` and `CompletedAsVerified` hold under
quiet windows only.

### Left out

Prompt text and the parsing of verdicts beyond what a reply means; write errors inside `writeNodeOutput`
and `appendRunLog`; an output file missing at rehydration; the `skipped` state, which nothing produces;
Kanban and status writes; several runs at once. An orchestrator turn that ends in an error is a completed
one without a verdict, and a timeout of a turn is an interrupted one, as the code treats them. The
completion that `cancelProcessing` emits after a stop is ignored by the settled run. A verdict that names
only unknown nodes is one that names none.

## 3. Session persistence

### Correspondence

One session, because the queue's maps are keyed by session. Its messages are a version number, its header
metadata one value, which is also its signature. `queue` holds the pending entry, the number of running
timers, `lastWrittenHeaderSignature`, the writes in flight and `writeInProgress`; `disk` holds the two
files. A write runs through `open`, `fill`, `unlink`, `rename`, one action each, because the operations of
two writes interleave in the thread pool. `onto` is the file an open descriptor points at: it moves when
another write renames or unlinks that file. `Settle` resolves a write's promise and resumes the flushes that
waited for it, in order, in one step, because microtasks run before anything else.

`Save` is a change in memory with `persistSession`, and with `flushed` the flush its caller awaits;
`UpdateStored` is `updateSessionMetadata`; `WatcherReports` and `DeferredApplied` are
`onSessionMetadataChange` and its deferred half; `ListSessions` is the removal of orphaned temporary files;
`DeleteSession` is `deleteSession` after its awaits, one step because the rest of it, the removal of the
directory included, runs without an await: the entry is cancelled, but the writes under way go on
(`Erased`). One that has its file open writes to a file that is gone, one that has not fails (`OpenFails`),
unless a later write has made the directory again. `listed` says whether the application has the session; a deleted one
may still be saved by whoever holds its object (`Late`). `Crash` is a crash, the listing at the next start, and the reload.

`trouble` records what went wrong so far, so that each property can name its assumption: mishaps of the
environment (`edit`, `update`, `misread`, `failure`, `cleanup`, `delete`, `crash`) and three situations the code
brings about itself: `late` (a deleted session is saved), `overlap` (two writes in flight, which share one temporary file; a timer's write is not
tracked in `writeInProgress`) and `crowd` (two flushes waiting for one write).

### Runs

| run | shows |
| --- | --- |
| `session_persistence` | `TypeOK`; `Attended`: a pending entry has a timer or a waiting flush; `FlushesSerialized`; `AcceptedStored`: what a returned flush promised stays stored; `NeverBackwards`; `LatestAtRest`: at rest the file is the session in memory, and a deleted session stays deleted; `Drains` |
| `session_crash` | the session file is unlinked before the rename; a crash there and the cleanup at start lose both (persistence-queue.ts:160) |

*Bounds.* Three saves give a write in flight, an entry behind it and one more save during it; two waiters are
the first that can go wrong together; one mishap of every kind meets every order of these. The proofs
drop the bounds on saves, waiters and mishaps.

*Fairness.* Timers fire, and the thread pool ends each operation. Saves, watcher and environment are not
forced. `Drains` excludes a misread, after which the watcher's adoption and the next write can feed each other.

### What is proved

From `PersistenceAssumption` only:

* `TypeCorrect`: `Spec => []TypeOK`.
* `NobodyForgotten`: `Spec => []Attended`.
* `OneFlushAtATime`: `Spec => []FlushesSerialized`.
* `PromisesKept`: `Spec => []AcceptedStored`; `OnlyForwards`: `Spec => NeverBackwards`; `AtRestStored`:
  `Spec => []LatestAtRest`.

The inductive invariant is `Files /\ Bookkeeping /\ Around /\ Unborn /\ Serial`. `Attended` is not
inductive by itself: `flush` clears the entry's timer and relies on `writeInProgress` naming a write that
is really in flight, and on the clean-up of a timer that has already fired not being counted twice; so
`Bookkeeping` carries, for every entry and write, the ledger of timers, ids and `inProgress`. `Serial` says
that, while no two flushes have waited for the same write, at most one flushed write is in flight and it is the one
`writeInProgress` names. The queue's methods have a lemma each, the actions a lemma each on top. New ids are
fresh by a pigeonhole argument (`NewIdFresh`).

What the file holds is a second invariant on top, `Stored`. None of the three properties says
where a write is, yet whether the next step keeps them depends on it. `Stored` says that, while writes do not
overlap and nothing destroys what they wrote, there is at most one, and its step tells both files (`At`): the temporary
one is absent, empty or whole, and the session's own is missing only while the temporary one is whole. Versions are ordered
along the way (`Recent`): file, write, entry, memory. `Own` and `Latest` say the same of the metadata: what the last
write wrote is what the queue takes for its own, so no merge happens that nobody asked for. After a deletion `Gone`
says that no entry is pending and no write under way has a file to write to.

Only checked: `Drains` (liveness).

### Left out

`flushAll` (a flush of each session), the layout of the file, a removal of the directory that fails half-way, and
errors thrown before a write's first await, which leave the signature as it was. The signature is the whole metadata.

## 4. Session turns

### Correspondence

One session of the SessionManager. `session` holds the scalar fields of `ManagedSession` (`isProcessing`,
`processingGeneration`, `stopRequested`, `stopEpoch`, `turnFromUser`, `authRetryAttempted`,
`authRetryInProgress`, ...), `queue` is `messageQueue`, `accepted` is `acceptedSteers`, `agent` the backend's
`PendingSteers`, `ends` the calls of `onProcessingStopped` that await something. `calls` has the last
`sendMessage` call of each message and where it is:

| stage | code |
| --- | --- |
| `entered` | up to the first look at `isProcessing` (6768), behind `clearStoredPendingPlanExecution` and `ensureMessagesLoaded` |
| `persisting` | the bubble is pushed and flushed (6884) |
| `preparing` | the session is claimed (6950-6981); credentials, agent and servers are set up |
| `running` | `agent.chat` began (7177); `winding`: its generator is over and the loop has still to be told |

`Checks`, `Claim`, `StartsChat`, `NotStarted`, `Superseded`, `Completes`, `ChatFails` and `SetupFails` are the
stretches of `sendMessage`; `Ended`, `EndChecksQueue` and `EndReports` those of `onProcessingStopped`;
`ProcessNext` is `processNextQueuedMessage`. A replay is a new call of the same message. `Stop` is
`cancelProcessing` and `StopTimesOut` its safety timer, `Handoff` the plan and authentication hand-offs,
`AuthFails` and `AuthRetries` the two halves of `attemptAuthRetry`. Steers follow Claude's backend: held
until the next tool call, else handed back (`WindsDown`).

Between a refusal and the `setImmediate` that retries (7495), any other continuation of `sendMessage` may run: a message
that claims the session then becomes the one sent last, the retry sends that one again, and the refused one is not sent
any more. `history.between` remembers who claimed so. The call a retry replaces goes on: `left` holds such calls,
`LeftStarts` and `LeftEnds` are what is left of their `sendMessage`. They begin their chat, in the discarded agent or in the
new one, and end in any of the ways a turn can; a handoff by them and their recovery of steers are left out. `seen` is the generation
at a call's look at `isProcessing`; the code has no such field, `TurnsApart` speaks of it.

### Environment

`Overlap` says whether a message may be sent while another is being taken in, a turn is ending or a retry is
pending. With it off, nothing comes in between (`Ready`, `Free`): that is a scenario in which messages do not race each other,
not an order the code enforces. That no second refusal arrives before the immediate of the first has run (`~session.retrying` in
`AuthFails`) is one: the answer of a model is I/O, and comes in a later phase of the event loop. `Mishaps`
names what may happen: `stop`, `slow` (a stopped turn takes longer than the five seconds of the safety timer),
`handoff`, `auth` (the model refuses an expired login), `error` (the backend throws), `setup` (the agent cannot
be set up), `delete`. `Recovered` are the messages found queued after a restart.

### Runs

| run | instance | shows |
| --- | --- | --- |
| `turns_quiet` | 3 messages, 2 steerable, the third sent by the application itself; 3 of stop, handoff, error; no overlap | `CompletionMeansIdle`, `StopHolds`, `UserTurnsTold`, `AllAnswered`, `TurnsEnd` |
| `turns_overlap` | 3 messages at any moment, the third found queued after a restart, 1 mishap of any kind | `TypeOK`, `InOnePlace`, `QueueShown`, `TurnsApart`: a turn is claimed over another only by a message that was being persisted when that other was claimed |
| `turns_together` | 2 messages at once | both begin a turn (SessionManager.ts:6768, 6950) |

`turns_quiet` and `turns_overlap` belong together: the first shows that the protocol of queue, steers, stop
and hand-off is right when messages do not race each other, the second what still holds when they do. What breaks
in between is in section 8.

*Bounds.* Three messages are one running, one steered and one queued, the least for an order in the queue;
one mishap of any kind meets every interleaving of them (5.5 million states; a refused login with its retry and the message
that comes between is one mishap), three every sequence of mishaps. `TurnsApart` is what the code does guarantee
where `turns_together` refutes `OneTurnAtATime`.

*Fairness.* Awaits settle, a model's turn ends, immediates and timers fire. `turns_quiet` does not let the set-up
fail (section 8), and does not need a tool call ever to happen.

### What is proved

From `SessionTurnsAssumption` only: any number of messages sent at any moment, any mishaps, any messages found queued:

* `TurnsExclude`: `Spec => TurnsApart`, with `Overlap` on or off. The invariant is `SeenInv`: a call that persists its bubble
  saw no generation later than the session's, and while a turn runs an earlier one. With `Overlap` off this says that no
  turn begins before the one before it is over; there the invariant is `OneInv`: one call at a time is between its entry and its
  claim (`OneEnters`), and the session stays idle while that call's bubble is written. `Persisted` claims without looking at
  `isProcessing` again, so neither is visible in the property.
* `TypeCorrect`: `Spec => []TypeOK`; `WaitsOnce`: `Spec => []InOnePlace`; `QueueAsShown`: `Spec => []QueueShown`.
  `InOnePlace` leaves the messages aside that claim the session between a refusal and its retry, which are sent twice
  (section 8: 7495); all others are in one place, in histories with such messages too.

None of these three is inductive. That a steer can be put back into the queue without being there twice needs to know
that what the backend holds is not queued and has not reached the model, and that it is put back where the
order wants it needs an order on both sequences. The invariant `PlacesInv` has a part for each of these:

* `Placed`: no two bubbles share a position, the queue and the backend's steers are in the order of theirs, and disjoint;
  what waits in either has a bubble, has not reached the model, and its call has returned;
* `Clock`: no turn is after the session's, and the session's own is of the message sent last, so that a refusal
  (`AuthFails`) takes back what did reach the model (`Reached`);
* `Refused`: a message to be sent once more after a refusal is in no place meanwhile; and `Lefts`: a call that a retry replaced
  has begun its chat, or is of a message that came between refusal and retry;
* `Unread`: until the session is loaded nothing moves, so the messages found queued are still where the file had them;
* `Shown`: the second half of `QueueShown`.

`recoverPendingSteers` is a loop, here the recursive function `LookedAt`. What it returns (`RecoveryFacts`: exactly the queue and the
accepted steers, in order) is shown by induction over its steps (`InductionOver` and `Iteration` of `SequenceLemmas`).

* `StoppedStays`: `Spec => StopHolds`, where no login expires in mid-turn; with one, Stop loses against the retry
  (section 8: 7495). The invariant is `StopInv`: what was withdrawn is in no place and its call has claimed the session before or
  is over (`Settled`), one that is about to start remembers an earlier stop, and so does the message Stop withdraws
  next, the one sent last (`Withdrawing`). Every step but Stop keeps this for one reason, `Ordinary`.

For any number of messages, turns and mishaps, where messages are taken in one at a time (`Overlap` off):

* `ReportsWhenIdle`: `Spec => CompletionMeansIdle`, where besides no stop outlasts its timer, no login is refused and nothing is
  found queued after a restart (`Steady`). The first two are needed, since the code breaks the property with either (section 8:
  7164 and 7225); the third because the model lets the deferred replay come later than a whole turn, which the code
  hardly does. The invariant is `SteadyInv`: an end of a turn that awaits something is the only one, and no call under way
  could end that turn again (`Resting`); a turn has one call that can end it, and the backend works for that one
  only (`Owned`).
* `UserHears`: `Spec => UserTurnsTold`, with every mishap but a stop that outlasts its timer, and with people's messages,
  though not the application's own, found queued after a restart (`Prompt`). TLC breaks the property without either
  (section 8: 8010 and 6742). The invariant is `TellInv`: a turn that is prepared is the session's, no other is under way with
  it, and the backend works for none but the session's (`Working`); a call that a retry replaced is not the turn of a session
  that goes on (`Discarded`); what the application sent itself waits nowhere, and comes to
  an idle session (`Apart`); `fromUser` is off only while such a message is taken in, or answered with nothing steered
  in (`Told`). Here too the property alone is far from inductive, as it speaks of a flag that each send and replay sets anew.

Only checked: `AllAnswered` and `TurnsEnd` (liveness).

### Left out

Merging of continued messages, the decision model's delivery of mid-turn messages, source activation and its
resend, Pi's native steering, background tasks, unread marks, titles and labels. A session's file is
`SessionPersistence`'s.

## 5. Transport

### Correspondence

`client` holds the fields of `WsRpcClient`, `conns` the server's `clients` and `disconnectedClients`, `sockets`
both ends of each socket with the messages under way. Event numbers and sequence numbers differ: `published`
counts the events pushed by the server since ever, a connection's `seq` counts those sent on it. Buffers are
intervals `first .. sent` of a connection, and `closing` the number in it of the event that announced the server's end, which a
replay carries as well. `Handshake` is `onConnection` after the credential check: it takes
a known connection up again (`Recognised`, then `Replayed` or a stale answer) or makes a new one.
`CheckBegins` and `CheckEnds` are separate when credentials take turns of the event loop (`AuthTakesTurns`).
`Disconnected`, `RetryFires`, `ReconnectNow`, `Invoke` and `Destroy` are the client's handlers;
`ServerSeesClose` is the close handler or the heartbeat, `RetentionEnds` the sixty seconds a disconnected
client is kept, `Announce`, `Stop` and `Restart` the server's life.

`EventStream` is the abstract specification: the application handles the next event, or loads its state anew
and thereby sees at least what it saw. `Transport` instantiates it (`INSTANCE EventStream WITH`), and `InOrder` states that it implements it: `view` is the last
event the application's state reflects, `refreshes` counts its loads.

### Runs

| run | shows |
| --- | --- |
| `transport_order` | `InOrder` (refinement of `EventStream`), `TypeOK`, `AckedWasSeen`, `BehindNeverReplays` |
| `transport_live` | `CaughtUp`: once the mishaps are over the application reflects every event |

*Bounds.* Three sockets are a first connection, one that breaks during its handshake and a third; a buffer of two
and three events make an eviction; two mishaps make each pair.

*Fairness.* Timers fire, handshakes are answered unless the link broke, each end notices a closed socket, the
heartbeat included. Nobody has to push an event, to ask anything, or to break anything. `CaughtUp` is checked with
credentials that are compared at once, because of the connection section 8 describes.

### What is proved

From `TransportAssumption` only, for every number of sockets, events and mishaps and every size of the buffer:

* `TypeCorrect`: `Spec => []TypeOK`.
* `AttachedToOne`: `Spec => []AttachedOnce`, an open socket is the one its connection is on.
* `AckedSeen`: `Spec => []AckedWasSeen`; `NeverReplaysBehind`: `Spec => []BehindNeverReplays`.
* `Implements`: `Spec => InOrder`, the refinement: initial states map to initial states of `EventStream`, every step to
  one of its steps or a stutter.

The refinement is not inductive: that a step shows the application the next event depends on what is under way to
it. The invariant is `IInv`, the conjunction of `TypeOK`, `AttachedOnce` and

* `SocketsInv`, `ClientInv`, `HelloInv`: which end of which socket may be in which phase, what the client waits for on it,
  and that a handshake under way carries the position the client asked from;
* `FlowInv`: the messages on a socket are an answer followed by consecutive events, each numbered by its connection;
* `PositionInv`: the number the client resumes from is the one of the event its state reflects, or is too old to be
  replayed from, or the connection it names is gone;
* `SeqAckInv`: what leaves a buffer was handled;
* `view <= published`.

A first block of lemmas proves the types, a second one carries sockets and connections that an action does not touch
(`Undisturbed`, `Beside`, `Aside`), and then each handler of client and server has a lemma per part of `IInv`.

Only checked: `CaughtUp` (liveness).

### Left out

Requests and responses, compression and binary encoding of messages, TLS, and which of several clients an event
is for (each connection's stream is the same whoever it is for).

## 6. Webhook retries

### Correspondence

One workspace. A webhook is one execution of a webhook action. `stage` follows its event handler
(`WebhookHandler.handleEvent`: request, history entry, queue entry); `file` is the queue file, `tick` the call of
`RetryScheduler.tick` under way with the entries it has still to look at and those it will write back; `history` is the
history file and `writer` its mutex, with the append counter and the compaction under way. Files are written as
`writeFile` does: emptied when opened (`RewriteOpens`, `CompactionOpens`), filled later, with whatever was appended in
between overwritten from the start. `TimePasses` makes an entry due, `ImportOverwrites` is a resource bundle that
overwrites an automation, `Crash` a crash with the next start (`compactAutomationHistorySync`).

Every write can fail (`FilesFail`), and the code catches each failure and goes on: without a history entry
(`AppendFails`, `CompactionStops`: the tick drops the webhook all the same, the handler queues it all the same), without a
queue entry (`EnqueueFails`), or with the queue file as the tick found it (`RewriteFails`) or cut off (`RewriteStops`). A
compaction that cannot start leaves the history alone (`CompactionFails`). A failed append writes nothing.

History variables name the situations in which the code drops a webhook or brings it back, webhook by webhook:
`overtaken` (queued or filtered out while a tick was under way), `cleared` (automation overwritten), `torn` (about to be
written back when the rewriting stopped, by a crash or a failure), and `missed` in its `tally` (the history entry of its end failed).
`unwritten` counts the rewritings that failed altogether.

### Runs

`retries`: two webhooks of two automations, two deferred attempts, one history entry per automation and two in
all, one crash, one failure, one import.

* `KeptUntilTold`: a queued webhook stays queued until its history tells how its retries ended, or was in one of the
  situations above.
* `RetriesBounded`: it is requested at most `MaxAttempts` times and delivered once, plus the one request that each
  crash and each failed rewriting repeats.
* `NewestKept`: whatever is compacted meanwhile, and whatever fails, the newest history entry is the last one appended, until
  a compaction stops in the middle of its writing.
* `RetriesEnd`: the retries come to an end that the history tells, unless its entry failed.
* `TypeOK`, which bounds the attempt number of an entry.

*Bounds.* Two entries are the least of which one can be requested while the other is queued, put off or filtered
out; two attempts have a first, a middle and a last request; a cap of two makes every second append compact. One
failure meets each of the six writes at each of their moments; the theorems hold for any number.

*Fairness.* Requests end, since they have a timeout; file operations return, and fail finitely often (`MaxFailures`): were
the queue file never to be written again, its entries would be requested at every tick for ever; the interval fires. Time passes during a tick too, but
an entry becomes due for the next one, so `TimePasses` is strongly fair. Events, imports and crashes are not forced.

### What is proved

From `WebhookRetriesAssumption` only, for any webhooks, automations, limits, crashes, failures and imports:

* `TypeInvariant`: `Spec => []TypeOK`. With it goes `Shaped`: a tick that works has something left to look at, a
  compaction knows what it keeps.
* `NewestKeptAlways`: `Spec => []NewestKept`. The property only speaks of a resting writer; `LastKept` follows the last
  appended entry through the compaction: it ends the file that is read, and what is kept of it. A compaction that stops in
  the middle of its writing forgets it.
* `RetriesBoundedAlways`: `Spec => []RetriesBounded`. A count is only as good as the entry that carries the number of attempts, and
  the same webhook has an entry in the file, in what the tick has still to look at, and in what it will write back. `Waits`
  says that each append to the history has one owner, `Lines` that no webhook has two entries in one place or
  different numbers in two, `Counts` that each entry's number covers the requests made, but for the request that is under way and
  the `Repeats`, those that crashes and failed rewritings repeat.
* `KeptUntilToldAlways`: `Spec => []KeptUntilTold`. `Owes` says where the entry of a webhook is in each phase of the tick, or
  that its end is being told, whether or not the telling succeeds.

Queue and history are filtered by `Picked`, whose positions are ascending numbers of a set; `SequenceLemmas` shows which
elements it returns, in which order and which is the last.

Only checked: `RetriesEnd` (liveness).

### Left out

The rate limiter, retries within one request (`executeWithRetry` is one request here), delays between attempts, the
pruning of history by other tools. A tick that cannot read the queue file does nothing, and is no step here. An append that
fails after it wrote half a line is not modelled: the readers skip the line.

## 7. Source credentials

### Correspondence

One OAuth source of a workspace and the sessions that use it. `store` is the stored credential: which grant, the
how-manieth refresh token of it, whether the access token is fresh; `shown` is `isAuthenticated` of its config. `provider`
is the other side (external): for the current refresh token it gives out new tokens, a spent one it refuses. Its `kind` decides
what becomes of the refresh token: `google` issues none anew, so that `refreshGoogle` saves the old one rightly;
`slack` rotates it, and `refreshSlack` saves the old one all the same; `microsoft` rotates it, and `refreshMicrosoft` saves
the new one, as `refreshGeneric` and `refreshMcp` do (`Issued`, `Saved`). `flight` is what each session
asks the provider, so that two requests may be under way if the code lets them; `pending` is the entry of `pendingRefreshes`,
`awaits` whose request a session awaits, `cooling` the `failedAttempts` of each session's
`TokenRefreshManager`. `flows` are those of `OAuthFlowStore` and the exchanges under way, numbered in the order they
are stored, so that the newest live one is the largest; `starts` is the `oauth:start` call of each session's card and
`preparing` the starter's map. `card` is the last sign-in card of a session, `held` its `pendingAuthRequest`.

| action | code |
| --- | --- |
| `AsksForToken` | `ensureFreshToken` up to the request; `StartsRefresh` or `JoinsRefresh` |
| `ProviderAnswers`, `TokensArrive`, `RefusalArrives`, `AnswerLost` | the request, and what `refresh` and its callers do with the answer |
| `TokenExpires`, `CooldownEnds` | time |
| `Pauses` | `onAuthRequest` |
| `StartWaits`, `StartJoins`, `StartPrepares`, `StartAlone` | `startOAuthFlow`: behind a preparation, into a live flow, on its own; `StartAlone` is a client that cannot join, or `restart` |
| `PreparationEnds`, `PreparationFails` | the preparation settles, and those who waited for it go on in the same turn of the event loop |
| `Completes`, `ExchangeSucceeds`, `ExchangeFails` | `completeOAuthFlow` with `exchangeAndStore`, `completeAuthRequestsForSource` and `completeAuthRequest` |
| `FlowEnds`, `SignsOut`, `Crash` | `oauth:cancel` or expiry; `oauth:revoke`; a crash and the next start |

`trouble` records what went wrong, so that each property names its exceptions. Two labels are for situations the code
brings about: `raced` (the credential is replaced or deleted under a refresh) and `split` (a failed preparation wakes
several that waited, or leaves a preparation of an older client beside one that waited).

### Runs

`tokens`: two sessions with one card each, three kinds of provider, two flows, two expiries, any two mishaps.

* `NoReuse`: a spent refresh token is presented again only if it is Slack's (section 8), or a successor of it was lost with
  an answer or in a crash. Its mutant sends a second request beside the first.
* `FreshShown`: a usable token is shown as one, unless it was replaced under a refresh.
* `OneSignIn`: the sessions share one live flow, unless a client cannot join, starts over, or `split`.
* `SignInAnswers`: a sign-in answers every paused session, whichever flow it joined, unless its card is `Forgotten`: nothing in
  memory names it, and neither its flow nor the one it replaced lists it, or it stands before an older one (section 8).
  A start over that drops the cards of the flow it replaces violates it.
* `RequestsEnd`: whoever asks for a token or a sign-in gets an answer.

*Bounds.* Two sessions are the ones that refresh or sign in at once; a second flow is the restarted or the competing one; two
expiries make a refresh with a token that was refreshed. What this instance cannot show is left to the theorems: `split`
with several waiters needs a third session, and a late failure that forgets a newer card, or a sign-in that answers the
older of two, a second card per session.

*Fairness.* The provider answers or the request fails, and a preparation ends. Nobody has to ask for anything.

### What is proved

From `SourceAuthAssumption` only, for any number of sessions, flows, cards, expiries and mishaps:

* `NoTokenReused`: `Spec => []NoReuse`, and `FreshIsShown`: `Spec => []FreshShown`. The invariant is `TokenInv`.
  `NoReuse` says nothing of the stored token, so `CurrentInv` adds for a rotated token that is saved that it is the current
  one of its grant unless a refresh has been answered and not saved, and `FixedInv` for one that is not rotated that its number
  stays; `OneFlight` that only the session in `pending` has a request under way; `GrantInv` that nobody holds a token of a grant not yet given (a sign-in then
  starts with number 0 on both sides); `ExpiredInv` that a fresh token has no refresh beside it.
* `SignInShared`: `Spec => []OneSignIn`. The invariant is `SignInv`: besides one live flow, that a preparation under way
  is the one the starter's map names, and that no flow is live beside it. The step that needs most is a
  preparation that fails: of those who waited at most one may go on, else `split`.

* `TypeCorrect`: `Spec => []TypeOK`. Flows are bounded only because each start under way has one it may still store
  (`opened + Promised <= MaxFlows`).
* `SignInsAnswer`: `Spec => SignInAnswers`. Of the cards a flow lists for one session only the last is completed, so `CardInv` says
  that a flow lists no card later than the session's newest, in rising order unless someone starts over, that what a replaced
  flow listed its successor lists (`Nested`), and `Paused` that the card a session holds is its newest and pending.

Only checked: `RequestsEnd` (liveness).

### Left out

Tokens without a refresh token and renew endpoints, credentials typed in, other sources of the workspace, the polling of
`oauth:status`, a session that pauses again while its card is pending, a second `oauth:complete` of a flow whose
exchange is under way, `markSourceNeedsReauth` while servers are built, and a session whose messages are not loaded: for it
`completeAuthRequestsForSource` does not find the bound card (SessionManager.ts:2875 searches what is loaded).

## 8. Findings and divergences

Three comments of the source promise what the code does not keep; each has a run whose trace is the shortest one, and
`PROJECT.json` quotes the lines.

* `conductor_orphan`: a run stopped while a child session is created still registers and prompts it (TaskRunner.ts:442).
* `session_crash`: a crash between unlink and rename loses the session (persistence-queue.ts:160).
* `turns_together`: two messages sent together both begin a turn (SessionManager.ts:6768).

The models show more places where code and comments, or code and intention, differ. No run is kept for them; the
properties above name the assumption that leaves each aside, and the models let each happen.

Conductor (TaskRunner.ts):

* 506: while a retry's session is being created the node still names the replaced one; a turn of that session that ends in
  the window is taken for the new attempt's reply.
* 295: rehydration rebuilds node states from `node-finished` entries; after a crash during a repair pass a node in flight
  is done again, with the output the verdict rejected.

Session persistence (persistence-queue.ts):

* 184: of two flushes that wait for the same write, the second returns while the write of its version only starts.
* 155: the watcher compares with the signature of the write under way: the file as an earlier write left it looks like an
  outsider's, and its metadata is put back into the session in memory (`misread`).
* 163: a write that fails has recorded its signature already, so the next one takes the disk's older metadata for an outsider's
  and merges them over the local ones.
* 127: metadata merged from an outsider is recorded as the queue's own, the session in memory keeps the old, and the next write
  brings that back.
* SessionManager.ts:6686: whoever still holds a deleted session and saves it, such as a turn that ends after the
  100 milliseconds the deletion waits for it, brings its file back.

Session turns (SessionManager.ts):

* 6950: the session is claimed before its agent is set up; when that throws, it processes for ever.
* 6784: a message found queued after a restart is shown twice when another message woke the session.
* 7164: a turn stopped during a set-up of more than five seconds ends twice; the second end reports an idle session while a
  turn runs.
* 7495: Stop between a refused login and its retry does not stop the message.
* 7501-7507: the retry reads `lastSentMessage` when it runs. A message that claims the session between the refusal and the retry is
  sent again in the place of the refused one, which is lost; its own call goes on, so it may reach the model twice, or be
  answered while it is queued.
* 7225: the turn of a login retry is reported interrupted, because `return` runs the `finally` block.
* 6742: `turnFromUser` is set by a message that is only queued; when Stop withdraws it, the application's own turn is
  reported as the user's. An application's message found queued after a restart and replayed into a person's turn does the
  reverse.
* 8010: when a replay whose turn the timer of Stop took for ended fails in its set-up, it ends the turn that runs by then. What
  was steered into that one may reach the model in the application's next turn, which is reported as such.

Transport:

* server.ts:445: a socket that closes while its session cookie is verified leaves a connection registered for ever.
* client.ts:628: after one announced shutdown a client never reconnects by itself.

Webhook retries:

* retry-scheduler.ts:236-238: a webhook queued while a tick is under way is overwritten when the tick writes the queue
  back, and one that an import filtered out comes back.
* A crash while the queue file is emptied and not yet filled loses it; a crash in a tick delivers again what the tick
  delivered.
* retry-scheduler.ts:195-199, 214-218: when the history entry of a webhook's last request fails, the webhook leaves the queue all
  the same, and nothing tells how it ended. webhook-handler.ts:248-249: one whose queue entry fails is not retried at all.
* retry-scheduler.ts:240-241: when the queue file cannot be rewritten, what the tick delivered or gave up stays on it, and is
  requested again at each tick until the file can be written.
* history-store.ts:135: a compaction whose writing stops in the middle loses the newest entries.
* resource-bundle.ts:849-851: an import that overwrites an automation looks for its history entries under names they do
  not use, and leaves them.

Source credentials:

* credential-manager.ts:1094-1101: comments say that deduplication keeps refresh tokens from being invalidated (874-876) and that
  Slack's refresh tokens are rotated ones (slack-oauth.ts:207), but `refreshSlackToken` does not return the new refresh
  token (slack-oauth.ts:229-245) and `refreshSlack` saves the old one: the second refresh of a Slack source presents a spent
  token. `NoReuse` leaves `kind = "slack"` aside; without that TLC finds the trace.

* A sign-in or sign-out during a refresh is undone by what the refresh saves, or marked as needing a sign-in when it fails
  (credential-manager.ts:1124, token-refresh-manager.ts:167).
* oauth.ts:141-144: the comment says a concurrent start must not slip past; several that waited for a preparation that
  fails each start a flow.
* token-refresh-manager.ts:119: a session in its cooldown refuses although another session has refreshed the token since.
* SessionManager.ts:2861: of the cards a flow lists for one session only the last counts (`new Map(boundRequests...)`), but a start
  over (oauth.ts:157-163) lists the new card first and then the older ones it takes over. If the session has
  forgotten the new card, in a crash or as in the next point, the sign-in leaves it pending. The smallest instance has three flows
  and two cards per session; the proof of `SignInsAnswer` found it, not the run.
* SessionManager.ts:2822: a late failure of one sign-in forgets the request the session is paused on by then.

## 9. Plan

What is left, in order of what a user would lose most by:

1. `TaskRun`: what a run promises (steps finish after their dependencies, completed only after a pass, settled for good),
   with `Conductor` shown to implement it; and the composition of `Conductor` with `SessionTurns`, whose completions its
   turn actions stand for.
2. `McpPool` (connect, sync and disconnect of source clients while calls run), the messaging gateway's pairing and rendering
   queues, the privileged execution broker's approvals.
3. Requests and responses in `Transport`; several runs of one orchestrator in `Conductor`.

Every invariant and every action property of the passing runs is a theorem. Proofs still worth doing: `CompletionMeansIdle` with messages
found queued after a restart, once their replay is modelled to come as soon as the code makes it, and what a task run
promises, once item 1 is modelled.

Every module keeps parameters as constants with named assumptions, one operator per method, and no recursive
operator, so that all of them can be proved about. Recursive functions can be: `SequenceLemmas` has induction over a
set of numbers and over the steps of an iteration. Out of the proof system's reach, and left to TLC: liveness, `ENABLED`,
recursive operators, and the folds of the community modules, which are made of them.

## 10. Not modelled

* User interfaces, the Electron shell, command-line tools, the website and vendored code: they keep no state that the
  components above share, and are by far the largest part of the repository.
* Agent adapters (Claude, Pi, WhatsApp worker) beyond what the SessionManager relies on: external SDKs and their protocols.
* Permissions, decisions, pages, session tools, scheduler, archive cascade: functions of one call, or a timer.
* Server bootstrap and lock: sequential, and resting on process identities of the operating system.
* MCP pool, messaging gateway, task creation, privileged execution broker: planned above.

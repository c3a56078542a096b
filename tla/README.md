# A verification development for Mem-kb

Mem-kb is a multi-tenant knowledge base: users upload documents and images or
write notes, a worker parses and indexes them in Postgres, a graph and GBrain,
questions are answered over the index, a nightly job repairs and extends the
graph, and a WeChat channel puts questions from outside. The backend
(`src/backend/app/src`) runs as two kinds of process, an API (`server.ts`) and
workers (`worker.ts`), which share a Postgres database, a Redis with BullMQ
queues, and a file store.

This directory holds TLA+ modules of the parts where order, failure and
concurrency decide whether the program is right; TLC configurations that check
them on small instances; and proofs that TLAPS checks for every value of the
constants. `PROJECT.json` maps each definition to the lines it models.

    tlc -workers 2 -config AssetCore.cfg MCAssetPipeline      # one run
    tlapm AssetPipelineProofs.tla                             # one module's proofs

## 1. Inventory

Paths are relative to `src/backend/app/src`.

| part | state | operations | modelled in |
|---|---|---|---|
| Asset library API (`modules/assets/routes.ts`, `services/asset-deletion.ts`) | rows of `assets` and `jobs`, original files | upload, retry, reprocess, move, trash, restore, purge | `AssetPipeline` |
| Asset processing (`services/asset-processing.ts`, `asset-queue.ts`, `asset-job-state.ts`, `worker.ts`) | `assets.status`, `jobs.status`, BullMQ tickets | the worker's attempt, dispatch, the recovery sweep | `AssetPipeline`, `BullQueue` |
| Knowledge indexing (`services/knowledge-indexer.ts`) | chunk rows, graph nodes, GBrain pages | index, delete | `AssetPipeline` (the parts), `Retrieval` (the chunks' editions) |
| Bulkhead, circuit breaker (`utils/resilience.ts`) | slots, waiters; failures, `openedAt`, `probeRunning` | acquire, release, abort; before, success, failure | `Bulkhead`, `Semaphore`, `Outbound` |
| Outbound calls (`services/outbound.ts`) | one guard per scope, the attempt of each call | `resilientFetch` | `Outbound` |
| Nightly consolidation (`modules/consolidation`, `services/maintenance-queue.ts`) | `consolidation_configs`, `consolidation_runs` with leases, tickets | schedule, dispatch, execute, heartbeat | `Consolidation`, `BullQueue` |
| WeChat channel (`modules/channels`) | bindings with leases and cursor, inbound and outbound messages with attempts | poll, process, answer, deliver, retry, rebind | `WechatChannel`, `Inbox` |
| Notes and publication (`modules/notes`) | notes, revisions, published assets and files | edit, revert, publish, trash, restore, purge | `NotePublication` |
| Retrieval (`services/document-retrieval.ts`) | the result cache of a scope | retrieve, cache, clear, expire | `Retrieval` |
| Question answering, traces (`modules/qa`, `modules/traces`) | traces, answers with citations | ask, persist, fail | `Retrieval`; of channel messages `WechatChannel` |
| Evaluation (`modules/evaluation`) | runs and results | run, report | `Retrieval` |
| Promise helpers (`utils/singleflight.ts`, `utils/concurrency.ts`) | flights under way | share, map | `Singleflight` in `Retrieval` |
| Note page (`src/frontend/src/features/notes`) | the tab's copy of a note, its timer | save, publish by itself, reload | `NotePublication` |
| Document parsing, model protocols, accounts, rest of the frontend, GBrain, deployment | - | - | not modelled, section 7 |

**How the parts interact.** An API handler writes rows with one statement after
another, each its own transaction unless it says otherwise, then calls
`scheduleAssetProcessing`, which is not awaited: it reads the latest queued job
row and adds a BullMQ ticket under that row's id. A worker slot takes the ticket, claims
the asset by a conditional update, parses, writes the index parts concurrently,
and marks asset and job. When it throws, it writes the failure and throws again,
so that BullMQ retries. Every 30 seconds `resumePendingAssetProcessing` returns
assets that have been `indexing` for ten minutes to `queued` and adds their tickets again.
Every worker also runs a scheduler for consolidations; it claims the due slot of
a tenant, inserts a run under an advisory lock and enqueues it; a
processor claims the run by a lease in its row. A worker also takes the leases of
WeChat bindings, polls them, stores what arrives, and answers it in attempts with
leases of their own. A note is published by the API process itself: it writes a
file, a row and the index, then a revision, then the note. A question joins or
starts the flight of its process for the scope, reads or fills the cache row, and
stores answer, citations and the end of its trace in one transaction. Calls to models and
to GBrain go through one guard per scope: a bulkhead, then a breaker, then retries.

**What is hard.** Handlers decide on rows they read earlier and later name the
row only by id. A process may die, or be suspended and wake up, between any two
statements. Redis may lose its data while Postgres keeps its own, and a ticket that
is finished but retained swallows a new one of the same id. A ticket can be redelivered
while the attempt before it still runs; a lease can be given away under a live owner.
`Promise.all` rejects while its other members go on. Abort signals fire at any
await. A cache is cleared while the query that will fill it is on its way. The
`hazards` of `PROJECT.json` list these at their lines; those without a property have a note that says why.

**What makes each part correct.**

- Assets: no row without its file; no queued asset without anybody to process it; a job row that says
  "running" is being worked on; "ready" means indexed; processing ends; trashed content is gone.
- Outbound: no slot lost or invented; first come, first served; no idle slot
  beside a waiter; the breaker's fields agree; a probe always reports; calls end;
  the breaker closes once the dependency is back.
- Consolidation: one run of a tenant at a time; one process at work on it; it ends once; it ends.
- Channel: nothing is lost between WeChat and the inbox; one poller; one attempt at a
  message at a time; one answer per message whatever is retried; completed means sent, and
  stays; a completed trace is not failed by a recovery; every message ends.
- Notes: revisions without gap or duplicate; no file in use removed; "synced" means
  published; a draft left alone becomes a version that is served.
- Retrieval: cached hits are the current editions; ready documents are found; what
  has left the scope fades from the answers; every request ends and closes its record.

## 2. Modules

    BullQueue  <-- AssetPipeline <-- MCAssetPipeline, AssetPipelineProofs
        ^--------- Consolidation <-- MCConsolidation, ConsolidationProofs
        ^--------- BullQueueProofs <-- AssetPipelineProofs, ConsolidationProofs
    Semaphore  <-- Bulkhead <-- Outbound <-- OutboundProofs
                      ^-------- BulkheadProofs <-- OutboundProofs
    Inbox      <-- WechatChannel <-- MCWechatChannel, WechatChannelProofs
                   NotePublication <-- MCNotePublication, NotePublicationProofs
                   Retrieval <-- MCRetrieval, RetrievalProofs

Everywhere a handler or an attempt is a `pc` that names its next statement, and one
action is one statement with the code up to the next await. Definitions that stand
before the one they vary and say "Mutant of" are changed forms of the code that each
property is tried against; no specification uses them.

### BullQueue (external)

What the application relies on of BullMQ: operators on one ticket, by job id.
`Added` does nothing while Redis knows the id, in whatever state;
`Completed` and `Thrown` have no effect for a worker that does not hold the lock any more;
`Stalled` gives a ticket without a lock back `MaxStalled` times. A delay before a
retry is part of "wait". `AssetPipeline` and `Consolidation` keep a
variable `ticket` and use these operators.

### AssetPipeline

Variables: `asset` (status, `deleted_at`, `workspace_id`), `aged` (`updated_at`
is ten minutes old), `job` and `jobs` (rows of `jobs`, ids in creation order),
`ticket`, `rows`, `pages`, `nodes` (the index of an asset, by workspace),
`files`, `loose` (index writes that outlived their attempt), `worker` (slots),
`client` (requests being handled), `calls` (`scheduleAssetProcessing` under way), `sweep`, `faults`.

Two abstractions: the parsing of a document is the pair `StartJob`, `Stage` with a
choice to fail or be slow; and an index part (chunk rows, GBrain page, graph node) is
there or not. Steps of `processAsset`: `Take`, `Claim` / `ClaimRefused`,
`StartJob`, `Stage`, `IndexPart`, `Indexed`, `MarkReady`, `MarkJobReady`,
`Audit`, `Return`; its catch block: `AttemptFails` / `LateError`, `FailAsset`, `FailJob`, `Rethrow`, `CatchFails`.
Requests: `UploadBegin` .. `InsertJob`, `RetryBegin`, `ReprocessBegin`, `MoveBegin` ..,
`TrashBegin` .., `RestoreBegin` .., `PurgeBegin` ... Recovery: `Dispatch`, `SweepAssets`,
`SweepJobs`, `SweepSelect`, `StallCheck`. Faults, at most `MaxFaults` of the kinds in `Faults`:
a worker or API process that dies, an enqueue that is lost, Redis losing its data, the eviction of a
finished ticket, an error after the asset was marked ready, a database that is
down in the catch block. "slow" is not a counted event but lets an attempt outlast the sweep's ten minutes: a
single model call may take 15 minutes (`config/env.ts:130`). An attempt may fail at any statement, always.

### Bulkhead and Semaphore

`Bulkhead` is the class: JavaScript runs each piece of code between two awaits
without interruption, so `acquire`, `release` and the abort listener are one action each.
`Semaphore` is the abstract specification, a set of holders of bounded size, and
`Bulkhead` implements it with `holders <- Holders`. The same class admits QA requests and channel messages.

### Outbound

Composes `Bulkhead` (an instance, sharing its three variables) with the breaker
and the retry loop of `resilientFetch`. The breaker's clock is three values of
`openedAt`: `"no"`, `"hot"` (in its cooldown), `"cooled"`. The pause after a transient answer is
in the `try` block ("pausing"), that after a network error in the `catch` block
("recovering"): a signal that fires in the first is reported to the breaker, in the second it is
not. `Aborts` says where signals fire. Refusal for lack of capacity changes nothing and is no action.

### Consolidation

One tenant (tenants share no row). Variables: `night`, `slot` (the configuration's
`next_run_at`), `run` (rows with status, key, owner and the state of the lease),
`ticket`, `sched` and `exec` (where the scheduler and the processor of each
process are), `paused`, `deserted` (runs that an executor has left "running" by an error
outside its `try` or in its `catch` block; history), `spent`. The lease is a
state, "live" or "over", not a clock: `LeaseRunsOut` is possible once nobody
renews it, because its owner has died, is suspended, or has left the run.
`Insert` is the transaction under the advisory lock, `Claim` the conditional update
with the lease, `ReadWorkspaces` the query that follows it before the `try` block (`QueryFails` is the failure of either), `Heartbeat` the renewal, `Finish` and `Catch` the updates "where lease_owner = ..".
The scan, the repair of citations and the rebuilding of relations are one step of work.
`LeaseFirst` decides whether the lease of a dead process runs out before
its BullMQ lock does; both orders happen (section 3).

### WechatChannel and Inbox

One binding. Variables: `binding` (its row: status, lease, cursor, credentials),
`arrived` (how many updates WeChat has), `message` (inbound rows: status, attempts,
lease, context token, the answer that is kept, trace), `trace` (by message and attempt),
`sent` (what has reached the user), `proc`, `poller`, `todo` (operations that wait for a
slot of the process's bulkhead), `task` (`processStoredInbound`, one per slot), and three histories
for properties: `overrun`, `moved`, `faults`.

`Sync` is the 15-second timer, claim, poller and recovery in one, because nothing in
it depends on what happens between (each message is claimed under its own condition again).
`PollCheck` .. `SaveCursor`, `PollFails`, `BackOff`, `Expire` are the loop of a poller;
`Claim` .. `LastEvent` an attempt statement by statement, with the branches for a lost
token (`NoToken`), a kept answer (redelivery) and an interrupted trace (`CloseTrace`);
`Throws`, `FailTrace`, `RetryOrFail`, `CatchThrows` its catch blocks. `Shutdown`, `Exit`,
`Boot` are the process; `QrCode`, `Confirmed`, `Redirected`, `Disconnect` the administrator.
Leases are states, as in Consolidation. An answer is named by the attempt that generates it, so that two
different answers to one message can be told apart. `Inbox` is the promise: a message is
taken in once and answered with one answer, unless attempts at it have overlapped.

### NotePublication

One note. Variables: `note` (row: status, version, text, published version, hash, asset,
`sync_status`), `revision`, `asset` (rows of its publications), `files`, `request` (API
requests), `tab` (the browser's copy: version and status), `strayed` (the last "synced"
was written over an unpublished text), `faults`. A text is a number.

`publishNote` is `Publish` (read, compare the hash, write the file), `Stage`, `Update` or
`Insert`, `Index`, `MarkReady`, `Revise`, `Mark`, `Tags`, `Clean`; its catch block is
`FailNote`, `FailAsset`, `DropFile`. The constraints of the schema that refuse a statement
(the unique index on live assets of one content, unique(note_id, version), the foreign
keys) are conditions of these actions that lead to the catch block. `Delete`, `Restore`, `Purge`, `Revert` begin the other
handlers. The tab edits under its version, reloads, and publishes what is "pending" after its
timer. A file name is a number; a name that nothing refers to any more is used again, which keeps the names finite.
Faults: a crash of the API process with all its requests, a refused statement, a failing call of
GBrain, a trashing of the note's asset in the library.

### Retrieval

What is found of a set of documents by one question over one scope. Variables: `asset`,
`moving`, `chunk` (the edition of a document's chunks), `indexer`, `cache` (the row of
`retrieval_scope_cache`), `flight` (per process), `asker` (questions, questions about
named files, evaluation runs), `stray` (retrievals that a failed request left behind before they joined a flight),
`open` (records that say "running"), `dropped` (requests whose record nobody closed: the process or the catch block
failed, or the first event was refused outside of it), `faults`.
The library's operations are those of AssetPipeline in one step each, without the
queue; indexing keeps its two steps `WriteChunks` (the transaction that clears the cache)
and `MarkReady`, because a query may come in between.
`Join`, `Lexical` / `Vector` / `NoVector`, `Save`, `FlightFails` are `Singleflight.run` and the
retrieval it shares; `Lookup`, `Exact`, `Fallback`, `Persist`, `Report`, `Fail` a request. `Ask` is `startTrace` with its
first event, for nobody reads the trace between the two; `AskFails` the event refused. A request fails by `LookupFails`,
`FixturesFail`, `ModelFails`, `Throws`, and by `FactsFail`, which rejects the `Promise.all` of `qa/service.ts:171-177` while the
retrieval goes on: its flight lands for others or for nobody, and one that had not joined yet does so by `Drift`.
The limits of the queries, of the candidates, of the reranker and of each asset and workspace are `Kept`: any part of
the hits may be cut, but not all of them, which supposes that a reranker that answers returns a result. The
threshold of similarity is the constant `Similar`, the words of the question `Worded`.
A fill of the cache carries history: whether a rebuild overtook it (`overtaken`), which documents were
half indexed when it read (`blind`), whether its vector query failed (`partial`), and which hits the limits `cut`.

## 3. Runs

Bounds are constants of the modules: `MaxJobs`, `MaxFaults`, `MaxAttempts`,
`MaxSlots`, `MaxAborts`, `MaxEvents`, `MaxEditions`, `MaxTexts`, `MaxVersion`,
`MaxRevisions`. Each run has the smallest sets in which its question is not
trivial: two of whatever competes.

| run | question | why the bounds are enough |
|---|---|---|
| asset_core | is a queued asset ever forgotten; do job rows lie; does processing end | two slots and two job rows are enough for a late attempt to meet its successor; one enqueue is lost, so that the sweep has to make it good; assets do not interact here, so one; a retry is a reprocessing of a failed asset, so the run has the latter alone |
| asset_index | is a ready asset indexed | two parts (the third is written like them), so that one fails while the other goes on; two slots, one fault of any kind of the workers, Redis and the database (those of the API write no index) |
| asset_library | does a row ever lose its file | two clients race on two assets of one content over two workspaces, one request dies half-way |
| asset_crash | is a crashed attempt repeated | finding 1 |
| asset_trash | does the deletion hold | finding 2 |
| bulkhead | slots, queue, order, semaphore, service | six callers are one more than slots and places together |
| outbound | breaker, slots, probes; do calls end and the breaker recover | three callers, two of them in flight, one waiting, two signals anywhere |
| consolidation_safe | one active run, one executor | three schedulers, two runs, scheduled or manual, two faults; workers and runs are interchangeable (symmetry) |
| consolidation_live | does a run end, and once | one run, one fault of any kind, suspended processes, lease over before the lock |
| channel | is a message lost, answered twice, forgotten; who polls, who attempts | two workers, so that pollers can overlap, one of them with two slots, so that a recovered attempt can overlap the slow one it replaces; one message (rows of different messages are touched by no common statement but the cursor's); three attempts, as in the code; one fault of any of eight kinds |
| retrieval | what do cached answers show; do requests end | two editions are a rebuild; of two documents one moves, goes and comes while the other, found by its meaning alone, competes with it for the row; a question and an evaluation share the flight of one process; one fault of four kinds, a refused statement in any place of a request among them |
| notes | revisions, files, "synced", the tab | the tab's requests and one of any other kind at a time; two assets, two texts and three revisions let a publication fail and be followed by two more; one fault of four kinds |

The asset, channel and notes configurations switch off the deadlock check: uploads,
messages and versions are bounded, so the system really stops when all is settled
and all requests are spent. All others check it.

What the model leaves out of a run: `asset_core` injects no crash, because after a
crash the asset may stay queued for good (finding 1); `ReadyIsIndexed` is claimed of assets that are neither moved nor
trashed (the run's `Ops`), because a move while indexing leaves a page in the old
workspace until the asset is indexed again; `RecoversIfReported` says
that the breaker recovers unless a probe is lost, which `ProbeLostInBackoff` pins to one
line (finding 3); `OneExecutor` is checked
without suspended processes, for one that wakes up after a takeover
works on until it reports, and `EndsOnce` says that the report is then ignored; `RunsEnd`
holds with `LeaseFirst`, and is violated without (finding 4). Some properties
name the states that they except: `deserted` in `RunsEnd` (finding 10), `Stranded` and a binding that is not active in `EveryEventEnds`, `moved` in
`OnePoller`, `overrun` in `OneAttempt`, `CompletedStays` and the `Inbox`, `overtaken`,
`blind`, `partial` and `cut` in the properties of the cache, `dropped` in `RequestsEnd`,
`Numbered`, `Orphaned`, `Shadowed`, `strayed` and a tab that was told something else for notes. Each
exception is what the code really does there (section 4 and the hazards), and in these runs TLC finds the property violated
without it. The hazards of `PROJECT.json` that a property excepts in this way say so: the property does not show that they
cannot happen, but that nothing else has their effect.

No property is about duplicates. Two uploads, or an upload and a move or a restore, pass the check of `assets/routes.ts:136`
together, and the unique index `idx_assets_dedupe` refuses the second; the index is the guard `LiveTwin` of
the three writers of the model, so that a property over it could not fail.

### Fairness

- Slots, handlers, executors, attempts, requests (`Work`, `Handle`, `Execute`, `Schedule`,
  `Attempt`, `Poll`, `Request`, `Fly`, `Step`): weak
  fairness of the whole process. Node runs what is runnable; every outbound
  call has a time limit, so awaited work settles.
- Timers: dispatch, sweep, heartbeat, poll, sync, cooldown, stalled checker, ageing and
  expiry of leases and of the cache row, and the note page's 45 seconds. Weak fairness:
  `setInterval` and BullMQ's checker go on as long as there is a process, the page's timer as long as the tab is open.
- `Resume`: a suspended process wakes up in the end. `Boot`: a dead worker is restarted (`restart: unless-stopped` in the compose files).
- A claim of a message that a process holds in its queue: the bulkhead serves its waiters (`WaiterServed`).
- Bulkhead: only `Release`, operations settle. Outbound: callers keep coming (`Start`); without callers nothing probes.
- Never fair: a request, a fault, a signal, the eviction of a retained ticket, the failing of an attempt, an administrator, an edit, a reload.

## 4. Findings

1. **asset_crash.** After a crash of the worker that parses an asset, BullMQ
   redelivers the ticket while the row still says "parsing"
   (`indexing`): the claim (`asset-processing.ts:132-139`) is refused and the
   ticket *completes*. Ten minutes later the sweep sets the asset back to
   "queued" and adds the same processing id again, which BullMQ ignores, for it
   retains the completed job (`asset-queue.ts:33`). `docs/11-reliability-runbook.md:41` relies on that redispatch.
2. **asset_trash.** An asset that is trashed while a worker indexes it gets its page
   back after the deletion, and `asset-processing.ts:150` even marks the trashed
   row "ready". `docs/04-api-and-data-contract.md:62` promises the deletion.
3. **outbound**, `ProbeLostInBackoff`. When the caller's signal or the time limit fires in the pause after a network error
   (`outbound.ts:67`), the rejection leaves the function without `success()` or `failure()`. If that
   call was the probe, `probeRunning` stays set and `beforeRequest` refuses every later call until
   the process restarts. `docs/11-reliability-runbook.md:39` says the breaker probes by itself.
4. **consolidation_live**, `RunsEnd`. BullMQ renews its lock of 15 minutes every half of
   it, the lease of 10 minutes is renewed every minute: after a crash either may run
   out first. If the lock does, the redelivered ticket is refused
   (`consolidation/service.ts:115`) and completes, its id is retained, and the run stays "running", which
   also blocks every later run of the tenant. `docs/11-reliability-runbook.md:43` relies on the redelivery.
5. **channel**, `EveryEventEnds`. A process that dies in the third attempt at a message leaves it
   "processing" with three attempts; both queries that would take it ask for fewer
   (`channels/service.ts:192,207`), so it is neither answered nor failed. The error text of
   `channels/service.ts:57` tells that such messages are delivered again.
6. **channel**, `OnePoller`. Disconnecting a channel or a redirected scan (`channels/routes.ts:113-120,155-159`) frees the
   lease under a poller that is in its long poll; another worker may poll too until the first one's
   next sync. `docs/11-reliability-runbook.md:5` says one worker at a time. Nothing is
   answered twice: inbound rows are unique by event.
7. **retrieval**, `LeftFades`. Deleting a document clears `retrieval_result_cache`
   (`asset-deletion.ts:40`), which `retrieveDocumentKnowledge` does not read; the table it
   reads keeps the document until its time runs out, and a question that cites it after a purge fails
   on a foreign key. `docs/07-hybrid-retrieval-delivery.md:52` promises the invalidation.
8. **notes**, `Republished`. `publishNote` is no transaction. After one failure three states
   let every later attempt fail or do nothing: `Numbered` (the revision exists, the note was not marked),
   `Orphaned` (a failed first publication's row keeps its successor out), `Shadowed` (marked, then failed: the
   text counts as unchanged). `NoteInspector.tsx:295` promises a new version after 45 seconds.
9. **notes**, `SyncedIsPublished`. A revert (`notes/service.ts:155-159`) and a publication (`publication.ts:108-113`) write
   by id what they decided earlier: an edit saved in between is overwritten, or called "synced" and never published.
   `docs/08-notes-gbrain-phase-1-5-plan.md:28` promises a lock by version.

10. **consolidation_live**, `RunsEnd`. The query of the workspaces (`consolidation/service.ts:122-127`) comes after the lease and
   before the `try` block (`:138`). When it fails the run stays "running" under a live lease; the retry, if another worker takes it,
   is refused and completes (`:115-119`), and the retained ticket keeps the run from being added again, as in finding 4. A
   `catch` block that cannot write ends so too. `RunsEnd` excepts both (`deserted`).

Without a document that says otherwise, and so no finding: `prepareQa` writes the first event of a trace (`qa/service.ts:63`) outside
the `catch` that closes it, so that a refused insert leaves the trace "running" for good (`dropped` in `RequestsEnd`); and the
upload that loses to the unique index leaves its file on storage, which no row names.

## 5. Proofs

Theorems hold for every value of the constants that satisfies the named
assumption of the module (`BullAssumption`, `PipelineAssumption`,
`BulkheadAssumption`, `OutboundAssumption`, `ConsolidationAssumption`, `ChannelAssumption`,
`NoteAssumption`, `RetrievalAssumption`). TLC evaluates these in every run.

**AssetPipeline** (`AssetPipelineProofs`): all five invariants that its passing runs check, `TypeCorrect`, `FilesStay`,
`RunningIsWorkedOn`, `QueuedIsNeverForgotten`, `ReadyStaysIndexed`, and two that the later
ones rest on, `AttemptsHoldTickets` and `IndexingIsWorkedOn`. Neither of the first two is inductive alone: a purge
removes a file by an id it read several statements ago. The inductive invariant is

    IInv == TypeOK /\ TicketsWired /\ WorkersWired /\ RowsPlaced
            /\ ClientsWired /\ RequestsFounded /\ UploadsApart

`RequestsFounded` carries the argument: an upload in progress is of an id without a row
whose file is on storage, a request past its check names an id that had a row (so no
later upload takes that id), and a purge is about to unlink only what is
purged. `UploadsApart` keeps two uploads off one id. The 40-odd actions are first
classified by what they change (`Framed`): one lemma per variable group then
shows the invariant's parts for a handful of step shapes instead of every pair of action
and conjunct. `FileBacked` is inductive on top of `IInv`.
`BullQueueProofs` has the type lemmas of the ticket operators, and what each of them leaves alone.

Four of the others say that what a row promises is somebody's work. What they promise ends with certain
faults, so they hold of states in which none of these has struck: `Spared(kinds)` is "no fault so far,
or these kinds are not among `Faults`". Each kind is necessary: TLC finds the conclusion violated by each one alone,
and by none of the other kinds.

| Theorem | Conclusion | Spared |
|---|---|---|
| `RunningIsWorkedOn` | `RunningHasWorker` | crash, dbDown |
| `AttemptsHoldTickets` | an attempt holds an active ticket under a renewed lock | crash, redisLoss |
| `IndexingIsWorkedOn` | a live asset that is "indexing" is held by an attempt | crash, dbDown |
| `QueuedIsNeverForgotten` | `QueuedIsServed` | crash, apiCrash, redisLoss, dbDown |

`WInv` adds to `IInv` that job ids not yet given out are unused and that an attempt
names the job and the asset of its ticket. `SInv` then joins the three columns of a pipeline, row, ticket and attempt. Neither
of its parts holds without the others: a queued asset is served by a ticket that waits, which an attempt takes
(so the ticket must not be held twice), which claims the asset (so an asset "indexing" must be in an attempt's hands),
which gives it back on a retry. `Served` strengthens `WillBeServed` for the induction: the job that the
sweep would enqueue must be the latest of all the asset's jobs, or a later row could take its place.
`ReadyStaysIndexed` has another hypothesis, `NothingMoves`, under which the run asset_index checks it
too: no request moves or trashes an asset (both take its index away, and an attempt that overlaps may mark it ready).
It holds then through every fault, by `PInv`: an attempt that is building has written the parts before its pc, and
loose writes of attempts that timed out go to the workspace the asset is in.

**Bulkhead** (`BulkheadProofs`): `NoSlotLost`, `QueueExact`, `BooksBalance`, `SlotsUsed`, `FirstComeFirstServed`,
`ImplementsSemaphore`. The inductive invariant is `TypeOK /\ SlotsCounted /\
QueueIsWaiters /\ NoIdleSlot`: counting slots needs the queue to be exact (the waiter
that is passed a slot must not hold one already), and the refinement needs the count.
Cardinalities are handled with the facts of FiniteSetTheorems.

**Outbound** (`OutboundProofs`): `TypeCorrect`, `BreakerStaysConsistent`, `FlightsStayBounded`,
`OnlyBackoffLosesProbes`, `ProbesReport`. Every step of Outbound is a step of its bulkhead or leaves it
alone, so the bulkhead's theorems hold of it by INSTANCE. `FlightsStayBounded` needs besides that a
call in flight holds a slot. `OnlyBackoffLosesProbes` shows that the pause of the catch
block is the only place where the breaker can lock itself as in finding 3:
a call marks a probe only when it begins to fetch, and every other end of a call
reports. `ProbesReport` follows for systems in which no signal fires there
(`"recovering" \notin Aborts`). `ScopeKeepsPromises` states of the scope what was proved of the bulkhead by itself: with
attempts, pauses, signals and breaker around it the books balance, no slot is idle beside a waiter, nobody
overtakes, and the scope implements the counting semaphore.

**Consolidation** (`ConsolidationProofs`): `TypeCorrect`, `OneRunAtATime`, `EndedStaysEnded`,
`LeaseExcludes`, `RunsStayInHand`. Lemma `RowSteps` sorts the actions by what they do to a run's row and its
executor: insert, renew or expire, claim, close, crash, or leave the row alone. `OneRunAtATime`
then needs only that a row is inserted while none is running. `EndedStaysEnded` needs `OwnedRunning`,
a part of the inductive invariant: an ended run has no owner, so the guard "where lease_owner = .." of
`Finish` and `Catch` keeps out every late report, also one of a process that was suspended meanwhile.
`LeaseExcludes` assumes `"pause" \notin Faults`: then whoever is at work owns the run under a live
lease, because a lease runs out only when nobody renews it, and a live lease cannot be claimed by
another process. With suspended processes `OneExecutor` is not claimed.
`RunsStayInHand` is the part of `RunsEnd` that is no matter of time: a running run is unknown to BullMQ (and the next tick adds
it), waits, is at work, or is about to lose a dead executor's lock; or it has stalled more often than maxStalledCount, or was left by
an executor that threw outside its `try` or in its `catch` block (`deserted`), which nothing repairs. The lease and the ticket are two clocks, and the invariant (`Linked`) is about their order: a ticket
that waits finds no live lease of another, unless the run was deserted. Its hypothesis `Calm` asks for a lease that is over before the
lock, and for no pause or loss of Redis; every other fault may strike. TLC loses a run with each of the three.

**WechatChannel** (`WechatChannelProofs`): all eight safety properties of the run, and the safety half of its liveness.
`TypeCorrect` rests on `IInv == TypeOK /\ Wired` (what a task or a poller holds is
of a message that exists, and of an attempt its row has counted). The actions are sorted once by what
they do to a row, a trace, a poller and the binding (`RowStep`, `TraceStep`, `PollerStep`, `BindingStep`), and
every other proof is about these few shapes. On top of `IInv`, each theorem has a strengthening of its own:

- `NothingLost`: `ReadStored`, what a poller has gone through has rows; so has then what the cursor passes.
- `OnePollerAtATime`: `PollerOwns`, who polls owns a live lease unless it was given away.
- `OneAttemptAtATime`: `AttemptsHeld`, an attempt that has not been overrun holds the message's row under
  a live lease and by its number, or has completed it.
- `VerdictStands`: `Numbered`, no two attempts have one number, also where they overlap, so a completed
  trace belongs to one attempt, and no other names it but for `CloseTrace`, which asks for "running".
- `CompletedStaysSo`: `RetryFailed`, an attempt that writes over its own "completed" has failed its trace before.
- `CompletedReached` and `ImplementsInbox`: `Answered`, an answer that is kept, or held by an attempt under way, is the only one
  that has been sent, while the message has not been overrun. The last theorem shows `Init` and every step of the channel to be
  an initial state and a step or stutter of `Inbox`.
- `NothingIsForgotten`: `RowsLeased`, a row is leased exactly while it is being processed. So a message that has not ended is
  claimable, under a live lease, at work, or stranded in its last attempt: no status falls between the two queries.
- `NoneIsStranded`: `InHand`. None is stranded while nothing of `Fatal` (crash, shutdown, db, slow) has struck.
  TLC strands a message with each of the four alone, and with none of poll, expire, lag and rebind.

**NotePublication** (`NotePublicationProofs`): `TypeCorrect`, `FilesInUseStay`, `HistoryStaysWhole`,
`SyncedMeansPublished`, `NumbersAreHeld`. A new file has a name nobody uses (`NewFileIsNew`, by
counting: rows and requests cannot name all of `Files`). `FilesInUseStay` needs

    FInv == OwnFiles /\ OwnNames /\ NewKept /\ PrevFound /\ PrevFree /\ NoPrev

no two requests write one file, no two rows name one, and the file "before" that
a publication will remove is, once the row names the new one, named by no row. Steps are sorted by `FileStep`.
`HistoryStaysWhole` needs `BaseKnown` and `MarkingNext`: who has inserted the next revision is
alone between the two statements, because unique(note_id, version) has refused everybody
else. `SyncedMeansPublished` follows step by step. `NumbersAreHeld` is about the exception `Numbered` of
`Republished`, the state in which every further publication fails on that index: it passes, because a number past
the published one belongs to a publication about to mark the note, unless a crash or a refused statement has struck. It assumes
`NothingPurges`. A purge between the two statements deletes the row that the second is to name; TLC then
leaves the number taken, as it does with each of crash and db, and with neither a failure of GBrain nor a trashed asset.

**Retrieval** (`RetrievalProofs`): `TypeCorrect`, `CachedHitsAreCurrent`, `ReadyDocumentsAreFound`,
`NobodyIsLeftBehind`, `WhatLeftStaysOut`. For the second and third the
invariant extends the property to the flights:

    HInv == HitsAreCurrent /\ CacheFinds /\ FlightsCurrent /\ NotRead /\ FlightsFind

A document whose chunks are written and whose row is not yet marked is a `Candidate`:
`CacheFinds` speaks of candidates, because marking the row makes a document findable without
clearing the cache. Steps are sorted by `LibraryQuiet` / `Rebuilds` and `FillStep`.
What the limits may cut is excepted by name (`cut`), and a row from which something was cut is not empty.
The last two are the safety halves of `RequestsEnd` and `LeftFades`. Whoever waits, waits for a flight in the air (`FlightsAwaited`), so
it is answered by its end or by its failure; a flight may be in the air with nobody to wait for it, after `FactsFail`. And a record
is open exactly while its request is worked on or was dropped (`RecordsMatch`). And a document that has left
the scope enters no flight and no cache row once it is in none, so that expiry has only to empty what is there.

**Only model-checked.** Liveness (`EveryAssetSettles`, `WaiterServed`, `EveryCallEnds`,
`RecoversIfReported`, `RunsEnd`, `EveryEventEnds`, `LeftFades`, `RequestsEnd`, `Republished`) is out of the prover's reach, as are ENABLED and
induction over data. Every invariant and every action property that a passing run checks is a theorem, four of them
under the hypotheses named above; of the liveness properties, the states they rest on are (`QueuedIsNeverForgotten` and `IndexingIsWorkedOn` for
`EveryAssetSettles`, `RunsStayInHand` for `RunsEnd`, `NothingIsForgotten` for `EveryEventEnds`, `NobodyIsLeftBehind` for
`RequestsEnd`, `WhatLeftStaysOut` for `LeftFades`, `NumbersAreHeld` for `Republished`, `NoIdleSlot` for `WaiterServed`,
`ProbesReport` for `RecoversIfReported`).

## 6. Plan

Next, proofs: the exceptions `Orphaned` and `Shadowed` of `Republished`, as what failed publications leave behind; `QueuedIsServed`
after the crashes that the sweep repairs; `ReadyIsIndexed` where assets move but attempts do not overlap.

Next, models: the note page's draft beside its version, with a second tab; the work of a consolidation split into scan,
repair of citations and rebuilding of relations, against a restore; a scope of several knowledge bases in Retrieval.

## 7. Not modelled

- **GBrain** (`src/backend/gbrain`): the vendored upstream source of GBrain 0.42 (`docs/03-architecture.md:6`), some
  280,000 of the repository's 290,000 lines. The application runs it as a service and calls it over
  HTTP; it appears here as the pages it stores and as a call that fails or takes long. The share of the whole repository's lines that the map
  can reach is small for that reason.
- **Model access** (`services/model*`, prompts, protocols) and **document parsing**: functions of one call, without state that is
  shared; their outcomes (an answer, a failure, slowness) are choices of the models that call them, and the way they
  are called is `Outbound`.
- **Accounts, workspaces, permissions**: single statements on rows nothing else works on concurrently.
- **Deployment**: configuration; what it says of restarts is used under fairness.
- Within modelled parts: renaming, tagging, thumbnails and media files of assets; ratings and
  conversations; the order of the hits (their limits and threshold are `Kept` and `Similar`), the cache of query embeddings, image search; documents that move *into* a scope (they
  are queued as if they were uploaded); the admission of questions (an instance of `Bulkhead`); the
  rows of single deliveries, scopes and identities of a WeChat channel, and deleting a channel; folders,
  facts, tags alone, the page's content at GBrain and a second tab for notes; `mapWithConcurrency`.

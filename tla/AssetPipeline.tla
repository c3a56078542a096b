--------------------------- MODULE AssetPipeline ---------------------------
(***************************************************************************)
(* The life of an uploaded asset: the rows of assets and jobs, the BullMQ  *)
(* tickets that drive the asset workers, the files on storage and the      *)
(* index the workers build (document chunks, graph node, GBrain page).     *)
(*                                                                         *)
(* Each database statement is a transaction of its own (db/pool.ts), so a  *)
(* handler or a worker is a sequence of steps that interleave with those   *)
(* of all others; a pc names the statement that comes next.                *)
(***************************************************************************)
EXTENDS BullQueue, FiniteSets

CONSTANTS
    Assets,      \* ids that uploads may create
    Workspaces,
    Content,     \* Content[a] is the sha256 of the file uploaded as a
    Workers,     \* processing slots of the asset worker
    Clients,     \* concurrently handled API requests
    MaxJobs,     \* bound: number of rows ever inserted into jobs
    MaxFaults,   \* bound: number of injected faults
    Parts,       \* the parts of the index that are modelled
    Ops,         \* the requests the clients issue
    Faults,      \* the kinds of fault that may strike
    Nowhere      \* no workspace

AllParts  == {"rows", "page", "node"}
AllOps    == {"upload", "retry", "reprocess", "move", "trash", "restore", "purge"}
AllFaults == {"crash", "apiCrash", "lostCall", "redisLoss", "eviction", "slow", "lateError",
              "dbDown"}

ASSUME PipelineAssumption ==
    /\ Nobody \notin Workers
    /\ Nowhere \notin Workspaces
    /\ MaxJobs \in Nat
    /\ MaxFaults \in Nat
    /\ Parts \subseteq AllParts
    /\ Ops \subseteq AllOps
    /\ Faults \subseteq AllFaults

VARIABLES
    asset,   \* rows of assets: status, deleted_at (trashed), workspace_id
    aged,    \* assets whose updated_at is older than ten minutes
    job,     \* rows of jobs, in creation order
    jobs,    \* number of jobs rows created so far
    ticket,  \* BullMQ's record of each processing id
    rows,    \* the workspace_id under which an asset's chunks are stored
    pages,   \* workspaces whose GBrain slug of the asset holds a page
    nodes,   \* workspaces whose graph has a node of the asset
    files,   \* assets whose original file is on storage
    loose,   \* index writes that outlive the attempt that started them
    worker,  \* the processing slots
    client,  \* the API requests being handled
    calls,   \* assets with a scheduleAssetProcessing call under way
    sweep,   \* the next statement of resumePendingAssetProcessing
    faults   \* faults injected so far

vars == <<asset, aged, job, jobs, ticket, rows, pages, nodes, files, loose,
          worker, client, calls, sweep, faults>>

library == <<asset, aged>>
queue   == <<job, jobs, ticket>>
index   == <<rows, pages, nodes, loose>>
timers  == <<calls, sweep>>

JobIds == 1 .. MaxJobs

AssetStatus  == {"none", "queued", "indexing", "ready", "failed", "deleted", "purged"}
JobStatus    == {"none", "queued", "running", "ready", "failed"}
WorkerPc     == {"idle", "claim", "start", "parse", "index", "markReady", "markJob",
                 "audit", "return", "caught", "failJob", "throw"}
ClientPc     == {"idle", "checkDup", "insert", "requeue", "setWorkspace", "unnode",
                 "unpage", "erase", "unlink", "untrash", "insertJob"}

NoAttempt == [pc |-> "idle", job |-> 0, asset |-> Nobody, attempt |-> 0,
              ws |-> Nowhere, todo |-> {}]
NoRequest == [pc |-> "idle", op |-> "none", asset |-> Nobody, ws |-> Nowhere,
              to |-> Nowhere]

RowType     == [status : AssetStatus, trashed : BOOLEAN, ws : Workspaces \cup {Nowhere}]
JobType     == [asset : Assets \cup {Nobody}, status : JobStatus]
WriteType   == [asset : Assets, ws : Workspaces, part : Parts]
AttemptType == [pc : WorkerPc, job : 0 .. MaxJobs, asset : Assets \cup {Nobody},
                attempt : 0 .. MaxAttempts, ws : Workspaces \cup {Nowhere},
                todo : SUBSET Parts]
RequestType == [pc : ClientPc, op : Ops \cup {"none"}, asset : Assets \cup {Nobody},
                ws : Workspaces \cup {Nowhere}, to : Workspaces \cup {Nowhere}]

LibraryTyped == asset \in [Assets -> RowType] /\ aged \in SUBSET Assets
                /\ files \in SUBSET Assets
QueueTyped   == job \in [JobIds -> JobType] /\ jobs \in 0 .. MaxJobs
TicketsTyped == ticket \in [JobIds -> TicketType(Workers)]
IndexTyped   == /\ rows \in [Assets -> Workspaces \cup {Nowhere}]
                /\ pages \in [Assets -> SUBSET Workspaces]
                /\ nodes \in [Assets -> SUBSET Workspaces]
                /\ loose \in SUBSET WriteType
WorkersTyped == worker \in [Workers -> AttemptType]
ClientsTyped == client \in [Clients -> RequestType]
TimersTyped  == calls \in SUBSET Assets /\ sweep \in {"idle", "jobs", "select"}
                /\ faults \in 0 .. MaxFaults

\* Every variable has its type: in particular no ticket is attempted more often
\* than BullMQ was told to, and indexing writes only under real workspaces.
TypeOK == /\ LibraryTyped /\ QueueTyped /\ TicketsTyped /\ IndexTyped
          /\ WorkersTyped /\ ClientsTyped /\ TimersTyped

Init ==
    /\ asset = [a \in Assets |-> [status |-> "none", trashed |-> FALSE, ws |-> Nowhere]]
    /\ aged = {}
    /\ job = [j \in JobIds |-> [asset |-> Nobody, status |-> "none"]]
    /\ jobs = 0
    /\ ticket = [j \in JobIds |-> NoTicket]
    /\ rows = [a \in Assets |-> Nowhere]
    /\ pages = [a \in Assets |-> {}]
    /\ nodes = [a \in Assets |-> {}]
    /\ files = {}
    /\ loose = {}
    /\ worker = [w \in Workers |-> NoAttempt]
    /\ client = [c \in Clients |-> NoRequest]
    /\ calls = {}
    /\ sweep = "idle"
    /\ faults = 0

-----------------------------------------------------------------------------
(* Shared vocabulary *)

HasRow(a)  == asset[a].status \notin {"none", "purged"}
Live(a)    == HasRow(a) /\ ~asset[a].trashed
Trashed(a) == HasRow(a) /\ asset[a].trashed

\* "where id = $n": changes the row when there still is one
SetStatus(a, s) ==
    asset' = IF HasRow(a) THEN [asset EXCEPT ![a].status = s] ELSE asset

\* the partial unique index idx_assets_dedupe over live rows
LiveTwin(a, ws) ==
    \E b \in Assets \ {a} : Live(b) /\ asset[b].ws = ws /\ Content[b] = Content[a]

QueuedJobs(a) == {j \in JobIds : job[j].asset = a /\ job[j].status = "queued"}

\* rows of jobs that belong to a, whatever their status
JobsOf(a) == {j \in JobIds : job[j].asset = a /\ job[j].status # "none"}

\* ids are given in creation order
IsLatest(j, S) == j \in S /\ \A k \in S : k =< j

Strike(kind) == /\ kind \in Faults
                /\ faults < MaxFaults
                /\ faults' = faults + 1

\* Index writes by part; a write for a purged row breaks the foreign key.
Writable(a, part) == part = "page" \/ HasRow(a)

WritePart(a, ws, part) ==
    /\ rows'  = IF part = "rows" THEN [rows EXCEPT ![a] = ws] ELSE rows
    /\ pages' = IF part = "page" THEN [pages EXCEPT ![a] = @ \cup {ws}] ELSE pages
    /\ nodes' = IF part = "node" THEN [nodes EXCEPT ![a] = @ \cup {ws}] ELSE nodes

-----------------------------------------------------------------------------
(* The asset worker: processAsset *)

Goto(w, pc) == worker' = [worker EXCEPT ![w].pc = pc]

\* BullMQ hands a waiting ticket to an idle slot.
Take(w, j) ==
    /\ worker[w].pc = "idle"
    /\ ticket[j].state = "wait"
    /\ ticket' = [ticket EXCEPT ![j] = Taken(@, w)]
    /\ worker' = [worker EXCEPT ![w] =
                    [pc |-> "claim", job |-> j, asset |-> job[j].asset,
                     attempt |-> ticket[j].made + 1, ws |-> Nowhere, todo |-> {}]]
    /\ UNCHANGED <<library, job, jobs, index, files, client, timers, faults>>

\* update ... set status = 'indexing' where deleted_at is null and status = 'queued'
Claim(w) ==
    LET a == worker[w].asset IN
    /\ worker[w].pc = "claim"
    /\ Live(a) /\ asset[a].status = "queued"
    /\ SetStatus(a, "indexing")
    /\ aged' = aged \ {a}
    /\ worker' = [worker EXCEPT ![w] = [@ EXCEPT !.pc = "start", !.ws = asset[a].ws]]
    /\ UNCHANGED <<queue, index, files, client, timers, faults>>

ClaimRefused(w) ==
    LET a == worker[w].asset IN
    /\ worker[w].pc = "claim"
    /\ ~(Live(a) /\ asset[a].status = "queued")
    /\ Goto(w, "return")
    /\ UNCHANGED <<library, queue, index, files, client, timers, faults>>

StartJob(w) ==
    LET j == worker[w].job IN
    /\ worker[w].pc = "start"
    /\ worker[w].asset \in files
    /\ job' = IF job[j].status \in {"queued", "running"}
              THEN [job EXCEPT ![j].status = "running"] ELSE job
    /\ Goto(w, "parse")
    /\ UNCHANGED <<library, jobs, ticket, index, files, client, timers, faults>>

\* The parsed content is stored and the row is read back: the index is built
\* for the workspace the asset is in now (or was in, when the row is gone).
Stage(w) ==
    LET a == worker[w].asset IN
    /\ worker[w].pc = "parse"
    /\ aged' = aged \ {a}
    /\ worker' = [worker EXCEPT ![w] =
                    [@ EXCEPT !.pc = "index", !.todo = Parts,
                              !.ws = IF HasRow(a) THEN asset[a].ws ELSE worker[w].ws]]
    /\ UNCHANGED <<asset, queue, index, files, client, timers, faults>>

\* One of the writes that indexKnowledgeAsset starts together.
IndexPart(w, part) ==
    LET a == worker[w].asset IN
    /\ worker[w].pc = "index"
    /\ part \in worker[w].todo
    /\ Writable(a, part)
    /\ WritePart(a, worker[w].ws, part)
    /\ worker' = [worker EXCEPT ![w].todo = @ \ {part}]
    /\ UNCHANGED <<library, queue, loose, files, client, timers, faults>>

\* Mutant of Indexed: the writes are started but not awaited.
IndexedUnawaited(w) ==
    /\ worker[w].pc = "index"
    /\ loose' = loose \cup {[asset |-> worker[w].asset, ws |-> worker[w].ws, part |-> p] :
                               p \in worker[w].todo}
    /\ worker' = [worker EXCEPT ![w] = [@ EXCEPT !.pc = "markReady", !.todo = {}]]
    /\ UNCHANGED <<library, queue, rows, pages, nodes, files, client, timers, faults>>

\* Relations and links are rebuilt once every part is written.
Indexed(w) ==
    /\ worker[w].pc = "index"
    /\ worker[w].todo = {}
    /\ Goto(w, "markReady")
    /\ UNCHANGED <<library, queue, index, files, client, timers, faults>>

MarkReady(w) ==
    LET a == worker[w].asset IN
    /\ worker[w].pc = "markReady"
    /\ SetStatus(a, "ready")
    /\ aged' = aged \ {a}
    /\ Goto(w, "markJob")
    /\ UNCHANGED <<queue, index, files, client, timers, faults>>

MarkJobReady(w) ==
    LET j == worker[w].job IN
    /\ worker[w].pc = "markJob"
    /\ job' = IF job[j].status = "running" THEN [job EXCEPT ![j].status = "ready"] ELSE job
    /\ Goto(w, "audit")
    /\ UNCHANGED <<library, jobs, ticket, index, files, client, timers, faults>>

Audit(w) ==
    /\ worker[w].pc = "audit"
    /\ Goto(w, "return")
    /\ UNCHANGED <<library, queue, index, files, client, timers, faults>>

Return(w) ==
    /\ worker[w].pc = "return"
    /\ ticket' = [ticket EXCEPT ![worker[w].job] = Completed(@, w)]
    /\ worker' = [worker EXCEPT ![w] = NoAttempt]
    /\ UNCHANGED <<library, job, jobs, index, files, client, timers, faults>>

\* Any step of the attempt may throw.  The index writes that were started and
\* have not landed are not cancelled by the rejection of Promise.all.
AttemptFails(w) ==
    LET a == worker[w].asset IN
    /\ worker[w].pc \in {"start", "parse", "index", "markReady"}
    /\ loose' = loose \cup {[asset |-> a, ws |-> worker[w].ws, part |-> p] : p \in worker[w].todo}
    /\ worker' = [worker EXCEPT ![w] = [@ EXCEPT !.pc = "caught", !.todo = {}]]
    /\ UNCHANGED <<library, queue, rows, pages, nodes, files, client, timers, faults>>

\* The same catch block when the asset was marked ready already.
LateError(w) ==
    /\ worker[w].pc \in {"markJob", "audit"}
    /\ Strike("lateError")
    /\ Goto(w, "caught")
    /\ UNCHANGED <<library, queue, index, files, client, timers>>

\* Mutant of FailureStatus: off by one in the comparison with maxAttempts.
FailureStatusOffByOne(w) == IF worker[w].attempt =< MaxAttempts THEN "queued" ELSE "failed"

\* assetFailureState: back to the queue while BullMQ has attempts left
FailureStatus(w) == IF worker[w].attempt < MaxAttempts THEN "queued" ELSE "failed"

FailAsset(w) ==
    LET a == worker[w].asset IN
    /\ worker[w].pc = "caught"
    /\ SetStatus(a, FailureStatus(w))
    /\ aged' = aged \ {a}
    /\ Goto(w, "failJob")
    /\ UNCHANGED <<queue, index, files, client, timers, faults>>

\* Mutant of FailJob: the running row is left out of the update.
FailJobQueued(w) ==
    LET j == worker[w].job IN
    /\ worker[w].pc = "failJob"
    /\ job' = IF job[j].status = "queued"
              THEN [job EXCEPT ![j].status = FailureStatus(w)] ELSE job
    /\ Goto(w, "throw")
    /\ UNCHANGED <<library, jobs, ticket, index, files, client, timers, faults>>

FailJob(w) ==
    LET j == worker[w].job IN
    /\ worker[w].pc = "failJob"
    /\ job' = IF job[j].status \in {"queued", "running"}
              THEN [job EXCEPT ![j].status = FailureStatus(w)] ELSE job
    /\ Goto(w, "throw")
    /\ UNCHANGED <<library, jobs, ticket, index, files, client, timers, faults>>

\* The catch block throws in its turn: the database is still unavailable.
CatchFails(w) ==
    /\ worker[w].pc \in {"caught", "failJob"}
    /\ Strike("dbDown")
    /\ Goto(w, "throw")
    /\ UNCHANGED <<library, queue, index, files, client, timers>>

\* Mutant of Rethrow: the catch block swallows the error, BullMQ sees success.
RethrowSwallowed(w) ==
    /\ worker[w].pc = "throw"
    /\ ticket' = [ticket EXCEPT ![worker[w].job] = Completed(@, w)]
    /\ worker' = [worker EXCEPT ![w] = NoAttempt]
    /\ UNCHANGED <<library, job, jobs, index, files, client, timers, faults>>

Rethrow(w) ==
    /\ worker[w].pc = "throw"
    /\ ticket' = [ticket EXCEPT ![worker[w].job] = Thrown(@, w)]
    /\ worker' = [worker EXCEPT ![w] = NoAttempt]
    /\ UNCHANGED <<library, job, jobs, index, files, client, timers, faults>>

\* A write left behind by a failed attempt lands, or fails unnoticed.
LooseWriteLands(o) ==
    /\ o \in loose
    /\ Writable(o.asset, o.part)
    /\ WritePart(o.asset, o.ws, o.part)
    /\ loose' = loose \ {o}
    /\ UNCHANGED <<library, queue, files, worker, client, timers, faults>>

LooseWriteFails(o) ==
    /\ o \in loose
    /\ loose' = loose \ {o}
    /\ UNCHANGED <<library, queue, rows, pages, nodes, files, worker, client, timers, faults>>

Work(w) ==
    \/ \E j \in JobIds : Take(w, j)
    \/ Claim(w) \/ ClaimRefused(w) \/ StartJob(w) \/ Stage(w)
    \/ \E part \in Parts : IndexPart(w, part)
    \/ Indexed(w) \/ MarkReady(w) \/ MarkJobReady(w) \/ Audit(w) \/ Return(w)
    \/ FailAsset(w) \/ FailJob(w) \/ Rethrow(w)

-----------------------------------------------------------------------------
(* Dispatch and recovery *)

\* scheduleAssetProcessing: the latest queued job is put on the queue
Dispatch(a) ==
    /\ a \in calls
    /\ calls' = calls \ {a}
    /\ \/ QueuedJobs(a) = {} /\ UNCHANGED ticket
       \/ \E j \in JobIds : /\ IsLatest(j, QueuedJobs(a))
                            /\ ticket' = [ticket EXCEPT ![j] = Added(@)]
    /\ UNCHANGED <<library, job, jobs, index, files, worker, client, sweep, faults>>

\* resumePendingAssetProcessing, one action per statement
SweepAssets ==
    /\ sweep = "idle"
    /\ sweep' = "jobs"
    /\ LET stuck == {a \in aged : asset[a].status = "indexing" /\ JobsOf(a) # {}} IN
       /\ asset' = [a \in Assets |-> IF a \in stuck
                                     THEN [asset[a] EXCEPT !.status = "queued"]
                                     ELSE asset[a]]
       /\ aged' = aged \ stuck
    /\ UNCHANGED <<queue, index, files, worker, client, calls, faults>>

SweepJobs ==
    /\ sweep = "jobs"
    /\ sweep' = "select"
    /\ job' = [j \in JobIds |->
                 IF /\ job[j].status = "running"
                    /\ asset[job[j].asset].status = "queued"
                    /\ IsLatest(j, JobsOf(job[j].asset))
                 THEN [job[j] EXCEPT !.status = "queued"] ELSE job[j]]
    /\ UNCHANGED <<library, jobs, ticket, index, files, worker, client, calls, faults>>

SweepSelect ==
    /\ sweep = "select"
    /\ sweep' = "idle"
    /\ calls' = calls \cup {a \in Assets : /\ Live(a) /\ asset[a].status = "queued"
                                           /\ QueuedJobs(a) # {}}
    /\ UNCHANGED <<library, queue, index, files, worker, client, faults>>

\* BullMQ's stalled checker
StallCheck(j) ==
    /\ LockRunsOut(ticket[j])
    /\ ticket' = [ticket EXCEPT ![j] = Stalled(@)]
    /\ UNCHANGED <<library, job, jobs, index, files, worker, client, timers, faults>>

\* Ten minutes pass without an update of the row.  Parsing with a live worker
\* takes that long only when its model calls do (kind "slow").
Age(a) ==
    /\ asset[a].status = "indexing"
    /\ a \notin aged
    /\ \/ "slow" \in Faults
       \/ \A w \in Workers : worker[w].asset = a =>
                               worker[w].pc \in {"claim", "return", "throw"}
    /\ aged' = aged \cup {a}
    /\ UNCHANGED <<asset, queue, index, files, worker, client, timers, faults>>

-----------------------------------------------------------------------------
(* The API requests, one action per statement of the handler.  A handler     *)
(* decides on the row it read first; its later statements name the row by id *)
(* and do not look again.                                                    *)

NextStep(c, pc) == client' = [client EXCEPT ![c].pc = pc]
Reply(c)        == client' = [client EXCEPT ![c] = NoRequest]

\* Bound: a request that will insert a job starts only when there is room.
Room == jobs + Cardinality({c \in Clients : client[c].pc # "idle"}) < MaxJobs

Begin(c, op, a, to, pc) ==
    /\ client[c].pc = "idle"
    /\ op \in Ops
    /\ op \in {"trash", "purge"} \/ Room
    /\ client' = [client EXCEPT ![c] = [pc |-> pc, op |-> op, asset |-> a,
                                        ws |-> asset[a].ws, to |-> to]]

\* The multipart body is on storage before anything is known of it.
UploadBegin(c, a, ws) ==
    /\ asset[a].status = "none" /\ a \notin files
    /\ Begin(c, "upload", a, ws, "checkDup")
    /\ files' = files \cup {a}
    /\ UNCHANGED <<library, queue, index, worker, timers, faults>>

UploadDuplicate(c) ==
    LET r == client[c] IN
    /\ r.op = "upload" /\ r.pc = "checkDup"
    /\ LiveTwin(r.asset, r.to)
    /\ files' = files \ {r.asset}
    /\ Reply(c)
    /\ UNCHANGED <<library, queue, index, worker, timers, faults>>

UploadFresh(c) ==
    LET r == client[c] IN
    /\ r.op = "upload" /\ r.pc = "checkDup"
    /\ ~LiveTwin(r.asset, r.to)
    /\ NextStep(c, "insert")
    /\ UNCHANGED <<library, queue, index, files, worker, timers, faults>>

\* insert into assets: the unique index rejects the second of two uploads
UploadInsert(c) ==
    LET r == client[c] IN
    /\ r.pc = "insert"
    /\ IF LiveTwin(r.asset, r.to)
       THEN Reply(c) /\ UNCHANGED asset
       ELSE /\ asset' = [asset EXCEPT ![r.asset] =
                           [status |-> "queued", trashed |-> FALSE, ws |-> r.to]]
            /\ NextStep(c, "insertJob")
    /\ UNCHANGED <<aged, queue, index, files, worker, timers, faults>>

RetryBegin(c, a) ==
    /\ Live(a) /\ asset[a].status = "failed"
    /\ Begin(c, "retry", a, Nowhere, "requeue")
    /\ UNCHANGED <<library, queue, index, files, worker, timers, faults>>

ReprocessBegin(c, a) ==
    /\ Live(a) /\ asset[a].status \notin {"queued", "indexing"}
    /\ Begin(c, "reprocess", a, Nowhere, "requeue")
    /\ UNCHANGED <<library, queue, index, files, worker, timers, faults>>

\* retryAssetProcessing and the last update of a move
Requeue(c) ==
    LET r == client[c] IN
    /\ r.pc = "requeue"
    /\ SetStatus(r.asset, "queued")
    /\ aged' = IF r.op = "move" THEN aged ELSE aged \ {r.asset}
    /\ NextStep(c, "insertJob")
    /\ UNCHANGED <<queue, index, files, worker, timers, faults>>

\* The new row of jobs, with the call of scheduleAssetProcessing; the foreign
\* key rejects it when the asset is gone.
InsertJob(c) ==
    LET a == client[c].asset IN
    /\ client[c].pc = "insertJob"
    /\ Reply(c)
    /\ IF HasRow(a)
       THEN /\ jobs < MaxJobs
            /\ jobs' = jobs + 1
            /\ job' = [job EXCEPT ![jobs + 1] = [asset |-> a, status |-> "queued"]]
            /\ calls' = calls \cup {a}
       ELSE UNCHANGED <<job, jobs, calls>>
    /\ UNCHANGED <<library, ticket, index, files, worker, sweep, faults>>

MoveBegin(c, a, to) ==
    /\ Live(a) /\ to # asset[a].ws
    /\ Begin(c, "move", a, to, "setWorkspace")
    /\ UNCHANGED <<library, queue, index, files, worker, timers, faults>>

MoveWorkspace(c) ==
    LET r == client[c] IN
    /\ r.pc = "setWorkspace"
    /\ IF Live(r.asset) /\ LiveTwin(r.asset, r.to)
       THEN Reply(c) /\ UNCHANGED <<library>>
       ELSE /\ asset' = IF HasRow(r.asset) THEN [asset EXCEPT ![r.asset].ws = r.to] ELSE asset
            /\ aged' = aged \ {r.asset}
            /\ NextStep(c, "unpage")
    /\ UNCHANGED <<queue, index, files, worker, timers, faults>>

MoveUnnode(c) ==
    LET r == client[c] IN
    /\ r.pc = "unnode"
    /\ nodes' = [nodes EXCEPT ![r.asset] = {}]
    /\ NextStep(c, "requeue")
    /\ UNCHANGED <<library, queue, rows, pages, loose, files, worker, timers, faults>>

TrashBegin(c, a) ==
    /\ Live(a)
    /\ Begin(c, "trash", a, Nowhere, "unpage")
    /\ UNCHANGED <<library, queue, index, files, worker, timers, faults>>

\* deleteGBrainPage under the slug the handler read
Unpage(c) ==
    LET r == client[c] IN
    /\ r.pc = "unpage"
    /\ pages' = [pages EXCEPT ![r.asset] = @ \ {r.ws}]
    /\ NextStep(c, IF r.op = "move" THEN "unnode" ELSE "erase")
    /\ UNCHANGED <<library, queue, rows, nodes, loose, files, worker, timers, faults>>

\* GBrain does not answer: a trash request fails with nothing changed, a move
\* and a purge carry on.
UnpageFails(c) ==
    LET r == client[c] IN
    /\ r.pc = "unpage"
    /\ IF r.op = "trash" THEN Reply(c)
       ELSE NextStep(c, IF r.op = "move" THEN "unnode" ELSE "erase")
    /\ UNCHANGED <<library, queue, index, files, worker, timers, faults>>

DropIndexRows(a) ==
    /\ rows' = [rows EXCEPT ![a] = Nowhere]
    /\ nodes' = [nodes EXCEPT ![a] = {}]

DropJobs(a) == job' = [j \in JobIds |-> IF job[j].asset = a
                                        THEN [job[j] EXCEPT !.status = "none"] ELSE job[j]]

\* the transaction of deleteKnowledgeAsset
TrashCommit(c) ==
    LET a == client[c].asset IN
    /\ client[c].op = "trash" /\ client[c].pc = "erase"
    /\ DropIndexRows(a)
    /\ DropJobs(a)
    /\ asset' = IF HasRow(a) THEN [asset EXCEPT ![a].status = "deleted", ![a].trashed = TRUE]
                ELSE asset
    /\ aged' = aged \ {a}
    /\ Reply(c)
    /\ UNCHANGED <<jobs, ticket, pages, loose, files, worker, timers, faults>>

\* it rolls back, and the page is put again under the old slug
TrashRollback(c) ==
    LET r == client[c] IN
    /\ r.op = "trash" /\ r.pc = "erase"
    /\ \/ "page" \in Parts /\ pages' = [pages EXCEPT ![r.asset] = @ \cup {r.ws}]
       \/ UNCHANGED pages
    /\ Reply(c)
    /\ UNCHANGED <<library, queue, rows, nodes, loose, files, worker, timers, faults>>

RestoreBegin(c, a) ==
    /\ Trashed(a) /\ a \in files
    /\ Begin(c, "restore", a, Nowhere, "checkDup")
    /\ UNCHANGED <<library, queue, index, files, worker, timers, faults>>

RestoreCheck(c) ==
    LET r == client[c] IN
    /\ r.op = "restore" /\ r.pc = "checkDup"
    /\ IF LiveTwin(r.asset, r.ws) THEN Reply(c) ELSE NextStep(c, "untrash")
    /\ UNCHANGED <<library, queue, index, files, worker, timers, faults>>

Restore(c) ==
    LET a == client[c].asset IN
    /\ client[c].pc = "untrash"
    /\ IF HasRow(a) /\ LiveTwin(a, asset[a].ws)
       THEN Reply(c) /\ UNCHANGED <<library>>
       ELSE /\ asset' = IF HasRow(a)
                        THEN [asset EXCEPT ![a].status = "queued", ![a].trashed = FALSE]
                        ELSE asset
            /\ aged' = aged \ {a}
            /\ NextStep(c, "insertJob")
    /\ UNCHANGED <<queue, index, files, worker, timers, faults>>

\* Mutant of PurgeBegin: the files are removed before the row is deleted.
PurgeBeginFiles(c, a) ==
    /\ Trashed(a)
    /\ Begin(c, "purge", a, Nowhere, "unpage")
    /\ files' = files \ {a}
    /\ UNCHANGED <<library, queue, index, worker, timers, faults>>

PurgeBegin(c, a) ==
    /\ Trashed(a)
    /\ Begin(c, "purge", a, Nowhere, "unpage")
    /\ UNCHANGED <<library, queue, index, files, worker, timers, faults>>

\* delete from assets where id = $1, with the rows that cascade
PurgeCommit(c) ==
    LET a == client[c].asset IN
    /\ client[c].op = "purge" /\ client[c].pc = "erase"
    /\ asset' = [asset EXCEPT ![a].status = "purged"]
    /\ DropIndexRows(a)
    /\ DropJobs(a)
    /\ NextStep(c, "unlink")
    /\ UNCHANGED <<aged, jobs, ticket, pages, loose, files, worker, timers, faults>>

PurgeFiles(c) ==
    LET a == client[c].asset IN
    /\ client[c].pc = "unlink"
    /\ files' = files \ {a}
    /\ Reply(c)
    /\ UNCHANGED <<library, queue, index, worker, timers, faults>>

Request(c) ==
    \E a \in Assets :
        \/ RetryBegin(c, a) \/ ReprocessBegin(c, a) \/ TrashBegin(c, a)
        \/ RestoreBegin(c, a) \/ PurgeBegin(c, a)
        \/ \E ws \in Workspaces : UploadBegin(c, a, ws) \/ MoveBegin(c, a, ws)

Handle(c) ==
    \/ UploadDuplicate(c) \/ UploadFresh(c) \/ UploadInsert(c)
    \/ Requeue(c) \/ InsertJob(c)
    \/ MoveWorkspace(c) \/ Unpage(c) \/ UnpageFails(c) \/ MoveUnnode(c)
    \/ TrashCommit(c) \/ TrashRollback(c) \/ RestoreCheck(c) \/ Restore(c)
    \/ PurgeCommit(c) \/ PurgeFiles(c)

-----------------------------------------------------------------------------
(* Faults *)

\* The process of slot w dies; a new one takes its place.
Crash(w) ==
    /\ worker[w].pc # "idle"
    /\ Strike("crash")
    /\ ticket' = [ticket EXCEPT ![worker[w].job] = Abandoned(@, w)]
    /\ worker' = [worker EXCEPT ![w] = NoAttempt]
    /\ UNCHANGED <<library, job, jobs, index, files, client, timers>>

\* The API process dies while it handles a request.
ApiCrash(c) ==
    /\ client[c].pc # "idle"
    /\ Strike("apiCrash")
    /\ Reply(c)
    /\ UNCHANGED <<library, queue, index, files, worker, timers>>

\* A schedule call is lost with its process, or Redis cannot be reached.
DispatchLost(a) ==
    /\ a \in calls
    /\ Strike("lostCall")
    /\ calls' = calls \ {a}
    /\ UNCHANGED <<library, queue, index, files, worker, client, sweep>>

RedisLoss ==
    /\ Strike("redisLoss")
    /\ ticket' = [j \in JobIds |-> NoTicket]
    /\ UNCHANGED <<library, job, jobs, index, files, worker, client, timers>>

\* removeOnComplete, removeOnFail: a finished ticket outlives its retention
Evict(j) ==
    /\ ticket[j].state \in {"completed", "failed"}
    /\ Strike("eviction")
    /\ ticket' = [ticket EXCEPT ![j] = NoTicket]
    /\ UNCHANGED <<library, job, jobs, index, files, worker, client, timers>>

-----------------------------------------------------------------------------
Background ==
    \/ \E a \in Assets : Dispatch(a) \/ Age(a)
    \/ SweepAssets \/ SweepJobs \/ SweepSelect
    \/ \E j \in JobIds : StallCheck(j)
    \/ \E o \in loose : LooseWriteLands(o) \/ LooseWriteFails(o)

Fault ==
    \/ \E w \in Workers : AttemptFails(w) \/ LateError(w) \/ CatchFails(w) \/ Crash(w)
    \/ \E c \in Clients : ApiCrash(c)
    \/ \E a \in Assets : DispatchLost(a)
    \/ RedisLoss
    \/ \E j \in JobIds : Evict(j)

Next ==
    \/ \E w \in Workers : Work(w)
    \/ \E c \in Clients : Request(c) \/ Handle(c)
    \/ Background
    \/ Fault

Spec == Init /\ [][Next]_vars

(* Fairness: a slot that can proceed does, a handler that runs finishes, the *)
(* scheduled calls, the 30 second sweep and BullMQ's stalled checker are     *)
(* timers, and time passes.  Nothing forces a request, a fault, or the       *)
(* eviction of a finished ticket.                                            *)
Fairness ==
    /\ \A w \in Workers : WF_vars(Work(w))
    /\ \A c \in Clients : WF_vars(Handle(c))
    /\ \A a \in Assets : WF_vars(Dispatch(a)) /\ WF_vars(Age(a))
    /\ WF_vars(SweepAssets) /\ WF_vars(SweepJobs) /\ WF_vars(SweepSelect)
    /\ \A j \in JobIds : WF_vars(StallCheck(j))

LiveSpec == Spec /\ Fairness

-----------------------------------------------------------------------------
(* Properties *)

\* What the steps of a worker, a handler and BullMQ hand on to one another.
TicketsWired ==
    \A j \in JobIds :
        /\ ticket[j].state # "absent" => job[j].asset \in Assets
        /\ ticket[j].state \in {"wait", "active"} => ticket[j].made < MaxAttempts

WorkersWired ==
    \A w \in Workers :
        /\ worker[w].pc # "idle" => worker[w].asset \in Assets
        /\ worker[w].pc \in {"start", "parse", "index"} => worker[w].ws \in Workspaces
        /\ worker[w].todo # {} => worker[w].pc = "index"

RowsPlaced == \A a \in Assets : HasRow(a) => asset[a].ws \in Workspaces

Uploading(c) == client[c].op = "upload" /\ client[c].pc \in {"checkDup", "insert"}

ClientsWired ==
    \A c \in Clients :
        /\ client[c].pc # "idle" => client[c].asset \in Assets
        /\ client[c].pc = "insert" => client[c].op = "upload"
        /\ client[c].pc = "setWorkspace" \/ Uploading(c) => client[c].to \in Workspaces
        /\ client[c].pc \in {"setWorkspace", "unpage", "erase"} => client[c].ws \in Workspaces

\* A request acts on a row that exists or has existed, an upload on one that
\* does not exist yet and whose file nobody else is about to remove.
RequestsFounded ==
    \A c \in Clients :
        /\ Uploading(c) => /\ asset[client[c].asset].status = "none"
                           /\ client[c].asset \in files
        /\ client[c].pc \in {"setWorkspace", "unpage", "erase"}
           => asset[client[c].asset].status # "none"
        /\ client[c].pc = "unlink" => asset[client[c].asset].status = "purged"

UploadsApart ==
    \A c, d \in Clients : Uploading(c) /\ Uploading(d) /\ c # d
                          => client[c].asset # client[d].asset

\* Every row of assets has its original file: an upload stores the file before
\* it inserts the row, a purge removes the file after it deleted the row, and
\* the trash keeps it for a restore, whatever crashes in between.
FileBacked == \A a \in Assets : HasRow(a) => a \in files

\* An asset that is live and ready can be retrieved: its chunks, its graph node
\* and its page all exist under the workspace it is in.
ReadyIsIndexed ==
    \A a \in Assets : Live(a) /\ asset[a].status = "ready" =>
        /\ "rows" \in Parts => rows[a] = asset[a].ws
        /\ "page" \in Parts => asset[a].ws \in pages[a]
        /\ "node" \in Parts => asset[a].ws \in nodes[a]

Settling == {"claim", "start", "parse", "index", "markReady", "caught"}
Failing  == {"failJob", "throw"}

\* Someone will still look at a queued asset: a ticket that waits, an attempt
\* that has not settled the asset or will be retried, a queued job the sweep
\* can put back on the queue, or a request about to insert one.
WillBeServed(a) ==
    \/ \E j \in JobIds : job[j].asset = a /\ ticket[j].state = "wait"
    \/ \E w \in Workers : /\ worker[w].asset = a
                          /\ \/ worker[w].pc \in Settling
                             \/ worker[w].pc \in Failing /\ worker[w].attempt < MaxAttempts
    \/ \E j \in JobIds : IsLatest(j, QueuedJobs(a)) /\ ticket[j].state = "absent"
    \/ \E c \in Clients : client[c].asset = a /\ client[c].pc = "insertJob"

\* No queued asset is forgotten: retries, reprocessing, moves, trash and restore
\* in any order leave no live asset "queued" with nothing left that serves it.
QueuedIsServed ==
    \A a \in Assets : Live(a) /\ asset[a].status = "queued" => WillBeServed(a)

\* A job row says "running" only while a slot works on that processing id.
RunningHasWorker ==
    \A j \in JobIds : job[j].status = "running" =>
        \E w \in Workers : /\ worker[w].job = j
                           /\ worker[w].pc \notin {"idle", "claim", "start"}

\* Processing comes to an end: an asset that is queued or indexing becomes
\* ready or failed, or is put in the trash.
Pending(a) == Live(a) /\ asset[a].status \in {"queued", "indexing"}
EveryAssetSettles == \A a \in Assets : Pending(a) ~> ~Pending(a)

\* "automatically recovered" (asset-processing.ts): an asset that is back in the
\* queue after the process that parsed it died is parsed again.
RecoveredIsProcessed ==
    \A a \in Assets : (Live(a) /\ asset[a].status = "queued") ~> asset[a].status # "queued"

Quiet(a) ==
    /\ \A w \in Workers : worker[w].asset # a
    /\ \A c \in Clients : client[c].asset # a
    /\ \A o \in loose : o.asset # a

\* "soft delete, and arrange the deletion in GBrain" (04-api-and-data-contract):
\* once nothing works on a trashed asset any more, GBrain holds no page of it.
TrashLeavesNoPage ==
    \A a \in Assets : Trashed(a) /\ Quiet(a) => pages[a] = {}
=============================================================================

------------------------ MODULE AssetPipelineProofs ------------------------
(***************************************************************************)
(* What holds of AssetPipeline for all sets of assets, workspaces, slots   *)
(* and clients and for all bounds.                                         *)
(***************************************************************************)
EXTENDS AssetPipeline, BullQueueProofs

(* The invariant that is inductive: the properties proved at the end need to *)
(* know what the steps of a worker and of a handler hand to one another.     *)
IInv == /\ TypeOK /\ TicketsWired /\ WorkersWired /\ RowsPlaced /\ ClientsWired
        /\ RequestsFounded /\ UploadsApart

USE DEF JobIds, library, queue, index, timers

-----------------------------------------------------------------------------
(* Frames: which steps change a variable at all.                             *)

AssetStep ==
    \/ \E w \in Workers : Claim(w) \/ MarkReady(w) \/ FailAsset(w)
    \/ SweepAssets
    \/ \E c \in Clients : \/ UploadInsert(c) \/ Requeue(c) \/ MoveWorkspace(c)
                          \/ TrashCommit(c) \/ Restore(c) \/ PurgeCommit(c)

FilesStep ==
    \E c \in Clients : \/ \E a \in Assets, ws \in Workspaces : UploadBegin(c, a, ws)
                       \/ UploadDuplicate(c) \/ PurgeFiles(c)

QueueStep ==
    \/ \E w \in Workers : StartJob(w) \/ MarkJobReady(w) \/ FailJob(w)
    \/ SweepJobs
    \/ \E c \in Clients : InsertJob(c) \/ TrashCommit(c) \/ PurgeCommit(c)

TicketStep ==
    \/ \E w \in Workers : \/ \E j \in JobIds : Take(w, j)
                          \/ Return(w) \/ Rethrow(w) \/ Crash(w)
    \/ \E a \in Assets : Dispatch(a)
    \/ \E j \in JobIds : StallCheck(j) \/ Evict(j)
    \/ RedisLoss

IndexStep ==
    \/ \E w \in Workers : AttemptFails(w) \/ \E part \in Parts : IndexPart(w, part)
    \/ \E o \in loose : LooseWriteLands(o) \/ LooseWriteFails(o)
    \/ \E c \in Clients : \/ MoveUnnode(c) \/ Unpage(c) \/ TrashCommit(c)
                          \/ TrashRollback(c) \/ PurgeCommit(c)

SlotStep ==
    \E w \in Workers : Work(w) \/ AttemptFails(w) \/ LateError(w) \/ CatchFails(w) \/ Crash(w)

ClientStep == \E c \in Clients : Request(c) \/ Handle(c) \/ ApiCrash(c)

CallsStep ==
    \/ \E a \in Assets : Dispatch(a) \/ DispatchLost(a)
    \/ SweepSelect
    \/ \E c \in Clients : InsertJob(c)

Framed ==
    /\ asset' = asset \/ AssetStep
    /\ aged' \subseteq aged \/ \E a \in Assets : Age(a)
    /\ files' = files \/ FilesStep
    /\ UNCHANGED <<job, jobs>> \/ QueueStep
    /\ ticket' = ticket \/ TicketStep
    /\ UNCHANGED <<rows, pages, nodes, loose>> \/ IndexStep
    /\ worker' = worker \/ SlotStep
    /\ client' = client \/ ClientStep
    /\ calls' = calls \/ CallsStep
    /\ sweep' \in {sweep, "idle", "jobs", "select"}
    /\ faults' = faults \/ (faults < MaxFaults /\ faults' = faults + 1)

\* The steps of processAsset stay within their frames.
LEMMA WorkFramed == ASSUME NEW w \in Workers, Work(w) PROVE Framed
  BY DEF Framed, Work, Take, Claim, ClaimRefused, StartJob, Stage, IndexPart, Indexed,
      MarkReady, MarkJobReady, Audit, Return, FailAsset, FailJob, Rethrow,
      AssetStep, QueueStep, TicketStep, IndexStep, SlotStep

\* So do dispatch, the sweep, the stalled checker and stray index writes.
LEMMA BackgroundFramed == ASSUME Background PROVE Framed
  BY DEF Framed, Background, Dispatch, Age, SweepAssets, SweepJobs, SweepSelect, StallCheck,
      LooseWriteLands, LooseWriteFails,
      AssetStep, QueueStep, TicketStep, IndexStep, CallsStep

\* So do the faults.
LEMMA FaultFramed == ASSUME Fault PROVE Framed
  BY DEF Framed, Fault, AttemptFails, LateError, CatchFails, Crash, ApiCrash, DispatchLost,
      RedisLoss, Evict, Strike, TicketStep, IndexStep, SlotStep, ClientStep, CallsStep

\* So do the requests that start.
LEMMA RequestFramed == ASSUME NEW c \in Clients, Request(c) PROVE Framed
  BY DEF Framed, Request, UploadBegin, RetryBegin, ReprocessBegin, TrashBegin, RestoreBegin,
      PurgeBegin, MoveBegin, FilesStep, ClientStep

\* So do the statements of the handlers.
LEMMA HandleFramed == ASSUME NEW c \in Clients, Handle(c) PROVE Framed
  BY DEF Framed, Handle, UploadDuplicate, UploadFresh, UploadInsert, Requeue, InsertJob,
      MoveWorkspace, Unpage, UnpageFails, MoveUnnode, TrashCommit, TrashRollback,
      RestoreCheck, Restore, PurgeCommit, PurgeFiles, DropIndexRows, DropJobs,
      AssetStep, FilesStep, QueueStep, IndexStep, ClientStep, CallsStep

\* Hence every step of the specification does.
LEMMA NextFramed == ASSUME [Next]_vars PROVE Framed
  BY WorkFramed, BackgroundFramed, FaultFramed, RequestFramed, HandleFramed
     DEF Next, vars, Framed

-----------------------------------------------------------------------------
(* The rows of assets *)

\* A step that changes nothing of the rows but the status of some that exist.
Relabelled ==
    /\ asset' \in [Assets -> RowType]
    /\ \A b \in Assets :
          /\ asset'[b].ws = asset[b].ws
          /\ asset'[b].trashed = asset[b].trashed
          /\ \/ asset'[b].status = asset[b].status
             \/ HasRow(b) /\ asset'[b].status \notin {"none", "purged"}

\* A step that replaces the row of one asset.
Replaced(a, r) ==
    /\ r \in RowType
    /\ a \in Assets
    /\ asset' = [asset EXCEPT ![a] = r]

\* An update by id to a status that keeps the row only relabels it.
LEMMA SetStatusRelabels ==
  ASSUME LibraryTyped, NEW a \in Assets, NEW s \in AssetStatus \ {"none", "purged"},
         SetStatus(a, s)
  PROVE  Relabelled
  BY DEF LibraryTyped, SetStatus, Relabelled, RowType, HasRow

\* The updates of assets in processAsset only relabel rows.
LEMMA SlotsRelabel ==
  ASSUME LibraryTyped, WorkersWired, NEW w \in Workers, Claim(w) \/ MarkReady(w) \/ FailAsset(w)
  PROVE  Relabelled
  BY SetStatusRelabels DEF WorkersWired, Claim, MarkReady, FailAsset, FailureStatus, AssetStatus

\* The sweep only relabels rows.
LEMMA SweepRelabels ==
  ASSUME LibraryTyped, SweepAssets
  PROVE  Relabelled
  BY DEF LibraryTyped, SweepAssets, Relabelled, RowType, AssetStatus, HasRow

\* Retry, reprocess and the end of a move only relabel the row.
LEMMA RequeueRelabels ==
  ASSUME LibraryTyped, ClientsWired, NEW c \in Clients, Requeue(c)
  PROVE  Relabelled
  BY SetStatusRelabels DEF ClientsWired, Requeue, AssetStatus

\* The insert of an upload makes a queued row.
LEMMA InsertReplaces ==
  ASSUME LibraryTyped, ClientsTyped, ClientsWired, NEW c \in Clients, UploadInsert(c)
  PROVE  \/ asset' = asset
         \/ /\ Uploading(c) /\ client[c].to \in Workspaces
            /\ Replaced(client[c].asset,
                        [status |-> "queued", trashed |-> FALSE, ws |-> client[c].to])
  BY DEF ClientsTyped, ClientsWired, UploadInsert, RequestType, AssetStatus, RowType, Replaced,
     Uploading

\* A move changes the workspace of an existing row.
LEMMA MoveReplaces ==
  ASSUME LibraryTyped, ClientsTyped, ClientsWired, NEW c \in Clients, MoveWorkspace(c)
  PROVE  LET a == client[c].asset IN
         \/ asset' = asset
         \/ /\ HasRow(a) /\ client[c].to \in Workspaces
            /\ Replaced(a, [asset[a] EXCEPT !.ws = client[c].to])
  BY DEF LibraryTyped, ClientsTyped, ClientsWired, MoveWorkspace, RequestType, RowType, Replaced

\* The trash transaction marks an existing row deleted.
LEMMA TrashReplaces ==
  ASSUME LibraryTyped, ClientsWired, NEW c \in Clients, TrashCommit(c)
  PROVE  LET a == client[c].asset IN
         \/ asset' = asset
         \/ /\ HasRow(a)
            /\ Replaced(a, [asset[a] EXCEPT !.status = "deleted", !.trashed = TRUE])
  BY DEF LibraryTyped, ClientsWired, TrashCommit, RowType, AssetStatus, Replaced

\* A restore brings an existing row back.
LEMMA RestoreReplaces ==
  ASSUME LibraryTyped, ClientsWired, NEW c \in Clients, Restore(c)
  PROVE  LET a == client[c].asset IN
         \/ asset' = asset
         \/ /\ HasRow(a)
            /\ Replaced(a, [asset[a] EXCEPT !.status = "queued", !.trashed = FALSE])
  <1> DEFINE a == client[c].asset
             r == [asset[a] EXCEPT !.status = "queued", !.trashed = FALSE]
  <1>1. a \in Assets
    BY DEF ClientsWired, Restore
  <1>2. r \in RowType
    BY <1>1 DEF LibraryTyped, RowType, AssetStatus
  <1>3. CASE HasRow(a) /\ ~LiveTwin(a, asset[a].ws)
    <2>1. asset' = [asset EXCEPT ![a].status = "queued", ![a].trashed = FALSE]
      BY <1>3 DEF Restore
    <2>2. Replaced(a, r)
      BY <1>1, <1>2, <2>1 DEF Replaced, LibraryTyped
    <2> QED BY <1>3, <2>2
  <1>4. CASE ~(HasRow(a) /\ ~LiveTwin(a, asset[a].ws))
    BY <1>4 DEF Restore
  <1> QED BY <1>3, <1>4

\* The delete of a purge ends the row it names.
LEMMA PurgeReplaces ==
  ASSUME LibraryTyped, ClientsWired, NEW c \in Clients, PurgeCommit(c)
  PROVE  LET a == client[c].asset IN
         client[c].pc = "erase" /\ Replaced(a, [asset[a] EXCEPT !.status = "purged"])
  BY DEF LibraryTyped, ClientsWired, PurgeCommit, RowType, AssetStatus, Replaced

Present(r) == r.status \notin {"none", "purged"}

\* What a handler may turn the row of its asset into.
Allowed(c, r) ==
    LET a == client[c].asset IN
    /\ r.status # "none"
    /\ Present(r) => r.ws \in Workspaces
    /\ asset[a].status = "none" => Uploading(c)
    /\ asset[a].status = "purged" => r.status = "purged"

\* Whatever happens to the library is one of three things.
AssetMoved ==
    \/ asset' = asset
    \/ Relabelled
    \/ \E c \in Clients, r \in RowType : Replaced(client[c].asset, r) /\ Allowed(c, r)

\* An upload moves the library as AssetMoved says.
LEMMA InsertAllowed ==
  ASSUME IInv, NEW c \in Clients, UploadInsert(c)
  PROVE  AssetMoved
  <1> DEFINE r == [status |-> "queued", trashed |-> FALSE, ws |-> client[c].to]
  <1>1. CASE asset' = asset
    BY <1>1 DEF AssetMoved
  <1>2. CASE asset' # asset
    <2>1. /\ Uploading(c) /\ client[c].to \in Workspaces
          /\ Replaced(client[c].asset, r)
      BY <1>2, InsertReplaces DEF IInv, TypeOK
    <2>2. asset[client[c].asset].status = "none"
      BY <2>1 DEF IInv, RequestsFounded
    <2>3. Allowed(c, r)
      BY <2>1, <2>2 DEF Allowed, Present
    <2> QED BY <2>1, <2>3 DEF AssetMoved, Replaced
  <1> QED BY <1>1, <1>2

\* So does a move,
LEMMA MoveAllowed ==
  ASSUME IInv, NEW c \in Clients, MoveWorkspace(c)
  PROVE  AssetMoved
  <1> DEFINE a == client[c].asset
             r == [asset[a] EXCEPT !.ws = client[c].to]
  <1>1. CASE asset' = asset
    BY <1>1 DEF AssetMoved
  <1>2. CASE asset' # asset
    <2>1. HasRow(a) /\ client[c].to \in Workspaces /\ Replaced(a, r)
      BY <1>2, MoveReplaces DEF IInv, TypeOK
    <2>2. asset[a] \in RowType
      BY <2>1 DEF IInv, TypeOK, LibraryTyped, Replaced
    <2>3. r.status = asset[a].status /\ r.trashed = asset[a].trashed /\ r.ws = client[c].to
      BY <2>2 DEF RowType
    <2> HIDE DEF r
    <2>4. Allowed(c, r)
      BY <2>1, <2>3 DEF Allowed, Present, HasRow, Live
    <2> QED BY <2>1, <2>4 DEF AssetMoved, Replaced
  <1> QED BY <1>1, <1>2

\* the trash transaction,
LEMMA TrashAllowed ==
  ASSUME IInv, NEW c \in Clients, TrashCommit(c)
  PROVE  AssetMoved
  <1> DEFINE a == client[c].asset
             r == [asset[a] EXCEPT !.status = "deleted", !.trashed = TRUE]
  <1>1. CASE asset' = asset
    BY <1>1 DEF AssetMoved
  <1>2. CASE asset' # asset
    <2>1. HasRow(a) /\ Replaced(a, r)
      BY <1>2, TrashReplaces DEF IInv, TypeOK
    <2>2. asset[a] \in RowType /\ asset[a].ws \in Workspaces
      BY <2>1 DEF IInv, TypeOK, LibraryTyped, Replaced, RowsPlaced
    <2>3. r.status = "deleted" /\ r.trashed /\ r.ws = asset[a].ws
      BY <2>2 DEF RowType
    <2> HIDE DEF r
    <2>4. Allowed(c, r)
      BY <2>1, <2>2, <2>3 DEF Allowed, HasRow
    <2> QED BY <2>1, <2>4 DEF AssetMoved, Replaced
  <1> QED BY <1>1, <1>2

\* a restore,
LEMMA RestoreAllowed ==
  ASSUME IInv, NEW c \in Clients, Restore(c)
  PROVE  AssetMoved
  <1> DEFINE a == client[c].asset
             r == [asset[a] EXCEPT !.status = "queued", !.trashed = FALSE]
  <1>1. CASE asset' = asset
    BY <1>1 DEF AssetMoved
  <1>2. CASE asset' # asset
    <2>1. HasRow(a) /\ Replaced(a, r)
      BY <1>2, RestoreReplaces DEF IInv, TypeOK
    <2>2. asset[a] \in RowType /\ asset[a].ws \in Workspaces
      BY <2>1 DEF IInv, TypeOK, LibraryTyped, Replaced, RowsPlaced
    <2>3. r.status = "queued" /\ r.ws = asset[a].ws
      BY <2>2 DEF RowType
    <2> HIDE DEF r
    <2>4. Allowed(c, r)
      BY <2>1, <2>2, <2>3 DEF Allowed, HasRow
    <2> QED BY <2>1, <2>4 DEF AssetMoved, Replaced
  <1> QED BY <1>1, <1>2

\* and a purge.
LEMMA PurgeAllowed ==
  ASSUME IInv, NEW c \in Clients, PurgeCommit(c)
  PROVE  AssetMoved
  <1> DEFINE a == client[c].asset
             r == [asset[a] EXCEPT !.status = "purged"]
  <1>1. client[c].pc = "erase" /\ Replaced(a, r)
    BY PurgeReplaces DEF IInv, TypeOK
  <1>2. asset[a] \in RowType /\ asset[a].status # "none"
    BY <1>1 DEF IInv, TypeOK, LibraryTyped, Replaced, RequestsFounded
  <1>3. r.status = "purged"
    BY <1>2 DEF RowType
  <1> HIDE DEF r
  <1>4. Allowed(c, r)
    BY <1>1, <1>2, <1>3 DEF Allowed, Present
  <1> QED BY <1>1, <1>4 DEF AssetMoved, Replaced

\* Hence every step of the specification does.
LEMMA AssetMoves ==
  ASSUME IInv, Framed
  PROVE  AssetMoved
  <1> USE DEF IInv, TypeOK
  <1>1. CASE asset' = asset
    BY <1>1 DEF AssetMoved
  <1>2. CASE AssetStep
    BY <1>2, SlotsRelabel, SweepRelabels, RequeueRelabels, InsertAllowed, MoveAllowed,
       TrashAllowed, RestoreAllowed, PurgeAllowed DEF AssetStep, AssetMoved
  <1> QED BY <1>1, <1>2 DEF Framed

-----------------------------------------------------------------------------
(* What every step keeps of the library *)

\* AssetMoved keeps the rows of assets typed,
LEMMA MovedTyped ==
  ASSUME LibraryTyped, AssetMoved
  PROVE  asset' \in [Assets -> RowType]
  BY DEF LibraryTyped, AssetMoved, Relabelled, Replaced

\* and keeps every row in a workspace.
LEMMA MovedPlaced ==
  ASSUME LibraryTyped, RowsPlaced, AssetMoved
  PROVE  RowsPlaced'
  BY DEF LibraryTyped, RowsPlaced, HasRow, AssetMoved, Relabelled, Replaced, Allowed, Present

-----------------------------------------------------------------------------
(* Types, one group of variables at a time *)

\* The rows of assets, their age marks and files stay typed.
LEMMA LibraryKept ==
  ASSUME IInv, Framed
  PROVE  LibraryTyped'
  <1> USE DEF IInv, TypeOK
  <1>1. asset' \in [Assets -> RowType]
    BY AssetMoves, MovedTyped
  <1>2. aged' \subseteq Assets
    BY DEF Framed, Age, LibraryTyped
  <1>3. files' \subseteq Assets
    BY DEF Framed, FilesStep, UploadBegin, UploadDuplicate, PurgeFiles, LibraryTyped
  <1> QED BY <1>1, <1>2, <1>3 DEF LibraryTyped

\* The rows of jobs stay typed, within the bound.
LEMMA QueueKept ==
  ASSUME IInv, Framed
  PROVE  QueueTyped'
  <1> QueueTyped /\ ClientsWired
    BY DEF IInv, TypeOK
  <1> USE PipelineAssumption DEF QueueTyped
  <1>1. CASE UNCHANGED <<job, jobs>>
    BY <1>1
  <1>2. ASSUME NEW w \in Workers, StartJob(w) \/ MarkJobReady(w) \/ FailJob(w)
        PROVE  QueueTyped'
    BY <1>2 DEF FailureStatus, StartJob, MarkJobReady, FailJob, JobType, JobStatus
  <1>3. CASE SweepJobs
    BY <1>3 DEF SweepJobs, JobType, JobStatus
  <1>4. ASSUME NEW c \in Clients, InsertJob(c)
        PROVE  QueueTyped'
    <2> DEFINE a == client[c].asset
               r == [asset |-> a, status |-> "queued"]
    <2>1. a \in Assets
      BY <1>4 DEF InsertJob, ClientsWired
    <2>2. r \in JobType
      BY <2>1 DEF JobType, JobStatus
    <2>3. \/ UNCHANGED <<job, jobs>>
          \/ /\ jobs < MaxJobs /\ jobs' = jobs + 1
             /\ job' = [job EXCEPT ![jobs + 1] = r]
      BY <1>4 DEF InsertJob
    <2> HIDE DEF r
    <2> QED BY <2>2, <2>3
  <1>5. ASSUME NEW c \in Clients, TrashCommit(c) \/ PurgeCommit(c)
        PROVE  QueueTyped'
    <2>1. \A j \in JobIds : [job[j] EXCEPT !.status = "none"] \in JobType
      BY DEF JobType, JobStatus
    <2>2. DropJobs(client[c].asset) /\ jobs' = jobs
      BY <1>5 DEF TrashCommit, PurgeCommit
    <2> QED BY <2>1, <2>2 DEF DropJobs
  <1> QED BY <1>1, <1>2, <1>3, <1>4, <1>5 DEF Framed, QueueStep

TicketsSound == ticket \in [JobIds -> Sound(Workers)]

\* The invariant says that tickets are sound.
LEMMA TicketsAreSound ==
  ASSUME TicketsTyped, TicketsWired
  PROVE  TicketsSound
  BY DEF TicketsTyped, TicketsWired, TicketsSound, Sound, HasAttempt

\* Every step keeps the tickets sound: retries, stalls and lost locks included.
LEMMA TicketsKept ==
  ASSUME IInv, Framed
  PROVE  TicketsSound'
  <1>1. TicketsSound
    BY TicketsAreSound DEF IInv, TypeOK
  <1>2. CASE ticket' = ticket
    BY <1>1, <1>2 DEF TicketsSound
  <1>3. ASSUME NEW w \in Workers, NEW j \in JobIds, Take(w, j)
        PROVE  TicketsSound'
    BY <1>1, <1>3, TakenSound DEF Take, TicketsSound
  <1>4. ASSUME NEW w \in Workers, Return(w) \/ Rethrow(w) \/ Crash(w)
        PROVE  TicketsSound'
    BY <1>1, <1>4, CompletedSound, ThrownSound, AbandonedSound
       DEF Return, Rethrow, Crash, TicketsSound
  <1>5. ASSUME NEW a \in Assets, Dispatch(a)
        PROVE  TicketsSound'
    BY <1>1, <1>5, AddedSound DEF Dispatch, TicketsSound
  <1>6. ASSUME NEW j \in JobIds, StallCheck(j) \/ Evict(j)
        PROVE  TicketsSound'
    BY <1>1, <1>6, StalledSound, NoTicketSound DEF StallCheck, Evict, TicketsSound
  <1>7. CASE RedisLoss
    BY <1>7, NoTicketSound DEF RedisLoss, TicketsSound
  <1> QED BY <1>2, <1>3, <1>4, <1>5, <1>6, <1>7 DEF Framed, TicketStep

\* The index is only written for workspaces and assets.
LEMMA IndexKept ==
  ASSUME IInv, Framed
  PROVE  IndexTyped'
  <1> USE DEF IInv, TypeOK, IndexTyped
  <1>1. CASE UNCHANGED <<rows, pages, nodes, loose>>
    BY <1>1
  <1>2. ASSUME NEW w \in Workers, NEW part \in Parts, IndexPart(w, part)
        PROVE  IndexTyped'
    BY <1>2 DEF IndexPart, WritePart, WorkersWired
  <1>3. ASSUME NEW w \in Workers, AttemptFails(w)
        PROVE  IndexTyped'
    <2>1. worker[w].todo \subseteq Parts
      BY DEF WorkersTyped, AttemptType
    <2>2. worker[w].todo # {} => worker[w].asset \in Assets /\ worker[w].ws \in Workspaces
      BY <1>3 DEF WorkersWired, AttemptFails
    <2> QED BY <1>3, <2>1, <2>2 DEF AttemptFails, WriteType
  <1>4. ASSUME NEW o \in loose, LooseWriteLands(o) \/ LooseWriteFails(o)
        PROVE  IndexTyped'
    BY <1>4 DEF LooseWriteLands, LooseWriteFails, WritePart, WriteType
  <1>5. ASSUME NEW c \in Clients, \/ MoveUnnode(c) \/ Unpage(c) \/ TrashCommit(c)
                                  \/ TrashRollback(c) \/ PurgeCommit(c)
        PROVE  IndexTyped'
    BY <1>5 DEF MoveUnnode, Unpage, TrashCommit, TrashRollback, PurgeCommit, DropIndexRows,
       ClientsWired
  <1> QED BY <1>1, <1>2, <1>3, <1>4, <1>5 DEF Framed, IndexStep

\* The scheduled calls, the sweep and the fault count stay typed.
LEMMA TimersKept ==
  ASSUME IInv, Framed
  PROVE  TimersTyped'
  <1> USE PipelineAssumption DEF IInv, TypeOK, TimersTyped
  <1>1. calls' \subseteq Assets
    BY DEF Framed, CallsStep, Dispatch, DispatchLost, SweepSelect, InsertJob, ClientsWired
  <1>2. sweep' \in {"idle", "jobs", "select"}
    BY DEF Framed
  <1>3. faults' \in 0 .. MaxFaults
    BY DEF Framed
  <1> QED BY <1>1, <1>2, <1>3

-----------------------------------------------------------------------------
(* What the steps hand to one another *)

\* A row of jobs never changes the asset it is for.
LEMMA JobsKeepAsset ==
  ASSUME IInv, Framed
  PROVE  \A j \in JobIds : job[j].asset \in Assets => job'[j].asset \in Assets
  <1> QueueTyped /\ ClientsWired
    BY DEF IInv, TypeOK
  <1> USE PipelineAssumption DEF QueueTyped
  <1>1. CASE UNCHANGED <<job, jobs>>
    BY <1>1
  <1>2. ASSUME NEW w \in Workers, StartJob(w) \/ MarkJobReady(w) \/ FailJob(w),
               NEW j \in JobIds, job[j].asset \in Assets
        PROVE  job'[j].asset \in Assets
    <2>1. ASSUME NEW s, job' = [job EXCEPT ![worker[w].job].status = s]
          PROVE  job'[j].asset = job[j].asset
      BY <2>1 DEF JobType
    <2>2. \/ job' = job
          \/ \E s \in JobStatus : job' = [job EXCEPT ![worker[w].job].status = s]
      BY <1>2 DEF StartJob, MarkJobReady, FailJob, FailureStatus, JobStatus
    <2> QED BY <1>2, <2>1, <2>2
  <1>3. ASSUME SweepJobs, NEW j \in JobIds, job[j].asset \in Assets
        PROVE  job'[j].asset \in Assets
    BY <1>3 DEF SweepJobs, JobType
  <1>4. ASSUME NEW c \in Clients, InsertJob(c), NEW j \in JobIds, job[j].asset \in Assets
        PROVE  job'[j].asset \in Assets
    <2> DEFINE a == client[c].asset
               r == [asset |-> a, status |-> "queued"]
    <2>1. a \in Assets /\ r.asset = a
      BY <1>4 DEF InsertJob, ClientsWired
    <2>2. job' = job \/ job' = [job EXCEPT ![jobs + 1] = r]
      BY <1>4 DEF InsertJob
    <2> HIDE DEF r
    <2> QED BY <1>4, <2>1, <2>2
  <1>5. ASSUME NEW c \in Clients, TrashCommit(c) \/ PurgeCommit(c),
               NEW j \in JobIds, job[j].asset \in Assets
        PROVE  job'[j].asset \in Assets
    BY <1>5 DEF TrashCommit, PurgeCommit, DropJobs, JobType
  <1> QED BY <1>1, <1>2, <1>3, <1>4, <1>5 DEF Framed, QueueStep

\* Only an id of a row of jobs is ever put on the queue.
LEMMA TicketsHaveAsset ==
  ASSUME IInv, Framed, NEW j \in JobIds, ticket'[j].state # "absent"
  PROVE  job'[j].asset \in Assets
  <1>1. TicketsTyped /\ TicketsWired
    BY DEF IInv, TypeOK
  <1>2. CASE ticket[j].state # "absent"
    BY <1>1, <1>2, JobsKeepAsset DEF TicketsWired
  <1>3. CASE ticket[j].state = "absent"
    <2> USE <1>1, <1>3 DEF TicketsTyped
    <2>1. ticket' # ticket
      OBVIOUS
    <2>2. ASSUME NEW w \in Workers, NEW k \in JobIds, Take(w, k)
          PROVE  FALSE
      BY <2>2 DEF Take
    <2>3. ASSUME NEW w \in Workers, Return(w) \/ Rethrow(w) \/ Crash(w)
          PROVE  FALSE
      BY <2>3 DEF Return, Rethrow, Crash, Completed, Thrown, Abandoned, HeldBy
    <2>4. ASSUME NEW k \in JobIds, StallCheck(k) \/ Evict(k)
          PROVE  FALSE
      BY <2>4 DEF StallCheck, Evict, LockRunsOut
    <2>5. CASE RedisLoss
      BY <2>5 DEF RedisLoss, NoTicket
    <2>6. ASSUME NEW a \in Assets, Dispatch(a)
          PROVE  job[j].asset \in Assets
      BY <2>6 DEF Dispatch, IsLatest, QueuedJobs
    <2> QED BY <2>1, <2>2, <2>3, <2>4, <2>5, <2>6, JobsKeepAsset DEF Framed, TicketStep
  <1> QED BY <1>2, <1>3

\* The tickets stay wired to jobs and attempts.
LEMMA TicketsWiredKept ==
  ASSUME IInv, Framed
  PROVE  TicketsWired'
  <1>1. \A j \in JobIds : ticket'[j].state \in {"wait", "active"}
                          => ticket'[j].made < MaxAttempts
    BY TicketsKept DEF TicketsSound, Sound, HasAttempt
  <1> QED BY <1>1, TicketsHaveAsset DEF TicketsWired

\* The steps of an attempt that only move on.
LEMMA GotoKeeps ==
  ASSUME WorkersTyped, WorkersWired, NEW w \in Workers, NEW pc \in WorkerPc, Goto(w, pc),
         worker[w].pc # "idle", worker[w].todo = {},
         pc \notin {"start", "parse", "index"} \/ worker[w].ws \in Workspaces
  PROVE  WorkersTyped' /\ WorkersWired'
  BY DEF WorkersTyped, WorkersWired, Goto, AttemptType

\* A slot that is freed is in order.
LEMMA SlotFreed ==
  ASSUME WorkersTyped, WorkersWired, NEW w \in Workers,
         worker' = [worker EXCEPT ![w] = NoAttempt]
  PROVE  WorkersTyped' /\ WorkersWired'
  BY PipelineAssumption, BullAssumption
     DEF WorkersTyped, WorkersWired, NoAttempt, AttemptType, WorkerPc

\* Every step of an attempt leaves the slots typed and wired.
LEMMA WorkersKept ==
  ASSUME IInv, Framed
  PROVE  WorkersTyped' /\ WorkersWired'
  <1> WorkersTyped /\ WorkersWired /\ LibraryTyped /\ RowsPlaced
    BY DEF IInv, TypeOK
  <1>1. CASE worker' = worker
    BY <1>1 DEF WorkersTyped, WorkersWired
  <1>2. ASSUME NEW w \in Workers, NEW j \in JobIds, Take(w, j)
        PROVE  WorkersTyped' /\ WorkersWired'
    <2> DEFINE r == [pc |-> "claim", job |-> j, asset |-> job[j].asset,
                     attempt |-> ticket[j].made + 1, ws |-> Nowhere, todo |-> {}]
    <2>1. job[j].asset \in Assets /\ ticket[j].made \in Nat /\ ticket[j].made < MaxAttempts
      BY <1>2 DEF IInv, TypeOK, Take, TicketsWired, TicketsTyped, TicketType
    <2>2. r \in AttemptType
      BY <2>1, BullAssumption, PipelineAssumption DEF NoAttempt, AttemptType, WorkerPc
    <2>3. r.asset \in Assets /\ r.pc = "claim" /\ r.todo = {}
      BY <2>1 DEF NoAttempt
    <2>4. worker' = [worker EXCEPT ![w] = r]
      BY <1>2 DEF Take
    <2> HIDE DEF r
    <2> QED BY <2>2, <2>3, <2>4 DEF WorkersTyped, WorkersWired
  <1>3. ASSUME NEW w \in Workers, Claim(w)
        PROVE  WorkersTyped' /\ WorkersWired'
    <2>1. worker[w].asset \in Assets /\ asset[worker[w].asset].ws \in Workspaces
      BY <1>3 DEF Claim, WorkersWired, RowsPlaced, Live
    <2> DEFINE r == [worker[w] EXCEPT !.pc = "start", !.ws = asset[worker[w].asset].ws]
    <2>2. r \in AttemptType
      BY <2>1 DEF WorkersTyped, AttemptType, WorkerPc
    <2>3. /\ r.pc = "start" /\ r.asset = worker[w].asset /\ r.todo = worker[w].todo
          /\ r.ws \in Workspaces
      BY <2>1 DEF WorkersTyped, AttemptType
    <2>4. worker' = [worker EXCEPT ![w] = r] /\ worker[w].pc = "claim"
      BY <1>3 DEF Claim
    <2> HIDE DEF r
    <2> QED BY <2>1, <2>2, <2>3, <2>4 DEF WorkersTyped, WorkersWired
  <1>4. ASSUME NEW w \in Workers, Stage(w)
        PROVE  WorkersTyped' /\ WorkersWired'
    <2> DEFINE ws == IF HasRow(worker[w].asset) THEN asset[worker[w].asset].ws ELSE worker[w].ws
    <2>1. ws \in Workspaces
      BY <1>4 DEF Stage, WorkersWired, RowsPlaced
    <2> DEFINE r == [worker[w] EXCEPT !.pc = "index", !.todo = Parts, !.ws = ws]
    <2>2. worker' = [worker EXCEPT ![w] = r] /\ worker[w].pc = "parse"
      BY <1>4 DEF Stage
    <2> HIDE DEF ws
    <2>3. r \in AttemptType
      BY <2>1 DEF WorkersTyped, AttemptType, WorkerPc
    <2>4. r.pc = "index" /\ r.asset = worker[w].asset /\ r.ws \in Workspaces
      BY <2>1 DEF WorkersTyped, AttemptType
    <2> HIDE DEF r
    <2> QED BY <2>2, <2>3, <2>4 DEF WorkersTyped, WorkersWired
  <1>5. ASSUME NEW w \in Workers, NEW part \in Parts, IndexPart(w, part)
        PROVE  WorkersTyped' /\ WorkersWired'
    BY <1>5 DEF IndexPart, WorkersTyped, WorkersWired, AttemptType
  <1>6. ASSUME NEW w \in Workers, AttemptFails(w)
        PROVE  WorkersTyped' /\ WorkersWired'
    <2>1. worker' = [worker EXCEPT ![w] = [@ EXCEPT !.pc = "caught", !.todo = {}]]
      BY <1>6 DEF AttemptFails
    <2> DEFINE r == [worker[w] EXCEPT !.pc = "caught", !.todo = {}]
    <2>2. r \in AttemptType
      BY DEF WorkersTyped, AttemptType, WorkerPc
    <2>3. r.pc = "caught" /\ r.asset = worker[w].asset /\ r.todo = {}
      BY DEF WorkersTyped, AttemptType
    <2>4. worker' = [worker EXCEPT ![w] = r] /\ worker[w].pc # "idle"
      BY <1>6, <2>1 DEF AttemptFails
    <2> HIDE DEF r
    <2> QED BY <2>2, <2>3, <2>4 DEF WorkersTyped, WorkersWired
  <1>7. ASSUME NEW w \in Workers, Return(w) \/ Rethrow(w) \/ Crash(w)
        PROVE  WorkersTyped' /\ WorkersWired'
    BY <1>7, SlotFreed DEF Return, Rethrow, Crash
  <1>8. ASSUME NEW w \in Workers,
               \/ ClaimRefused(w) \/ StartJob(w) \/ Indexed(w) \/ MarkReady(w) \/ MarkJobReady(w)
               \/ Audit(w) \/ FailAsset(w) \/ FailJob(w) \/ LateError(w) \/ CatchFails(w)
        PROVE  WorkersTyped' /\ WorkersWired'
    BY <1>8, GotoKeeps DEF ClaimRefused, StartJob, Indexed, MarkReady, MarkJobReady, Audit,
       FailAsset, FailJob, LateError, CatchFails, WorkersWired, WorkerPc
  <1> QED BY <1>1, <1>2, <1>3, <1>4, <1>5, <1>6, <1>7, <1>8 DEF Framed, SlotStep, Work

-----------------------------------------------------------------------------
(* The requests *)

\* The steps of a handler that only move on.
LEMMA NextStepKeeps ==
  ASSUME ClientsTyped, ClientsWired, NEW c \in Clients, NEW pc \in ClientPc, NextStep(c, pc),
         client[c].pc # "idle",
         pc = "insert" => Uploading(c),
         pc \notin {"setWorkspace", "checkDup"},
         pc \in {"unpage", "erase"} => client[c].ws \in Workspaces
  PROVE  ClientsTyped' /\ ClientsWired'
  BY DEF ClientsTyped, ClientsWired, NextStep, RequestType, Uploading

\* A request that is answered is in order.
LEMMA ReplyKeeps ==
  ASSUME ClientsTyped, ClientsWired, NEW c \in Clients, Reply(c)
  PROVE  ClientsTyped' /\ ClientsWired'
  BY DEF ClientsTyped, ClientsWired, Reply, NoRequest, RequestType, ClientPc, Uploading

\* A request that starts on an asset it has read is in order.
LEMMA BeginKeeps ==
  ASSUME ClientsTyped, ClientsWired, LibraryTyped, NEW c \in Clients, NEW a \in Assets,
         NEW op, NEW to \in Workspaces \cup {Nowhere}, NEW pc \in ClientPc \ {"insert"},
         Begin(c, op, a, to, pc),
         pc = "setWorkspace" \/ op = "upload" => to \in Workspaces,
         pc \in {"setWorkspace", "unpage", "erase"} => asset[a].ws \in Workspaces
  PROVE  ClientsTyped' /\ ClientsWired'
  <1> DEFINE r == [pc |-> pc, op |-> op, asset |-> a, ws |-> asset[a].ws, to |-> to]
  <1>1. r \in RequestType
    BY DEF Begin, LibraryTyped, RowType, RequestType
  <1>2. client' = [client EXCEPT ![c] = r]
    BY DEF Begin
  <1>3. r.pc = pc /\ r.op = op /\ r.asset = a /\ r.ws = asset[a].ws /\ r.to = to
    OBVIOUS
  <1> HIDE DEF r
  <1> QED BY <1>1, <1>2, <1>3 DEF ClientsTyped, ClientsWired, Uploading

\* Every statement of a handler leaves the requests typed and wired.
LEMMA ClientsKept ==
  ASSUME IInv, Framed
  PROVE  ClientsTyped' /\ ClientsWired'
  <1> ClientsTyped /\ ClientsWired /\ LibraryTyped /\ RowsPlaced
    BY DEF IInv, TypeOK
  <1>1. CASE client' = client
    BY <1>1 DEF ClientsTyped, ClientsWired, Uploading
  <1>2. ASSUME NEW c \in Clients, Request(c)
        PROVE  ClientsTyped' /\ ClientsWired'
    <2>1. PICK a \in Assets :
            \/ RetryBegin(c, a) \/ ReprocessBegin(c, a) \/ TrashBegin(c, a)
            \/ RestoreBegin(c, a) \/ PurgeBegin(c, a)
            \/ \E ws \in Workspaces : UploadBegin(c, a, ws) \/ MoveBegin(c, a, ws)
      BY <1>2 DEF Request
    <2>2. HasRow(a) => asset[a].ws \in Workspaces
      BY DEF RowsPlaced
    <2>3. CASE RetryBegin(c, a) \/ ReprocessBegin(c, a)
      BY <2>3, BeginKeeps DEF RetryBegin, ReprocessBegin, ClientPc
    <2>4. CASE TrashBegin(c, a) \/ PurgeBegin(c, a)
      BY <2>2, <2>4, BeginKeeps DEF TrashBegin, PurgeBegin, Live, Trashed, ClientPc
    <2>5. CASE RestoreBegin(c, a)
      BY <2>5, BeginKeeps DEF RestoreBegin, ClientPc
    <2>6. ASSUME NEW ws \in Workspaces, UploadBegin(c, a, ws)
          PROVE  ClientsTyped' /\ ClientsWired'
      BY <2>6, BeginKeeps DEF UploadBegin, ClientPc
    <2>7. ASSUME NEW ws \in Workspaces, MoveBegin(c, a, ws)
          PROVE  ClientsTyped' /\ ClientsWired'
      BY <2>2, <2>7, BeginKeeps DEF MoveBegin, Live, ClientPc
    <2> QED BY <2>1, <2>3, <2>4, <2>5, <2>6, <2>7
  <1>3. ASSUME NEW c \in Clients,
               \/ UploadDuplicate(c) \/ InsertJob(c) \/ TrashCommit(c) \/ TrashRollback(c)
               \/ PurgeFiles(c) \/ ApiCrash(c)
        PROVE  ClientsTyped' /\ ClientsWired'
    BY <1>3, ReplyKeeps DEF UploadDuplicate, InsertJob, TrashCommit, TrashRollback, PurgeFiles,
       ApiCrash
  <1>4. ASSUME NEW c \in Clients,
               \/ UploadFresh(c) \/ UploadInsert(c) \/ Requeue(c) \/ MoveUnnode(c)
               \/ RestoreCheck(c) \/ Restore(c) \/ PurgeCommit(c)
        PROVE  ClientsTyped' /\ ClientsWired'
    BY <1>4, ReplyKeeps, NextStepKeeps DEF UploadFresh, UploadInsert, Requeue, MoveUnnode,
       RestoreCheck, Restore, PurgeCommit, ClientPc, Uploading
  <1>5. ASSUME NEW c \in Clients, MoveWorkspace(c) \/ Unpage(c) \/ UnpageFails(c)
        PROVE  ClientsTyped' /\ ClientsWired'
    <2>1. client[c].pc # "idle" /\ client[c].ws \in Workspaces
      BY <1>5 DEF MoveWorkspace, Unpage, UnpageFails, ClientsWired
    <2> QED BY <1>5, <2>1, ReplyKeeps, NextStepKeeps DEF MoveWorkspace, Unpage, UnpageFails,
            ClientPc
  <1> QED BY <1>1, <1>2, <1>3, <1>4, <1>5 DEF Framed, ClientStep, Handle

-----------------------------------------------------------------------------
(* Rows and files *)

\* Only an upload makes a row, and none comes back once it is deleted.
LEMMA StatusKept ==
  ASSUME IInv, Framed, NEW a \in Assets
  PROVE  /\ asset[a].status # "none" => asset'[a].status # "none"
         /\ asset[a].status = "purged" => asset'[a].status = "purged"
  <1>1. LibraryTyped /\ AssetMoved
    BY AssetMoves DEF IInv, TypeOK
  <1> QED BY <1>1 DEF LibraryTyped, AssetMoved, Relabelled, Replaced, Allowed, HasRow

\* A step that turns asset a from "none" into a row is the end of an upload of a.
LEMMA RowMade ==
  ASSUME IInv, Framed, NEW a \in Assets, asset[a].status = "none", asset'[a].status # "none"
  PROVE  \E c \in Clients : Uploading(c) /\ client[c].asset = a /\ UploadInsert(c)
  <1> LibraryTyped /\ ClientsTyped /\ ClientsWired /\ WorkersWired /\ RequestsFounded
    BY DEF IInv, TypeOK
  <1>1. ~Relabelled
    BY DEF Relabelled, HasRow
  <1>2. AssetStep
    BY DEF Framed
  <1>3. PICK c \in Clients : \/ UploadInsert(c) \/ MoveWorkspace(c) \/ TrashCommit(c)
                             \/ Restore(c) \/ PurgeCommit(c)
    BY <1>1, <1>2, SlotsRelabel, SweepRelabels, RequeueRelabels DEF AssetStep
  <1>4. client[c].asset = a
    BY <1>3, InsertReplaces, MoveReplaces, TrashReplaces, RestoreReplaces, PurgeReplaces
       DEF LibraryTyped, Replaced
  <1>5. UploadInsert(c)
    BY <1>3, <1>4 DEF MoveWorkspace, TrashCommit, Restore, PurgeCommit, HasRow, RequestsFounded
  <1>6. Uploading(c)
    BY <1>5 DEF UploadInsert, ClientsWired, Uploading
  <1> QED BY <1>4, <1>5, <1>6

\* A request changes its own record only.
LEMMA ClientsApart ==
  ASSUME ClientsTyped, NEW c \in Clients, NEW d \in Clients, d # c,
         Request(d) \/ Handle(d) \/ ApiCrash(d)
  PROVE  client'[c] = client[c]
  <1>1. ASSUME NEW r, client' = [client EXCEPT ![d] = r]
        PROVE  client'[c] = client[c]
    BY <1>1 DEF ClientsTyped
  <1>2. ASSUME NEW pc, NextStep(d, pc)
        PROVE  client'[c] = client[c]
    BY <1>2 DEF ClientsTyped, NextStep
  <1>3. CASE Request(d)
    BY <1>1, <1>3 DEF Request, UploadBegin, RetryBegin, ReprocessBegin, TrashBegin,
       RestoreBegin, PurgeBegin, MoveBegin, Begin
  <1>4. CASE Handle(d)
    BY <1>1, <1>2, <1>4 DEF Handle, UploadDuplicate, UploadFresh, UploadInsert, Requeue,
       InsertJob, MoveWorkspace, Unpage, UnpageFails, MoveUnnode, TrashCommit,
       TrashRollback, RestoreCheck, Restore, PurgeCommit, PurgeFiles, Reply
  <1>5. CASE ApiCrash(d)
    BY <1>1, <1>5 DEF ApiCrash, Reply
  <1> QED BY <1>3, <1>4, <1>5

\* A request that was under way keeps its asset and its operation until it is
\* answered.
LEMMA RequestMoves ==
  ASSUME IInv, Framed, NEW c \in Clients
  PROVE  \/ client'[c] = client[c]
         \/ client'[c].pc = "idle"
         \/ Request(c)
         \/ Handle(c) /\ client'[c].op = client[c].op /\ client'[c].asset = client[c].asset
  <1> ClientsTyped
    BY DEF IInv, TypeOK
  <1>1. CASE client' = client
    BY <1>1
  <1>2. ASSUME NEW d \in Clients, d # c, Request(d) \/ Handle(d) \/ ApiCrash(d)
        PROVE  client'[c] = client[c]
    BY <1>2, ClientsApart
  <1>3. CASE ApiCrash(c)
    BY <1>3 DEF ApiCrash, Reply, NoRequest, ClientsTyped
  <1>4. ASSUME Handle(c)
        PROVE  \/ client'[c].pc = "idle"
               \/ client'[c].op = client[c].op /\ client'[c].asset = client[c].asset
    <2>1. CASE Reply(c)
      BY <2>1 DEF Reply, NoRequest, ClientsTyped
    <2>2. ASSUME NEW pc, NextStep(c, pc)
          PROVE  client'[c].op = client[c].op /\ client'[c].asset = client[c].asset
      BY <2>2 DEF NextStep, ClientsTyped, RequestType
    <2> QED BY <1>4, <2>1, <2>2 DEF Handle, UploadDuplicate, UploadFresh, UploadInsert, Requeue,
            InsertJob, MoveWorkspace, Unpage, UnpageFails, MoveUnnode, TrashCommit,
            TrashRollback, RestoreCheck, Restore, PurgeCommit, PurgeFiles
  <1> QED BY <1>1, <1>2, <1>3, <1>4 DEF Framed, ClientStep

\* Where a handler goes next.
LEMMA HandleMoves ==
  ASSUME ClientsTyped, ClientsWired, NEW c \in Clients, Handle(c)
  PROVE  /\ Uploading(c)' => Uploading(c) /\ ~UploadInsert(c) /\ ~UploadDuplicate(c)
         /\ client'[c].pc \in {"setWorkspace", "unpage", "erase"}
            => client[c].pc \in {"setWorkspace", "unpage", "erase"}
         /\ client'[c].pc = "unlink" => PurgeCommit(c)
  <1>1. CASE Reply(c)
    BY <1>1 DEF Reply, NoRequest, ClientsTyped, Uploading
  <1>2. ASSUME NEW pc, NextStep(c, pc)
        PROVE  client'[c].pc = pc /\ client'[c].op = client[c].op
    BY <1>2 DEF NextStep, ClientsTyped, RequestType
  <1>3. CASE UploadFresh(c)
    BY <1>2, <1>3 DEF UploadFresh, Uploading, UploadInsert, UploadDuplicate
  <1>4. CASE \/ UploadInsert(c) \/ Requeue(c) \/ MoveWorkspace(c) \/ Unpage(c) \/ UnpageFails(c)
             \/ MoveUnnode(c) \/ RestoreCheck(c) \/ Restore(c) \/ PurgeCommit(c)
    BY <1>1, <1>2, <1>4 DEF UploadInsert, Requeue, MoveWorkspace, Unpage, UnpageFails, MoveUnnode,
       RestoreCheck, Restore, PurgeCommit, Uploading
  <1>5. CASE \/ UploadDuplicate(c) \/ InsertJob(c) \/ TrashCommit(c) \/ TrashRollback(c)
             \/ PurgeFiles(c)
    BY <1>1, <1>5 DEF UploadDuplicate, InsertJob, TrashCommit, TrashRollback, PurgeFiles
  <1> QED BY <1>3, <1>4, <1>5 DEF Handle

\* What a handler decides on when it starts.
LEMMA RequestStarts ==
  ASSUME LibraryTyped, ClientsTyped, NEW c \in Clients, Request(c)
  PROVE  LET a == client'[c].asset IN
         /\ asset' = asset /\ a \in Assets
         /\ Uploading(c)' => asset[a].status = "none" /\ a \notin files /\ a \in files'
         /\ client'[c].pc \in {"setWorkspace", "unpage", "erase"} => asset[a].status # "none"
         /\ client'[c].pc # "unlink"
  <1>1. ASSUME NEW op, NEW a, NEW to, NEW pc, Begin(c, op, a, to, pc)
        PROVE  client'[c].asset = a /\ client'[c].op = op /\ client'[c].pc = pc
    BY <1>1 DEF Begin, ClientsTyped
  <1>2. ASSUME NEW a \in Assets, NEW ws \in Workspaces, UploadBegin(c, a, ws)
        PROVE  /\ client'[c].asset = a /\ client'[c].pc = "checkDup" /\ asset' = asset
               /\ asset[a].status = "none" /\ a \notin files /\ a \in files'
    BY <1>1, <1>2 DEF UploadBegin, LibraryTyped
  <1>3. ASSUME NEW a \in Assets,
               \/ RetryBegin(c, a) \/ ReprocessBegin(c, a) \/ TrashBegin(c, a)
               \/ RestoreBegin(c, a) \/ PurgeBegin(c, a)
               \/ \E ws \in Workspaces : MoveBegin(c, a, ws)
        PROVE  /\ client'[c].asset = a /\ client'[c].op # "upload" /\ asset' = asset
               /\ asset[a].status # "none" /\ client'[c].pc # "unlink"
    BY <1>1, <1>3 DEF RetryBegin, ReprocessBegin, TrashBegin, RestoreBegin, PurgeBegin, MoveBegin,
       Live, Trashed, HasRow
  <1> QED BY <1>2, <1>3 DEF Request, Uploading

\* A request that is uploading after a step was so before, or has just begun.
LEMMA UploadsKept ==
  ASSUME IInv, Framed, NEW c \in Clients, Uploading(c)'
  PROVE  \/ /\ Uploading(c) /\ client'[c].asset = client[c].asset
            /\ ~UploadInsert(c) /\ ~UploadDuplicate(c)
         \/ Request(c)
  <1> ClientsTyped /\ ClientsWired
    BY DEF IInv, TypeOK
  <1>1. CASE client'[c] = client[c]
    <2>1. Uploading(c)
      BY <1>1 DEF Uploading
    <2>2. ASSUME UploadInsert(c) \/ UploadDuplicate(c)
          PROVE  client'[c].pc \in {"idle", "insertJob"}
      BY <2>2 DEF UploadInsert, UploadDuplicate, Reply, NextStep, NoRequest, ClientsTyped,
         RequestType
    <2> QED BY <1>1, <2>1, <2>2 DEF Uploading
  <1>2. CASE client'[c].pc = "idle"
    BY <1>2 DEF Uploading
  <1>3. CASE Handle(c) /\ client'[c].asset = client[c].asset
    BY <1>3, HandleMoves
  <1> QED BY <1>1, <1>2, <1>3, RequestMoves

\* A file is removed only by the upload that stored it or after its row is gone.
LEMMA FilesKept ==
  ASSUME IInv, Framed, NEW a \in files, a \notin files'
  PROVE  \E d \in Clients : /\ client[d].asset = a
                            /\ \/ Uploading(d) /\ UploadDuplicate(d)
                               \/ client[d].pc = "unlink"
  BY DEF Framed, FilesStep, UploadBegin, UploadDuplicate, PurgeFiles, Uploading

\* The rows and files that requests count on are still there.
LEMMA FoundedKept ==
  ASSUME IInv, Framed
  PROVE  RequestsFounded'
  <1> LibraryTyped /\ ClientsTyped /\ ClientsWired /\ RequestsFounded /\ UploadsApart
    BY DEF IInv, TypeOK
  <1>1. ASSUME NEW c \in Clients, Uploading(c)'
        PROVE  asset'[client'[c].asset].status = "none" /\ client'[c].asset \in files'
    <2>1. CASE Request(c)
      BY <1>1, <2>1, RequestStarts
    <2>2. CASE /\ Uploading(c) /\ client'[c].asset = client[c].asset
               /\ ~UploadInsert(c) /\ ~UploadDuplicate(c)
      <3> DEFINE a == client[c].asset
      <3>1. a \in Assets /\ asset[a].status = "none" /\ a \in files
        BY <2>2 DEF RequestsFounded, ClientsWired, Uploading
      <3>2. asset'[a].status = "none"
        BY <2>2, <3>1, RowMade DEF UploadsApart
      <3>3. a \in files'
        BY <2>2, <3>1, FilesKept DEF UploadsApart, RequestsFounded
      <3> QED BY <2>2, <3>2, <3>3
    <2> QED BY <1>1, <2>1, <2>2, UploadsKept
  <1>2. ASSUME NEW c \in Clients, client'[c].pc \in {"setWorkspace", "unpage", "erase"}
        PROVE  asset'[client'[c].asset].status # "none"
    <2>1. CASE Request(c)
      BY <1>2, <2>1, RequestStarts
    <2>2. CASE /\ client'[c].asset = client[c].asset
               /\ client[c].pc \in {"setWorkspace", "unpage", "erase"}
      BY <2>2, StatusKept DEF RequestsFounded, ClientsWired
    <2> QED BY <1>2, <2>1, <2>2, RequestMoves, HandleMoves
  <1>3. ASSUME NEW c \in Clients, client'[c].pc = "unlink"
        PROVE  asset'[client'[c].asset].status = "purged"
    <2>1. ~Request(c)
      BY <1>3, RequestStarts
    <2>2. CASE PurgeCommit(c) /\ client'[c].asset = client[c].asset
      BY <2>2 DEF PurgeCommit, ClientsWired, LibraryTyped, RowType
    <2>3. CASE client[c].pc = "unlink" /\ client'[c].asset = client[c].asset
      BY <2>3, StatusKept DEF RequestsFounded, ClientsWired
    <2> QED BY <1>3, <2>1, <2>2, <2>3, RequestMoves, HandleMoves
  <1> QED BY <1>1, <1>2, <1>3 DEF RequestsFounded, Uploading

\* Two uploads under way are for two assets.
LEMMA ApartKept ==
  ASSUME IInv, Framed
  PROVE  UploadsApart'
  <1> LibraryTyped /\ ClientsTyped /\ RequestsFounded /\ UploadsApart
    BY DEF IInv, TypeOK
  <1>1. ASSUME NEW c \in Clients, NEW d \in Clients, Uploading(c)', Uploading(d)', c # d,
               Request(c)
        PROVE  client'[c].asset # client'[d].asset
    <2>1. client'[d] = client[d]
      BY <1>1 DEF Request, UploadBegin, RetryBegin, ReprocessBegin, TrashBegin, RestoreBegin,
         PurgeBegin, MoveBegin, Begin, ClientsTyped
    <2>2. client[d].asset \in files
      BY <1>1, <2>1 DEF RequestsFounded, Uploading
    <2> QED BY <1>1, <2>1, <2>2, RequestStarts
  <1> QED BY <1>1, UploadsKept DEF UploadsApart

\* Every row keeps its file.
LEMMA BackedKept ==
  ASSUME IInv, FileBacked, Framed
  PROVE  FileBacked'
  <1> LibraryTyped /\ RequestsFounded
    BY DEF IInv, TypeOK
  <1> SUFFICES ASSUME NEW a \in Assets, asset'[a].status \notin {"none", "purged"}
               PROVE  a \in files'
    BY DEF FileBacked, HasRow
  <1>1. asset[a].status # "purged"
    BY StatusKept
  <1>2. CASE asset[a].status = "none"
    <2>1. PICK c \in Clients : Uploading(c) /\ client[c].asset = a /\ UploadInsert(c)
      BY <1>2, RowMade
    <2> QED BY <2>1 DEF RequestsFounded, UploadInsert
  <1>3. CASE HasRow(a)
    BY <1>3, FilesKept DEF FileBacked, RequestsFounded, HasRow
  <1> QED BY <1>1, <1>2, <1>3 DEF HasRow

-----------------------------------------------------------------------------
(* Types and files *)

\* The empty system satisfies the invariant.
LEMMA InitIInv == Init => IInv /\ FileBacked
  <1> SUFFICES ASSUME Init PROVE IInv /\ FileBacked
    OBVIOUS
  <1> USE PipelineAssumption, BullAssumption DEF Init
  <1>1. LibraryTyped /\ QueueTyped /\ IndexTyped /\ TimersTyped
    BY DEF LibraryTyped, QueueTyped, IndexTyped, TimersTyped, RowType, AssetStatus, JobType,
       JobStatus
  <1>2. TicketsTyped /\ TicketsWired
    BY DEF TicketsTyped, TicketsWired, TicketType, TicketStates, NoTicket
  <1>3. WorkersTyped /\ WorkersWired
    BY DEF WorkersTyped, WorkersWired, NoAttempt, AttemptType, WorkerPc
  <1>4. ClientsTyped /\ ClientsWired /\ RequestsFounded /\ UploadsApart
    BY DEF ClientsTyped, ClientsWired, RequestsFounded, UploadsApart, Uploading, NoRequest,
       RequestType, ClientPc
  <1>5. RowsPlaced /\ FileBacked
    BY DEF RowsPlaced, FileBacked, HasRow
  <1> QED BY <1>1, <1>2, <1>3, <1>4, <1>5 DEF IInv, TypeOK

\* The invariant is inductive.
LEMMA NextIInv == IInv /\ [Next]_vars => IInv'
  <1> SUFFICES ASSUME IInv, [Next]_vars PROVE IInv'
    OBVIOUS
  <1>1. Framed
    BY NextFramed
  <1>2. TicketsTyped'
    BY <1>1, TicketsKept DEF TicketsSound, TicketsTyped, Sound
  <1>3. RowsPlaced'
    BY <1>1, AssetMoves, MovedPlaced DEF IInv, TypeOK
  <1> QED BY <1>1, <1>2, <1>3, LibraryKept, QueueKept, IndexKept, TimersKept, TicketsWiredKept,
          WorkersKept, ClientsKept, FoundedKept, ApartKept DEF IInv, TypeOK

\* Every variable has its type in every reachable state, for any number of
\* slots, requests, assets and faults; in particular a ticket never exceeds the
\* attempts BullMQ was configured with.
THEOREM TypeCorrect == Spec => []TypeOK
  <1>1. IInv => TypeOK
    BY DEF IInv
  <1> QED BY <1>1, InitIInv, NextIInv, PTL DEF Spec

\* No row of assets ever loses its original file, whatever requests race and
\* whichever of them dies half-way.
THEOREM FilesStay == Spec => []FileBacked
  <1>1. IInv /\ FileBacked /\ [Next]_vars => FileBacked'
    BY NextFramed, BackedKept
  <1> QED BY <1>1, InitIInv, NextIInv, PTL DEF Spec

-----------------------------------------------------------------------------
(* Attempts, tickets and rows of jobs, seen one at a time                    *)

SlotAct(w) == Work(w) \/ AttemptFails(w) \/ LateError(w) \/ CatchFails(w) \/ Crash(w)

\* One step of processAsset that is neither its first nor its last.
Advances(w) ==
    /\ worker'[w].job = worker[w].job
    /\ worker'[w].asset = worker[w].asset
    /\ worker'[w].attempt = worker[w].attempt
    /\ ticket' = ticket
    /\ \/ worker[w].pc = "claim" /\ worker'[w].pc = "start" /\ Claim(w)
       \/ worker[w].pc = "claim" /\ worker'[w].pc = "return" /\ ClaimRefused(w)
       \/ worker[w].pc = "start" /\ worker'[w].pc = "parse" /\ StartJob(w)
       \/ worker[w].pc = "parse" /\ worker'[w].pc = "index" /\ Stage(w)
       \/ /\ worker[w].pc = "index" /\ worker'[w].pc = "index"
          /\ \E part \in Parts : IndexPart(w, part)
       \/ worker[w].pc = "index" /\ worker'[w].pc = "markReady" /\ Indexed(w)
       \/ worker[w].pc = "markReady" /\ worker'[w].pc = "markJob" /\ MarkReady(w)
       \/ worker[w].pc = "markJob" /\ worker'[w].pc = "audit" /\ MarkJobReady(w)
       \/ worker[w].pc = "audit" /\ worker'[w].pc = "return" /\ Audit(w)
       \/ /\ worker[w].pc \in {"start", "parse", "index", "markReady"}
          /\ worker'[w].pc = "caught" /\ AttemptFails(w)
       \/ worker[w].pc \in {"markJob", "audit"} /\ worker'[w].pc = "caught" /\ LateError(w)
       \/ worker[w].pc = "caught" /\ worker'[w].pc = "failJob" /\ FailAsset(w)
       \/ worker[w].pc = "failJob" /\ worker'[w].pc = "throw" /\ FailJob(w)
       \/ worker[w].pc \in {"caught", "failJob"} /\ worker'[w].pc = "throw" /\ CatchFails(w)

\* A slot takes a ticket.
Starts(w) == \E j \in JobIds :
    /\ Take(w, j)
    /\ worker'[w].pc = "claim" /\ worker'[w].job = j
    /\ worker'[w].asset = job[j].asset /\ worker'[w].attempt = ticket[j].made + 1

\* A slot is free again.
Ends(w) == (Return(w) \/ Rethrow(w) \/ Crash(w)) /\ worker'[w] = NoAttempt

\* A slot acts on its own record only.
LEMMA SlotsApart ==
  ASSUME WorkersTyped, NEW w \in Workers, NEW v \in Workers, v # w, SlotAct(w)
  PROVE  worker'[v] = worker[v]
  <1>1. ASSUME NEW r, worker' = [worker EXCEPT ![w] = r]
        PROVE  worker'[v] = worker[v]
    BY <1>1 DEF WorkersTyped
  <1>2. ASSUME NEW pc, Goto(w, pc)
        PROVE  worker'[v] = worker[v]
    BY <1>2 DEF WorkersTyped, Goto
  <1>3. ASSUME NEW part, IndexPart(w, part)
        PROVE  worker'[v] = worker[v]
    BY <1>3 DEF WorkersTyped, IndexPart
  <1>4. CASE Claim(w) \/ Stage(w) \/ AttemptFails(w)
    BY <1>4 DEF WorkersTyped, Claim, Stage, AttemptFails
  <1>5. CASE \/ \E j \in JobIds : Take(w, j)
             \/ Return(w) \/ Rethrow(w) \/ Crash(w)
    BY <1>1, <1>5 DEF Take, Return, Rethrow, Crash
  <1>6. CASE \/ ClaimRefused(w) \/ StartJob(w) \/ Indexed(w) \/ MarkReady(w) \/ MarkJobReady(w)
             \/ Audit(w) \/ FailAsset(w) \/ FailJob(w) \/ LateError(w) \/ CatchFails(w)
    BY <1>2, <1>6 DEF ClaimRefused, StartJob, Indexed, MarkReady, MarkJobReady, Audit, FailAsset,
       FailJob, LateError, CatchFails
  <1> QED BY <1>3, <1>4, <1>5, <1>6 DEF SlotAct, Work

\* Taking a ticket starts an attempt at its job.
LEMMA TakeStarts ==
  ASSUME WorkersTyped, NEW w \in Workers, NEW j \in JobIds, Take(w, j)
  PROVE  /\ worker'[w].pc = "claim" /\ worker'[w].job = j
         /\ worker'[w].asset = job[j].asset /\ worker'[w].attempt = ticket[j].made + 1
  <1> DEFINE r == [pc |-> "claim", job |-> j, asset |-> job[j].asset,
                   attempt |-> ticket[j].made + 1, ws |-> Nowhere, todo |-> {}]
  <1>1. /\ r.pc = "claim" /\ r.job = j
        /\ r.asset = job[j].asset /\ r.attempt = ticket[j].made + 1
    OBVIOUS
  <1>2. worker' = [worker EXCEPT ![w] = r]
    BY DEF Take
  <1> HIDE DEF r
  <1> QED BY <1>1, <1>2 DEF WorkersTyped

\* What a step may do to a slot: nothing, start, advance or end an attempt.
LEMMA SlotMoves ==
  ASSUME IInv, Framed, NEW w \in Workers
  PROVE  worker'[w] = worker[w] \/ Starts(w) \/ Advances(w) \/ Ends(w)
  <1> WorkersTyped
    BY DEF IInv, TypeOK
  <1>1. ASSUME NEW pc, Goto(w, pc)
        PROVE  /\ worker'[w].job = worker[w].job /\ worker'[w].asset = worker[w].asset
               /\ worker'[w].attempt = worker[w].attempt /\ worker'[w].pc = pc
    BY <1>1 DEF Goto, WorkersTyped, AttemptType
  <1>2. CASE Claim(w) \/ Stage(w) \/ AttemptFails(w)
    <2>1. ASSUME NEW pc, NEW ws, worker' = [worker EXCEPT ![w] = [@ EXCEPT !.pc = pc, !.ws = ws]]
          PROVE  /\ worker'[w].job = worker[w].job /\ worker'[w].asset = worker[w].asset
                 /\ worker'[w].attempt = worker[w].attempt /\ worker'[w].pc = pc
      BY <2>1 DEF WorkersTyped, AttemptType
    <2>2. ASSUME NEW pc, NEW ws, NEW todo,
                 worker' = [worker EXCEPT ![w] = [@ EXCEPT !.pc = pc, !.todo = todo, !.ws = ws]]
          PROVE  /\ worker'[w].job = worker[w].job /\ worker'[w].asset = worker[w].asset
                 /\ worker'[w].attempt = worker[w].attempt /\ worker'[w].pc = pc
      BY <2>2 DEF WorkersTyped, AttemptType
    <2>3. ASSUME NEW pc, NEW todo,
                 worker' = [worker EXCEPT ![w] = [@ EXCEPT !.pc = pc, !.todo = todo]]
          PROVE  /\ worker'[w].job = worker[w].job /\ worker'[w].asset = worker[w].asset
                 /\ worker'[w].attempt = worker[w].attempt /\ worker'[w].pc = pc
      BY <2>3 DEF WorkersTyped, AttemptType
    <2>4. CASE Claim(w)
      BY <2>1, <2>4 DEF Advances, Claim
    <2>5. CASE Stage(w)
      BY <2>2, <2>5 DEF Advances, Stage
    <2>6. CASE AttemptFails(w)
      BY <2>3, <2>6 DEF Advances, AttemptFails
    <2> QED BY <1>2, <2>4, <2>5, <2>6
  <1>3. ASSUME NEW part \in Parts, IndexPart(w, part)
        PROVE  Advances(w)
    BY <1>3 DEF Advances, IndexPart, WorkersTyped, AttemptType
  <1>4. CASE \/ ClaimRefused(w) \/ StartJob(w) \/ Indexed(w) \/ MarkReady(w) \/ MarkJobReady(w)
             \/ Audit(w) \/ FailAsset(w) \/ FailJob(w) \/ LateError(w) \/ CatchFails(w)
    BY <1>1, <1>4 DEF Advances, ClaimRefused, StartJob, Indexed, MarkReady, MarkJobReady, Audit,
       FailAsset, FailJob, LateError, CatchFails
  <1>5. ASSUME NEW j \in JobIds, Take(w, j)
        PROVE  Starts(w)
    BY <1>5, TakeStarts DEF Starts
  <1>6. CASE Return(w) \/ Rethrow(w) \/ Crash(w)
    BY <1>6 DEF Ends, Return, Rethrow, Crash, WorkersTyped
  <1>7. CASE SlotAct(w)
    BY <1>7, <1>2, <1>3, <1>4, <1>5, <1>6 DEF SlotAct, Work
  <1>8. worker' = worker \/ \E v \in Workers : SlotAct(v)
    BY DEF Framed, SlotStep, SlotAct
  <1> QED BY <1>7, <1>8, SlotsApart

\* What a step may do to a ticket.
LEMMA TicketMoves ==
  ASSUME IInv, Framed, NEW j \in JobIds
  PROVE  \/ ticket'[j] = ticket[j]
         \/ \E w \in Workers : Take(w, j) /\ ticket'[j] = Taken(ticket[j], w)
         \/ \E w \in Workers :
               /\ worker[w].job = j
               /\ \/ Return(w) /\ ticket'[j] = Completed(ticket[j], w)
                  \/ Rethrow(w) /\ ticket'[j] = Thrown(ticket[j], w)
                  \/ Crash(w) /\ ticket'[j] = Abandoned(ticket[j], w)
         \/ \E a \in Assets : /\ Dispatch(a) /\ IsLatest(j, QueuedJobs(a))
                              /\ ticket'[j] = Added(ticket[j])
         \/ StallCheck(j) /\ ticket'[j] = Stalled(ticket[j])
         \/ Evict(j) /\ ticket'[j] = NoTicket
         \/ RedisLoss /\ ticket'[j] = NoTicket
  <1> TicketsTyped
    BY DEF IInv, TypeOK
  <1>1. ASSUME NEW k, NEW t, ticket' = [ticket EXCEPT ![k] = t]
        PROVE  \/ ticket'[j] = ticket[j]
               \/ j = k /\ ticket'[j] = t
    BY <1>1 DEF TicketsTyped
  <1>2. CASE ticket' = ticket
    BY <1>2
  <1>3. ASSUME NEW w \in Workers, NEW k \in JobIds, Take(w, k)
        PROVE  \/ ticket'[j] = ticket[j]
               \/ Take(w, j) /\ ticket'[j] = Taken(ticket[j], w)
    <2>1. ticket' = [ticket EXCEPT ![k] = Taken(ticket[k], w)]
      BY <1>3 DEF Take
    <2> QED BY <1>1, <1>3, <2>1
  <1>4. ASSUME NEW w \in Workers, Return(w) \/ Rethrow(w) \/ Crash(w), ticket'[j] # ticket[j]
        PROVE  /\ worker[w].job = j
               /\ \/ Return(w) /\ ticket'[j] = Completed(ticket[j], w)
                  \/ Rethrow(w) /\ ticket'[j] = Thrown(ticket[j], w)
                  \/ Crash(w) /\ ticket'[j] = Abandoned(ticket[j], w)
    <2> DEFINE k == worker[w].job
    <2>1. CASE Return(w)
      <3>1. ticket' = [ticket EXCEPT ![k] = Completed(ticket[k], w)]
        BY <2>1 DEF Return
      <3> QED BY <1>1, <1>4, <2>1, <3>1
    <2>2. CASE Rethrow(w)
      <3>1. ticket' = [ticket EXCEPT ![k] = Thrown(ticket[k], w)]
        BY <2>2 DEF Rethrow
      <3> QED BY <1>1, <1>4, <2>2, <3>1
    <2>3. CASE Crash(w)
      <3>1. ticket' = [ticket EXCEPT ![k] = Abandoned(ticket[k], w)]
        BY <2>3 DEF Crash
      <3> QED BY <1>1, <1>4, <2>3, <3>1
    <2> QED BY <1>4, <2>1, <2>2, <2>3
  <1>5. CASE \E a \in Assets : Dispatch(a)
    BY <1>1, <1>5 DEF Dispatch
  <1>6. CASE \E k \in JobIds : StallCheck(k) \/ Evict(k)
    BY <1>1, <1>6 DEF StallCheck, Evict
  <1>7. CASE RedisLoss
    BY <1>7 DEF RedisLoss
  <1> QED BY <1>2, <1>3, <1>4, <1>5, <1>6, <1>7 DEF Framed, TicketStep

\* What a step may do to a row of jobs.
LEMMA JobMoves ==
  ASSUME IInv, Framed, NEW j \in JobIds
  PROVE  \/ job'[j] = job[j]
         \/ /\ job'[j].asset = job[j].asset
            /\ \/ \E w \in Workers :
                     /\ worker[w].job = j /\ job[j].status \in {"queued", "running"}
                     /\ \/ StartJob(w) /\ job'[j].status = "running"
                        \/ MarkJobReady(w) /\ job'[j].status = "ready"
                        \/ FailJob(w) /\ job'[j].status \in {"queued", "failed"}
               \/ SweepJobs /\ job[j].status = "running" /\ job'[j].status = "queued"
               \/ \E c \in Clients : /\ TrashCommit(c) \/ PurgeCommit(c)
                                     /\ client[c].asset = job[j].asset
                                     /\ job'[j].status = "none"
         \/ \E c \in Clients : /\ InsertJob(c) /\ j = jobs + 1 /\ jobs' = jobs + 1
                               /\ job'[j].asset = client[c].asset /\ job'[j].status = "queued"
  <1> QueueTyped
    BY DEF IInv, TypeOK
  <1>1. ASSUME NEW k, NEW s, job' = [job EXCEPT ![k].status = s]
        PROVE  job'[j] = job[j] \/ /\ j = k /\ job'[j].asset = job[j].asset
                                   /\ job'[j].status = s
    BY <1>1 DEF QueueTyped, JobType
  <1>2. CASE UNCHANGED <<job, jobs>>
    BY <1>2
  <1>3. ASSUME NEW w \in Workers, StartJob(w) \/ MarkJobReady(w) \/ FailJob(w),
               job'[j] # job[j]
        PROVE  /\ job'[j].asset = job[j].asset
               /\ worker[w].job = j /\ job[j].status \in {"queued", "running"}
               /\ \/ StartJob(w) /\ job'[j].status = "running"
                  \/ MarkJobReady(w) /\ job'[j].status = "ready"
                  \/ FailJob(w) /\ job'[j].status \in {"queued", "failed"}
    <2>1. CASE StartJob(w)
      BY <1>1, <1>3, <2>1 DEF StartJob
    <2>2. CASE MarkJobReady(w)
      BY <1>1, <1>3, <2>2 DEF MarkJobReady
    <2>3. CASE FailJob(w)
      BY <1>1, <1>3, <2>3 DEF FailJob, FailureStatus
    <2> QED BY <1>3, <2>1, <2>2, <2>3
  <1>4. CASE SweepJobs
    <2>1. \/ job'[j] = job[j]
          \/ job[j].status = "running" /\ job'[j] = [job[j] EXCEPT !.status = "queued"]
      BY <1>4 DEF SweepJobs
    <2> QED BY <1>4, <2>1 DEF QueueTyped, JobType
  <1>5. ASSUME NEW c \in Clients, TrashCommit(c) \/ PurgeCommit(c)
        PROVE  \/ job'[j] = job[j]
               \/ /\ client[c].asset = job[j].asset /\ job'[j].asset = job[j].asset
                  /\ job'[j].status = "none"
    <2>1. DropJobs(client[c].asset)
      BY <1>5 DEF TrashCommit, PurgeCommit
    <2>2. \/ job'[j] = job[j]
          \/ job[j].asset = client[c].asset /\ job'[j] = [job[j] EXCEPT !.status = "none"]
      BY <2>1 DEF DropJobs
    <2> QED BY <2>2 DEF QueueTyped, JobType
  <1>6. ASSUME NEW c \in Clients, InsertJob(c), job'[j] # job[j]
        PROVE  /\ j = jobs + 1 /\ jobs' = jobs + 1
               /\ job'[j].asset = client[c].asset /\ job'[j].status = "queued"
    <2> DEFINE r == [asset |-> client[c].asset, status |-> "queued"]
    <2>1. r.asset = client[c].asset /\ r.status = "queued"
      OBVIOUS
    <2>2. job' = [job EXCEPT ![jobs + 1] = r] /\ jobs' = jobs + 1
      BY <1>6 DEF InsertJob
    <2> HIDE DEF r
    <2> QED BY <1>6, <2>1, <2>2 DEF QueueTyped
  <1> QED BY <1>2, <1>3, <1>4, <1>5, <1>6 DEF Framed, QueueStep

\* Nothing of these kinds has struck, and nothing of them can.
Spared(kinds) == faults = 0 \/ kinds \cap Faults = {}

\* A step after which the system is spared is none of those faults, and starts
\* from a state that was.
LEMMA SparedSteps ==
  ASSUME IInv, Framed, NEW kinds, Spared(kinds)'
  PROVE  /\ Spared(kinds)
         /\ \A kind \in kinds : ~Strike(kind)
  <1>1. faults \in Nat
    BY PipelineAssumption DEF IInv, TypeOK, TimersTyped
  <1> QED BY <1>1 DEF Framed, Spared, Strike

-----------------------------------------------------------------------------
(* Which attempt is of which row of jobs *)

\* Rows of jobs not inserted yet are blank and have no ticket; an attempt is of
\* a row that was inserted, and of its asset.
JobsFresh ==
    \A j \in JobIds : j > jobs => job[j].status = "none" /\ ticket[j].state = "absent"

AttemptsWired ==
    \A w \in Workers : worker[w].pc # "idle" =>
        /\ worker[w].job \in 1 .. jobs
        /\ worker[w].asset = job[worker[w].job].asset

\* A row that was inserted keeps its asset, and none is taken back.
LEMMA JobAssetsKept ==
  ASSUME IInv, Framed
  PROVE  /\ jobs \in Nat /\ jobs' \in Nat /\ jobs =< jobs' /\ jobs' =< MaxJobs
         /\ \A j \in 1 .. jobs : j \in JobIds /\ job'[j].asset = job[j].asset
  <1>1. jobs \in Nat /\ jobs =< MaxJobs
    BY PipelineAssumption DEF IInv, TypeOK, QueueTyped
  <1>2. jobs' = jobs \/ (jobs' = jobs + 1 /\ jobs < MaxJobs)
    BY DEF Framed, QueueStep, StartJob, MarkJobReady, FailJob, SweepJobs, InsertJob, TrashCommit,
       PurgeCommit
  <1>3. ASSUME NEW j \in 1 .. jobs
        PROVE  job'[j].asset = job[j].asset
    <2>1. j \in JobIds /\ j # jobs + 1
      BY <1>1, <1>3, PipelineAssumption
    <2> QED BY <2>1, JobMoves
  <1> QED BY <1>1, <1>2, <1>3, PipelineAssumption

\* Rows to come stay blank.
LEMMA FreshKept ==
  ASSUME IInv, JobsFresh, Framed
  PROVE  JobsFresh'
  <1> SUFFICES ASSUME NEW j \in JobIds, j > jobs'
               PROVE  job'[j].status = "none" /\ ticket'[j].state = "absent"
    BY DEF JobsFresh
  <1>1. j > jobs /\ j \in Nat
    BY JobAssetsKept
  <1>2. job[j].status = "none" /\ ticket[j].state = "absent"
    BY <1>1 DEF JobsFresh
  <1>3. jobs \in Nat /\ ~(j = jobs + 1 /\ jobs' = jobs + 1)
    BY <1>1, JobAssetsKept
  <1>4. job'[j].status = "none"
    BY <1>2, <1>3, JobMoves
  <1>5. /\ ~\E w \in Workers : Take(w, j)
        /\ ~StallCheck(j) /\ ~Evict(j)
        /\ ~\E a \in Assets : IsLatest(j, QueuedJobs(a))
    BY <1>2 DEF Take, StallCheck, LockRunsOut, Evict, IsLatest, QueuedJobs
  <1>6. ASSUME NEW w \in Workers
        PROVE  /\ Completed(ticket[j], w) = ticket[j]
               /\ Thrown(ticket[j], w) = ticket[j]
               /\ Abandoned(ticket[j], w) = ticket[j]
    BY <1>2 DEF Completed, Thrown, Abandoned, HeldBy
  <1>7. NoTicket.state = "absent"
    BY DEF NoTicket
  <1>8. ticket'[j].state = "absent"
    BY <1>2, <1>5, <1>6, <1>7, TicketMoves
  <1> QED BY <1>4, <1>8

\* Attempts stay wired to their rows.
LEMMA AttemptsKept ==
  ASSUME IInv, JobsFresh, AttemptsWired, Framed
  PROVE  AttemptsWired'
  <1> SUFFICES ASSUME NEW w \in Workers, worker'[w].pc # "idle"
               PROVE  worker'[w].job \in 1 .. jobs' /\ worker'[w].asset = job'[worker'[w].job].asset
    BY DEF AttemptsWired
  <1>1. CASE worker'[w] = worker[w] \/ Advances(w)
    <2>1. /\ worker[w].pc # "idle"
          /\ worker'[w].job = worker[w].job /\ worker'[w].asset = worker[w].asset
      BY <1>1 DEF Advances
    <2> QED BY <2>1, JobAssetsKept DEF AttemptsWired
  <1>2. CASE Starts(w)
    <2>1. PICK j \in JobIds : /\ ticket[j].state = "wait" /\ worker'[w].job = j
                              /\ worker'[w].asset = job[j].asset
      BY <1>2 DEF Starts, Take
    <2>2. j \in 1 .. jobs
      BY <2>1, JobAssetsKept DEF JobsFresh
    <2> QED BY <2>1, <2>2, JobAssetsKept
  <1>3. CASE Ends(w)
    BY <1>3 DEF Ends, NoAttempt
  <1> QED BY <1>1, <1>2, <1>3, SlotMoves

\* IInv with this wiring.
WInv == IInv /\ JobsFresh /\ AttemptsWired

\* It holds of the empty system, with every slot idle.
LEMMA InitWInv == Init => WInv
  BY InitIInv DEF Init, WInv, JobsFresh, AttemptsWired, NoTicket, NoAttempt

\* Every step keeps it, whatever fault the step is.
LEMMA NextWInv == WInv /\ [Next]_vars => WInv'
  BY NextFramed, NextIInv, FreshKept, AttemptsKept DEF WInv

-----------------------------------------------------------------------------
(* A running row has a slot *)

\* Where an attempt still answers for its row of jobs.
Answering == {"parse", "index", "markReady", "markJob", "caught", "failJob"}

RunningAnswered ==
    \A j \in JobIds : job[j].status = "running" =>
        \E w \in Workers : worker[w].job = j /\ worker[w].pc \in Answering

\* An attempt that answers for a row either goes on doing so or settles the row.
LEMMA AnsweringMoves ==
  ASSUME WInv, Framed, Spared({"crash", "dbDown"})', NEW w \in Workers,
         worker[w].pc \in Answering
  PROVE  \/ worker'[w].job = worker[w].job /\ worker'[w].pc \in Answering
         \/ job'[worker[w].job].status # "running"
  <1> IInv /\ QueueTyped /\ AttemptsWired
    BY DEF WInv, IInv, TypeOK
  <1>1. ~Strike("crash") /\ ~Strike("dbDown")
    BY SparedSteps
  <1>2. worker[w].job \in JobIds
    BY JobAssetsKept DEF AttemptsWired, Answering
  <1>3. CASE worker'[w] = worker[w]
    BY <1>3
  <1>4. ~Starts(w)
    BY DEF Starts, Take, Answering
  <1>5. ~Ends(w)
    BY <1>1 DEF Ends, Return, Rethrow, Crash, Answering
  <1>6. CASE Advances(w) /\ MarkJobReady(w)
    BY <1>2, <1>6 DEF MarkJobReady, QueueTyped, JobType
  <1>7. CASE Advances(w) /\ FailJob(w)
    BY <1>2, <1>7 DEF FailJob, FailureStatus, QueueTyped, JobType
  <1>8. CASE Advances(w) /\ ~MarkJobReady(w) /\ ~FailJob(w)
    BY <1>1, <1>8 DEF Advances, Answering, CatchFails
  <1> QED BY <1>3, <1>4, <1>5, <1>6, <1>7, <1>8, SlotMoves

\* A row that comes to run is answered for by the slot that started it, and
\* one that goes on running is still answered for.
LEMMA AnsweredKept ==
  ASSUME WInv, RunningAnswered, Framed, Spared({"crash", "dbDown"})'
  PROVE  RunningAnswered'
  <1> IInv /\ WorkersTyped
    BY DEF WInv, IInv, TypeOK
  <1> SUFFICES ASSUME NEW j \in JobIds, job'[j].status = "running"
               PROVE  \E w \in Workers : worker'[w].job = j /\ worker'[w].pc \in Answering
    BY DEF RunningAnswered
  <1>1. CASE job[j].status = "running"
    <2>1. PICK w \in Workers : worker[w].job = j /\ worker[w].pc \in Answering
      BY <1>1 DEF RunningAnswered
    <2>2. \/ worker'[w].job = worker[w].job /\ worker'[w].pc \in Answering
          \/ job'[worker[w].job].status # "running"
      BY <2>1, AnsweringMoves
    <2> QED BY <2>1, <2>2
  <1>2. CASE job[j].status # "running"
    <2>1. PICK w \in Workers : worker[w].job = j /\ StartJob(w)
      BY <1>2, JobMoves
    <2>2. worker'[w].job = j /\ worker'[w].pc = "parse"
      BY <2>1 DEF StartJob, Goto, WorkersTyped, AttemptType
    <2> QED BY <2>2 DEF Answering
  <1> QED BY <1>1, <1>2

\* A row of jobs says "running" only while a slot works on it, for as long as no
\* process dies and the database answers the catch block of processAsset: other
\* faults, stalls and late sweeps do not leave a row running.
THEOREM RunningIsWorkedOn == Spec => [](Spared({"crash", "dbDown"}) => RunningHasWorker)
  <1> DEFINE Inv == WInv /\ (Spared({"crash", "dbDown"}) => RunningAnswered)
  <1>1. Init => Inv
    BY InitWInv DEF Init, RunningAnswered
  <1>2. Inv /\ [Next]_vars => Inv'
    <2> SUFFICES ASSUME Inv, [Next]_vars PROVE Inv'
      OBVIOUS
    <2>1. Framed
      BY NextFramed
    <2>2. Spared({"crash", "dbDown"})' => Spared({"crash", "dbDown"})
      BY <2>1, SparedSteps DEF WInv
    <2>3. Spared({"crash", "dbDown"})' => RunningAnswered'
      BY <2>1, <2>2, AnsweredKept
    <2> QED BY <2>3, NextWInv
  <1>3. Inv => (Spared({"crash", "dbDown"}) => RunningHasWorker)
    BY DEF RunningAnswered, RunningHasWorker, Answering
  <1> QED BY <1>1, <1>2, <1>3, PTL DEF Spec

-----------------------------------------------------------------------------
(* Attempts hold their tickets *)

HoldsTicket(w) ==
    /\ HeldBy(ticket[worker[w].job], w)
    /\ worker[w].attempt = ticket[worker[w].job].made + 1

\* Every attempt holds its ticket and counts as BullMQ does, and no ticket is
\* active without an attempt that renews its lock.
TicketsHeld ==
    /\ \A w \in Workers : worker[w].pc # "idle" => HoldsTicket(w)
    /\ \A j \in JobIds : ~LockRunsOut(ticket[j])

\* A held ticket is let go by its holder only.
LEMMA HeldTicketMoves ==
  ASSUME WInv, TicketsHeld, Framed, Spared({"crash", "redisLoss"})',
         NEW w \in Workers, worker[w].pc # "idle"
  PROVE  \/ ticket'[worker[w].job] = ticket[worker[w].job]
         \/ Return(w) \/ Rethrow(w)
  <1> DEFINE j == worker[w].job
  <1> IInv /\ AttemptsWired
    BY DEF WInv
  <1>1. ~Strike("crash") /\ ~Strike("redisLoss")
    BY SparedSteps
  <1>2. j \in JobIds /\ HeldBy(ticket[j], w)
    BY JobAssetsKept DEF AttemptsWired, TicketsHeld, HoldsTicket
  <1>3. ASSUME NEW v \in Workers, worker[v].job = j, worker[v].pc # "idle"
        PROVE  v = w
    BY <1>2, <1>3 DEF TicketsHeld, HoldsTicket, HeldBy
  <1>4. ~\E v \in Workers : Take(v, j)
    BY <1>2 DEF Take, HeldBy
  <1>5. Added(ticket[j]) = ticket[j]
    BY <1>2 DEF Added, HeldBy
  <1>6. ~StallCheck(j) /\ ~Evict(j) /\ ~RedisLoss /\ ~\E v \in Workers : Crash(v)
    BY <1>1, <1>2 DEF StallCheck, Evict, RedisLoss, Crash, HeldBy, TicketsHeld
  <1>7. ASSUME NEW v \in Workers, worker[v].job = j, Return(v) \/ Rethrow(v)
        PROVE  v = w
    BY <1>3, <1>7 DEF Return, Rethrow
  <1> QED BY <1>2, <1>4, <1>5, <1>6, <1>7, TicketMoves

\* Attempts keep their tickets to their end.
LEMMA HeldKept ==
  ASSUME WInv, TicketsHeld, Framed, Spared({"crash", "redisLoss"})'
  PROVE  TicketsHeld'
  <1> IInv /\ AttemptsWired /\ TicketsTyped /\ WorkersTyped
    BY DEF WInv, IInv, TypeOK
  <1>1. ~Strike("crash") /\ ~Strike("redisLoss")
    BY SparedSteps
  <1>2. ASSUME NEW w \in Workers, worker'[w].pc # "idle"
        PROVE  HoldsTicket(w)'
    <2>1. ~Ends(w)
      BY <1>2 DEF Ends, NoAttempt
    <2>2. CASE Starts(w)
      <3>1. PICK j \in JobIds : /\ Take(w, j) /\ worker'[w].job = j
                                /\ worker'[w].attempt = ticket[j].made + 1
        BY <2>2 DEF Starts
      <3>2. ticket'[j] = Taken(ticket[j], w)
        BY <3>1 DEF Take, TicketsTyped
      <3>3. HeldBy(ticket'[j], w) /\ ticket'[j].made = ticket[j].made
        BY <3>2 DEF Taken, HeldBy, TicketsTyped, TicketType
      <3> QED BY <3>1, <3>3 DEF HoldsTicket
    <2>3. CASE worker'[w] = worker[w] \/ Advances(w)
      <3>1. /\ worker[w].pc # "idle" /\ worker'[w].job = worker[w].job
            /\ worker'[w].attempt = worker[w].attempt
        BY <1>2, <2>3 DEF Advances
      <3>2. ~Return(w) /\ ~Rethrow(w)
        BY <1>2, <2>3 DEF Advances, Return, Rethrow, NoAttempt, WorkersTyped
      <3>3. ticket'[worker[w].job] = ticket[worker[w].job]
        BY <3>1, <3>2, HeldTicketMoves
      <3> QED BY <3>1, <3>3 DEF HoldsTicket, TicketsHeld
    <2> QED BY <2>1, <2>2, <2>3, SlotMoves
  <1>3. ASSUME NEW j \in JobIds
        PROVE  ~LockRunsOut(ticket'[j])
    <2>1. ~LockRunsOut(ticket[j]) /\ ticket[j] \in TicketType(Workers)
      BY DEF TicketsHeld, TicketsTyped
    <2>2. ASSUME NEW w \in Workers
          PROVE  /\ ~LockRunsOut(Taken(ticket[j], w))
                 /\ ~LockRunsOut(Completed(ticket[j], w))
                 /\ ~LockRunsOut(Thrown(ticket[j], w))
      BY <2>1, PipelineAssumption DEF LockRunsOut, Taken, Completed, Thrown, TicketType
    <2>3. ~LockRunsOut(Added(ticket[j])) /\ ~LockRunsOut(NoTicket)
      BY <2>1 DEF LockRunsOut, Added, NoTicket
    <2>4. ~StallCheck(j) /\ ~RedisLoss /\ ~\E v \in Workers : Crash(v)
      BY <1>1, <2>1 DEF StallCheck, RedisLoss, Crash
    <2> QED BY <2>1, <2>2, <2>3, <2>4, TicketMoves
  <1> QED BY <1>2, <1>3 DEF TicketsHeld

-----------------------------------------------------------------------------
(* The status of one asset *)

\* The status a step of processAsset writes.
LEMMA SetStatusMoves ==
  ASSUME LibraryTyped, NEW a \in Assets, NEW b \in Assets, NEW s, SetStatus(b, s)
  PROVE  /\ asset'[a].trashed = asset[a].trashed
         /\ \/ asset'[a].status = asset[a].status
            \/ a = b /\ HasRow(a) /\ asset'[a].status = s
  <1>1. CASE HasRow(b)
    <2>1. asset' = [asset EXCEPT ![b].status = s]
      BY <1>1 DEF SetStatus
    <2> QED BY <1>1, <2>1 DEF LibraryTyped, RowType
  <1>2. CASE ~HasRow(b)
    BY <1>2 DEF SetStatus
  <1> QED BY <1>1, <1>2

\* What a step may do to the status of an asset and to its place in the trash.
LEMMA StatusMoves ==
  ASSUME IInv, Framed, NEW a \in Assets
  PROVE  \/ /\ asset'[a].status = asset[a].status
            /\ asset'[a].trashed = asset[a].trashed
         \/ /\ asset'[a].trashed = asset[a].trashed /\ HasRow(a)
            /\ \/ \E w \in Workers :
                     /\ worker[w].asset = a
                     /\ \/ Claim(w) /\ asset'[a].status = "indexing"
                        \/ MarkReady(w) /\ asset'[a].status = "ready"
                        \/ FailAsset(w) /\ asset'[a].status = FailureStatus(w)
               \/ /\ SweepAssets
                  /\ asset[a].status = "indexing" /\ asset'[a].status = "queued"
               \/ \E c \in Clients : /\ client[c].asset = a
                                     /\ Requeue(c) /\ asset'[a].status = "queued"
         \/ \E c \in Clients :
               /\ client[c].asset = a
               /\ \/ /\ UploadInsert(c) \/ Restore(c)
                     /\ NextStep(c, "insertJob")
                     /\ asset'[a].status = "queued" /\ ~asset'[a].trashed
                  \/ TrashCommit(c) /\ asset'[a].trashed
                  \/ PurgeCommit(c) /\ asset'[a].status = "purged"
  <1> LibraryTyped /\ WorkersWired /\ ClientsTyped /\ ClientsWired
    BY DEF IInv, TypeOK
  <1>1. CASE asset' = asset
    BY <1>1
  <1>2. ASSUME NEW w \in Workers, Claim(w) \/ MarkReady(w) \/ FailAsset(w),
               asset'[a].status # asset[a].status \/ asset'[a].trashed # asset[a].trashed
        PROVE  /\ asset'[a].trashed = asset[a].trashed /\ HasRow(a)
               /\ worker[w].asset = a
               /\ \/ Claim(w) /\ asset'[a].status = "indexing"
                  \/ MarkReady(w) /\ asset'[a].status = "ready"
                  \/ FailAsset(w) /\ asset'[a].status = FailureStatus(w)
    <2>1. worker[w].asset \in Assets
      BY <1>2 DEF Claim, MarkReady, FailAsset, WorkersWired
    <2>2. CASE Claim(w)
      BY <1>2, <2>1, <2>2, SetStatusMoves DEF Claim
    <2>3. CASE MarkReady(w)
      BY <1>2, <2>1, <2>3, SetStatusMoves DEF MarkReady
    <2>4. CASE FailAsset(w)
      BY <1>2, <2>1, <2>4, SetStatusMoves DEF FailAsset
    <2> QED BY <1>2, <2>2, <2>3, <2>4
  <1>3. CASE SweepAssets
    <2>1. \/ asset'[a] = asset[a]
          \/ asset[a].status = "indexing" /\ asset'[a] = [asset[a] EXCEPT !.status = "queued"]
      BY <1>3 DEF SweepAssets
    <2>2. \/ asset'[a] = asset[a]
          \/ /\ asset[a].status = "indexing" /\ asset'[a].status = "queued"
             /\ asset'[a].trashed = asset[a].trashed
      BY <2>1 DEF LibraryTyped, RowType
    <2> QED BY <1>3, <2>2 DEF HasRow
  <1>4. ASSUME NEW c \in Clients, Requeue(c)
        PROVE  /\ asset'[a].trashed = asset[a].trashed
               /\ \/ asset'[a].status = asset[a].status
                  \/ HasRow(a) /\ client[c].asset = a /\ asset'[a].status = "queued"
    <2>1. client[c].asset \in Assets /\ SetStatus(client[c].asset, "queued")
      BY <1>4 DEF Requeue, ClientsWired
    <2> QED BY <2>1, SetStatusMoves
  <1>5. ASSUME NEW b \in Assets, NEW r \in RowType, Replaced(b, r)
        PROVE  \/ a # b /\ asset'[a] = asset[a]
               \/ a = b /\ asset'[a] = r
    BY <1>5 DEF Replaced, LibraryTyped
  <1>6. ASSUME NEW c \in Clients, UploadInsert(c),
               asset'[a].status # asset[a].status \/ asset'[a].trashed # asset[a].trashed
        PROVE  /\ client[c].asset = a /\ NextStep(c, "insertJob")
               /\ asset'[a].status = "queued" /\ ~asset'[a].trashed
    <2> DEFINE r == [status |-> "queued", trashed |-> FALSE, ws |-> client[c].to]
    <2>1. r.status = "queued" /\ ~r.trashed
      OBVIOUS
    <2>2. Replaced(client[c].asset, r) /\ NextStep(c, "insertJob")
      BY <1>6, InsertReplaces DEF UploadInsert
    <2> HIDE DEF r
    <2> QED BY <1>5, <1>6, <2>1, <2>2 DEF Replaced
  <1>7. ASSUME NEW c \in Clients, MoveWorkspace(c)
        PROVE  asset'[a].status = asset[a].status /\ asset'[a].trashed = asset[a].trashed
    BY <1>7 DEF MoveWorkspace, LibraryTyped, RowType
  <1>8. ASSUME NEW c \in Clients, TrashCommit(c),
               asset'[a].status # asset[a].status \/ asset'[a].trashed # asset[a].trashed
        PROVE  client[c].asset = a /\ asset'[a].trashed
    <2> DEFINE b == client[c].asset
               r == [asset[b] EXCEPT !.status = "deleted", !.trashed = TRUE]
    <2>1. Replaced(b, r)
      BY <1>8, TrashReplaces
    <2>2. r.trashed
      BY <2>1 DEF Replaced, LibraryTyped, RowType
    <2> HIDE DEF r
    <2> QED BY <1>5, <1>8, <2>1, <2>2 DEF Replaced
  <1>9. ASSUME NEW c \in Clients, Restore(c),
               asset'[a].status # asset[a].status \/ asset'[a].trashed # asset[a].trashed
        PROVE  /\ client[c].asset = a /\ NextStep(c, "insertJob")
               /\ asset'[a].status = "queued" /\ ~asset'[a].trashed
    <2> DEFINE b == client[c].asset
               r == [asset[b] EXCEPT !.status = "queued", !.trashed = FALSE]
    <2>1. Replaced(b, r) /\ NextStep(c, "insertJob")
      BY <1>9, RestoreReplaces DEF Restore
    <2>2. r.status = "queued" /\ ~r.trashed
      BY <2>1 DEF Replaced, LibraryTyped, RowType
    <2> HIDE DEF r
    <2> QED BY <1>5, <1>9, <2>1, <2>2 DEF Replaced
  <1>10. ASSUME NEW c \in Clients, PurgeCommit(c),
                asset'[a].status # asset[a].status \/ asset'[a].trashed # asset[a].trashed
         PROVE  client[c].asset = a /\ asset'[a].status = "purged"
    <2> DEFINE b == client[c].asset
               r == [asset[b] EXCEPT !.status = "purged"]
    <2>1. Replaced(b, r)
      BY <1>10, PurgeReplaces
    <2>2. r.status = "purged"
      BY <2>1 DEF Replaced, LibraryTyped, RowType
    <2> HIDE DEF r
    <2> QED BY <1>5, <1>10, <2>1, <2>2 DEF Replaced
  <1> QED BY <1>1, <1>2, <1>3, <1>4, <1>6, <1>7, <1>8, <1>9, <1>10 DEF Framed, AssetStep

\* A request that is about to insert a job goes on, does so or dies.
LEMMA InsertingMoves ==
  ASSUME IInv, Framed, NEW c \in Clients, client[c].pc = "insertJob"
  PROVE  \/ client'[c] = client[c]
         \/ InsertJob(c)
         \/ ApiCrash(c)
  <1> ClientsTyped
    BY DEF IInv, TypeOK
  <1>1. ~Request(c)
    BY DEF Request, UploadBegin, RetryBegin, ReprocessBegin, TrashBegin, RestoreBegin, PurgeBegin,
       MoveBegin, Begin
  <1>2. Handle(c) => InsertJob(c)
    BY DEF Handle, UploadDuplicate, UploadFresh, UploadInsert, Requeue, MoveWorkspace, Unpage,
       UnpageFails, MoveUnnode, TrashCommit, TrashRollback, RestoreCheck, Restore, PurgeCommit,
       PurgeFiles
  <1>3. ASSUME NEW d \in Clients, d # c, Request(d) \/ Handle(d) \/ ApiCrash(d)
        PROVE  client'[c] = client[c]
    BY <1>3, ClientsApart
  <1> QED BY <1>1, <1>2, <1>3 DEF Framed, ClientStep

-----------------------------------------------------------------------------
(* A live asset that is indexing has a slot, one that is queued will have one *)

\* An attempt that has claimed a live asset still holds it.
IndexingWorked ==
    \A a \in Assets : Live(a) /\ asset[a].status = "indexing" =>
        \E w \in Workers : worker[w].asset = a /\ worker[w].pc \in Settling \ {"claim"}

\* WillBeServed(a) with what lasts: the queued job that the sweep can put on the
\* queue is the latest of all rows of the asset, not of the queued ones only.
Served(a) ==
    \/ \E j \in JobIds : job[j].asset = a /\ ticket[j].state = "wait"
    \/ \E w \in Workers : /\ worker[w].asset = a
                          /\ \/ worker[w].pc \in Settling
                             \/ worker[w].pc \in Failing /\ worker[w].attempt < MaxAttempts
    \/ \E j \in JobIds : /\ IsLatest(j, JobsOf(a))
                         /\ job[j].status = "queued" /\ ticket[j].state = "absent"
    \/ \E c \in Clients : client[c].asset = a /\ client[c].pc = "insertJob"

QueuedServed == \A a \in Assets : Live(a) /\ asset[a].status = "queued" => Served(a)

\* A step in which nobody settles an asset or goes to the trash with it.
LEMMA SettledStatus ==
  ASSUME IInv, NEW w \in Workers, MarkReady(w) \/ FailAsset(w), HasRow(worker[w].asset)
  PROVE  asset'[worker[w].asset].status = IF MarkReady(w) THEN "ready" ELSE FailureStatus(w)
  <1> LibraryTyped /\ WorkersWired
    BY DEF IInv, TypeOK
  <1>1. worker[w].asset \in Assets
    BY DEF MarkReady, FailAsset, WorkersWired
  <1>2. ~(MarkReady(w) /\ FailAsset(w))
    BY DEF MarkReady, FailAsset
  <1>3. ASSUME NEW s, SetStatus(worker[w].asset, s)
        PROVE  asset'[worker[w].asset].status = s
    BY <1>1, <1>3 DEF SetStatus, LibraryTyped, RowType
  <1> QED BY <1>2, <1>3 DEF MarkReady, FailAsset

\* An attempt that has claimed an asset goes on with it until it settles it.
LEMMA ClaimantMoves ==
  ASSUME WInv, Framed, Spared({"crash", "dbDown"})', NEW w \in Workers,
         worker[w].pc \in Settling \ {"claim"}
  PROVE  \/ /\ worker'[w].asset = worker[w].asset /\ worker'[w].attempt = worker[w].attempt
            /\ worker'[w].pc \in Settling \ {"claim"}
         \/ MarkReady(w)
         \/ /\ FailAsset(w) /\ worker'[w].pc = "failJob"
            /\ worker'[w].asset = worker[w].asset /\ worker'[w].attempt = worker[w].attempt
  <1> IInv
    BY DEF WInv
  <1>1. ~Strike("crash") /\ ~Strike("dbDown")
    BY SparedSteps
  <1>2. ~Starts(w) /\ ~Ends(w)
    BY <1>1 DEF Starts, Take, Ends, Return, Rethrow, Crash, Settling
  <1>3. CASE worker'[w] = worker[w]
    BY <1>3
  <1>4. CASE Advances(w)
    BY <1>1, <1>4 DEF Advances, Settling, CatchFails
  <1> QED BY <1>2, <1>3, <1>4, SlotMoves

\* An asset that is indexing stays in the hands of an attempt.
LEMMA WorkedKept ==
  ASSUME WInv, IndexingWorked, Framed, Spared({"crash", "dbDown"})'
  PROVE  IndexingWorked'
  <1> IInv /\ WorkersTyped
    BY DEF WInv, IInv, TypeOK
  <1> SUFFICES ASSUME NEW a \in Assets, Live(a)', asset'[a].status = "indexing"
               PROVE  \E w \in Workers : /\ worker'[w].asset = a
                                         /\ worker'[w].pc \in Settling \ {"claim"}
    BY DEF IndexingWorked
  <1>1. CASE /\ asset'[a].status = asset[a].status
             /\ asset'[a].trashed = asset[a].trashed
    <2>1. Live(a) /\ asset[a].status = "indexing"
      BY <1>1 DEF Live, HasRow
    <2>2. PICK w \in Workers : worker[w].asset = a /\ worker[w].pc \in Settling \ {"claim"}
      BY <2>1 DEF IndexingWorked
    <2>3. ~MarkReady(w) /\ ~FailAsset(w)
      BY <2>1, <2>2, SettledStatus DEF FailureStatus, Live
    <2> QED BY <2>2, <2>3, ClaimantMoves
  <1>2. CASE ~(/\ asset'[a].status = asset[a].status
               /\ asset'[a].trashed = asset[a].trashed)
    <2>1. PICK w \in Workers : worker[w].asset = a /\ Claim(w)
      BY <1>2, StatusMoves DEF FailureStatus, Live
    <2>2. Advances(w) /\ worker'[w].pc = "start"
      <3>1. ~Starts(w) /\ ~Ends(w) /\ worker'[w] # worker[w]
        BY <2>1 DEF Claim, Starts, Take, Ends, Return, Rethrow, Crash, WorkersTyped, AttemptType
      <3> QED BY <2>1, <3>1, SlotMoves DEF Advances, Claim, ClaimRefused
    <2> QED BY <2>1, <2>2 DEF Advances, Settling
  <1> QED BY <1>1, <1>2

\* The row of a new job is the latest of its asset and waits for its dispatch.
LEMMA InsertServes ==
  ASSUME WInv, Framed, NEW c \in Clients, NEW a \in Assets, InsertJob(c), client[c].asset = a,
         HasRow(a)
  PROVE  Served(a)'
  <1> IInv /\ JobsFresh /\ QueueTyped /\ TicketsTyped
    BY DEF WInv, IInv, TypeOK
  <1>1. PICK j \in JobIds : jobs < j /\ j = jobs + 1
    BY JobAssetsKept, PipelineAssumption DEF InsertJob
  <1> DEFINE r == [asset |-> a, status |-> "queued"]
  <1>2. jobs' = j /\ ticket' = ticket /\ job' = [job EXCEPT ![j] = r]
    BY <1>1 DEF InsertJob
  <1>3. r.asset = a /\ r.status = "queued" /\ job'[j] = r
    BY <1>2 DEF QueueTyped
  <1>4. ticket'[j].state = "absent"
    BY <1>1, <1>2 DEF JobsFresh
  <1>5. \A k \in JobIds : job'[k].status # "none" => k =< j
    BY <1>2, FreshKept DEF JobsFresh
  <1> HIDE DEF r
  <1>6. IsLatest(j, JobsOf(a))'
    BY <1>3, <1>5 DEF IsLatest, JobsOf
  <1> QED BY <1>3, <1>4, <1>6 DEF Served

\* The faults that can leave a queued asset with nobody to serve it.
Forgetting == {"crash", "apiCrash", "redisLoss", "dbDown"}

\* What serves a queued asset, each part for the systems spared of its faults.
SInv == /\ WInv
        /\ Spared({"crash", "redisLoss"}) => TicketsHeld
        /\ Spared({"crash", "dbDown"}) => IndexingWorked
        /\ Spared(Forgetting) => QueuedServed

\* What a system spared of all of them is spared of.
LEMMA ForgettingSpared ==
  Spared(Forgetting) => Spared({"crash", "redisLoss"}) /\ Spared({"crash", "dbDown"})
  BY DEF Spared, Forgetting

\* The same of the state after a step.
LEMMA ForgettingSparedAfter ==
  Spared(Forgetting)' => Spared({"crash", "redisLoss"})' /\ Spared({"crash", "dbDown"})'
  BY DEF Spared, Forgetting

\* A waiting ticket goes on waiting or is taken by a slot that will claim the asset.
LEMMA WaitServes ==
  ASSUME WInv, Framed, Spared(Forgetting)', NEW a \in Assets, NEW j \in JobIds,
         job[j].asset = a, ticket[j].state = "wait"
  PROVE  Served(a)'
  <1> IInv /\ JobsFresh /\ WorkersTyped
    BY DEF WInv, IInv, TypeOK
  <1>1. ~Strike("redisLoss")
    BY SparedSteps DEF Forgetting
  <1>2. job'[j].asset = a
    BY JobAssetsKept DEF JobsFresh
  <1>3. ASSUME NEW w \in Workers, Take(w, j)
        PROVE  Served(a)'
    <2>1. worker'[w].pc = "claim" /\ worker'[w].asset = a
      BY <1>3, TakeStarts
    <2> QED BY <2>1 DEF Served, Settling
  <1>4. CASE ticket'[j] = ticket[j]
    BY <1>2, <1>4 DEF Served
  <1>5. ASSUME NEW w \in Workers
        PROVE  /\ Completed(ticket[j], w) = ticket[j]
               /\ Thrown(ticket[j], w) = ticket[j]
               /\ Abandoned(ticket[j], w) = ticket[j]
    BY DEF Completed, Thrown, Abandoned, HeldBy
  <1>6. Added(ticket[j]) = ticket[j]
    BY DEF Added
  <1>7. ~StallCheck(j) /\ ~Evict(j) /\ ~RedisLoss
    BY <1>1 DEF StallCheck, LockRunsOut, Evict, RedisLoss
  <1> QED BY <1>3, <1>4, <1>5, <1>6, <1>7, TicketMoves

\* An error that is thrown with attempts left puts the ticket back.
LEMMA RethrowServes ==
  ASSUME WInv, TicketsHeld, Framed, NEW a \in Assets, NEW w \in Workers,
         Rethrow(w), worker[w].asset = a, worker[w].attempt < MaxAttempts
  PROVE  Served(a)'
  <1> IInv /\ AttemptsWired /\ TicketsTyped
    BY DEF WInv, IInv, TypeOK
  <1> DEFINE j == worker[w].job
             t == ticket[j]
  <1>1. worker[w].pc # "idle"
    BY DEF Rethrow
  <1>2. j \in JobIds /\ job[j].asset = a /\ job'[j].asset = a
    BY <1>1, JobAssetsKept DEF AttemptsWired
  <1>3. t \in TicketType(Workers) /\ HeldBy(t, w) /\ t.made + 1 < MaxAttempts
    BY <1>1, <1>2 DEF TicketsHeld, HoldsTicket, TicketsTyped
  <1>4. ticket'[j] = Thrown(t, w)
    BY <1>2 DEF Rethrow, TicketsTyped
  <1> HIDE DEF t
  <1>5. Thrown(t, w).state = "wait"
    BY <1>3 DEF Thrown, TicketType
  <1>6. \E k \in JobIds : job'[k].asset = a /\ ticket'[k].state = "wait"
    BY <1>2, <1>4, <1>5
  <1> QED BY <1>6 DEF Served

\* An attempt that will settle or retry the asset goes on doing so.
LEMMA AttemptServes ==
  ASSUME WInv, TicketsHeld, Framed, Spared(Forgetting)', NEW a \in Assets, NEW w \in Workers,
         Live(a), asset[a].status = "queued", asset'[a].status = "queued",
         worker[w].asset = a,
         \/ worker[w].pc \in Settling
         \/ worker[w].pc \in Failing /\ worker[w].attempt < MaxAttempts
  PROVE  Served(a)'
  <1> IInv
    BY DEF WInv
  <1>1. ~Strike("crash") /\ ~Strike("dbDown")
    BY SparedSteps DEF Forgetting
  <1>2. CASE worker'[w] = worker[w]
    BY <1>2 DEF Served
  <1>3. ~Starts(w)
    BY DEF Starts, Take, Settling, Failing
  <1>4. CASE Ends(w)
    <2>1. Rethrow(w) /\ worker[w].attempt < MaxAttempts
      BY <1>1, <1>4 DEF Ends, Return, Rethrow, Crash, Settling, Failing
    <2> QED BY <2>1, RethrowServes
  <1>5. CASE Advances(w) /\ worker[w].pc = "claim"
    <2>1. ~ClaimRefused(w)
      BY DEF ClaimRefused
    <2> QED BY <1>5, <2>1 DEF Advances, Served, Settling
  <1>6. CASE worker[w].pc \in Settling \ {"claim"}
    <2>1. ~MarkReady(w) /\ (FailAsset(w) => worker[w].attempt < MaxAttempts)
      BY SettledStatus DEF FailureStatus, Live, MarkReady, FailAsset
    <2>2. \/ /\ worker'[w].asset = a /\ worker'[w].pc \in Settling
          \/ /\ worker'[w].asset = a /\ worker'[w].pc \in Failing
             /\ worker'[w].attempt < MaxAttempts
      BY <1>6, <2>1, ClaimantMoves, ForgettingSparedAfter DEF Failing
    <2> QED BY <2>2 DEF Served
  <1>7. CASE Advances(w) /\ worker[w].pc \in Failing /\ worker[w].attempt < MaxAttempts
    BY <1>1, <1>7 DEF Advances, CatchFails, Served, Failing
  <1> QED BY <1>2, <1>3, <1>4, <1>5, <1>6, <1>7, SlotMoves DEF Settling

\* The latest job of a live asset, queued and without a ticket, stays so or gets one.
LEMMA LatestServes ==
  ASSUME WInv, TicketsHeld, Framed, Spared(Forgetting)', NEW a \in Assets, NEW j \in JobIds,
         HasRow(a), Live(a)',
         IsLatest(j, JobsOf(a)), job[j].status = "queued", ticket[j].state = "absent"
  PROVE  Served(a)'
  <1> IInv /\ JobsFresh /\ AttemptsWired /\ QueueTyped
    BY DEF WInv, IInv, TypeOK
  <1>1. CASE \E c \in Clients : InsertJob(c) /\ client[c].asset = a
    BY <1>1, InsertServes
  <1>2. CASE ~\E c \in Clients : InsertJob(c) /\ client[c].asset = a
    <2>1. j =< jobs /\ job[j].asset = a /\ job'[j].asset = a
      BY JobAssetsKept DEF JobsFresh, IsLatest, JobsOf
    <2>2. ASSUME NEW w \in Workers, worker[w].job = j
          PROVE  worker[w].pc = "idle"
      BY <2>2 DEF TicketsHeld, HoldsTicket, HeldBy
    <2>3. ASSUME NEW c \in Clients, client[c].asset = a, TrashCommit(c) \/ PurgeCommit(c)
          PROVE  FALSE
      <3> DEFINE r == asset'[a]
      <3>1. LibraryTyped /\ ClientsWired
        BY DEF IInv, TypeOK
      <3>2. CASE TrashCommit(c)
        BY <2>3, <3>1, <3>2, TrashReplaces DEF TrashCommit, Live, Replaced, LibraryTyped, RowType
      <3>3. CASE PurgeCommit(c)
        BY <2>3, <3>1, <3>3 DEF PurgeCommit, Live, HasRow, LibraryTyped, RowType
      <3> QED BY <2>3, <3>2, <3>3
    <2>4. job'[j] = job[j]
      BY <1>2, <2>1, <2>2, <2>3, JobMoves, JobAssetsKept
         DEF StartJob, MarkJobReady, FailJob
    <2>5. ASSUME NEW k \in JobIds, job'[k].asset = a, job'[k].status # "none"
          PROVE  k =< j
      <3>1. job[k].asset = a /\ job[k].status # "none"
        BY <1>2, <2>3, <2>5, JobMoves
      <3> QED BY <3>1 DEF IsLatest, JobsOf
    <2>6. IsLatest(j, JobsOf(a))'
      BY <2>1, <2>4, <2>5 DEF IsLatest, JobsOf
    <2>7. CASE ticket'[j].state = "absent"
      BY <2>4, <2>6, <2>7 DEF Served
    <2>8. CASE ticket'[j].state # "absent"
      <3>1. /\ ~\E w \in Workers : Take(w, j)
            /\ ~StallCheck(j)
            /\ NoTicket.state = "absent"
            /\ Added(ticket[j]).state = "wait"
        BY DEF Take, StallCheck, LockRunsOut, NoTicket, Added
      <3>2. ASSUME NEW w \in Workers
            PROVE  /\ Completed(ticket[j], w) = ticket[j]
                   /\ Thrown(ticket[j], w) = ticket[j]
                   /\ Abandoned(ticket[j], w) = ticket[j]
        BY DEF Completed, Thrown, Abandoned, HeldBy
      <3>3. ticket'[j].state = "wait"
        BY <2>8, <3>1, <3>2, TicketMoves
      <3> QED BY <2>1, <3>3 DEF Served
    <2> QED BY <2>7, <2>8
  <1> QED BY <1>1, <1>2

\* Whatever serves a queued asset, a step leaves something that does.
LEMMA ServedStays ==
  ASSUME WInv, TicketsHeld, Framed, Spared(Forgetting)', NEW a \in Assets,
         Live(a), Live(a)', asset[a].status = "queued", asset'[a].status = "queued", Served(a)
  PROVE  Served(a)'
  <1> IInv
    BY DEF WInv
  <1>1. ASSUME NEW j \in JobIds, job[j].asset = a, ticket[j].state = "wait"
        PROVE  Served(a)'
    BY <1>1, WaitServes
  <1>2. ASSUME NEW w \in Workers, worker[w].asset = a,
               \/ worker[w].pc \in Settling
               \/ worker[w].pc \in Failing /\ worker[w].attempt < MaxAttempts
        PROVE  Served(a)'
    BY <1>2, AttemptServes
  <1>3. ASSUME NEW j \in JobIds, IsLatest(j, JobsOf(a)), job[j].status = "queued",
               ticket[j].state = "absent"
        PROVE  Served(a)'
    BY <1>3, LatestServes DEF Live
  <1>4. ASSUME NEW c \in Clients, client[c].asset = a, client[c].pc = "insertJob"
        PROVE  Served(a)'
    <2>1. ~ApiCrash(c)
      BY SparedSteps DEF ApiCrash, Forgetting
    <2>2. CASE client'[c] = client[c]
      BY <1>4, <2>2 DEF Served
    <2>3. CASE InsertJob(c)
      BY <1>4, <2>3, InsertServes DEF Live
    <2> QED BY <1>4, <2>1, <2>2, <2>3, InsertingMoves
  <1> QED BY <1>1, <1>2, <1>3, <1>4 DEF Served

\* An asset that comes to be queued is served from the start.
LEMMA QueuedIsTaken ==
  ASSUME SInv, Framed, Spared(Forgetting)', NEW a \in Assets, Live(a)',
         asset'[a].status = "queued", ~(Live(a) /\ asset[a].status = "queued")
  PROVE  Served(a)'
  <1> WInv /\ IInv /\ WorkersTyped /\ ClientsTyped
    BY DEF SInv, WInv, IInv, TypeOK
  <1>1. ASSUME NEW w \in Workers, FailAsset(w), worker[w].asset = a, FailureStatus(w) = "queued"
        PROVE  Served(a)'
    <2>1. /\ worker'[w].pc = "failJob" /\ worker'[w].asset = a
          /\ worker'[w].attempt < MaxAttempts
      BY <1>1 DEF FailAsset, FailureStatus, Goto, WorkersTyped, AttemptType
    <2> QED BY <2>1 DEF Served, Failing
  <1>2. ASSUME SweepAssets, asset[a].status = "indexing", asset'[a].trashed = asset[a].trashed
        PROVE  Served(a)'
    <2>1. Live(a)
      BY <1>2 DEF Live, HasRow
    <2>2. IndexingWorked
      BY SparedSteps, ForgettingSpared DEF SInv
    <2>3. PICK w \in Workers : worker[w].asset = a /\ worker[w].pc \in Settling
      BY <1>2, <2>1, <2>2 DEF IndexingWorked
    <2>4. worker' = worker
      BY <1>2 DEF SweepAssets
    <2> QED BY <2>3, <2>4 DEF Served
  <1>3. ASSUME NEW c \in Clients, client[c].asset = a, NextStep(c, "insertJob")
        PROVE  Served(a)'
    <2>1. client'[c].pc = "insertJob" /\ client'[c].asset = a
      BY <1>3 DEF NextStep, ClientsTyped, RequestType
    <2> QED BY <2>1 DEF Served
  <1>4. ~(/\ asset'[a].status = asset[a].status
          /\ asset'[a].trashed = asset[a].trashed)
    BY DEF Live, HasRow
  <1> QED BY <1>1, <1>2, <1>3, <1>4, StatusMoves DEF Requeue, Live

\* Hence every queued asset stays served.
LEMMA QueuedServedKept ==
  ASSUME SInv, Framed, Spared(Forgetting)'
  PROVE  QueuedServed'
  <1>1. WInv /\ TicketsHeld /\ QueuedServed
    BY SparedSteps, ForgettingSpared DEF SInv, WInv
  <1>2. ASSUME NEW a \in Assets, Live(a)', asset'[a].status = "queued"
        PROVE  Served(a)'
    <2>1. CASE Live(a) /\ asset[a].status = "queued"
      BY <1>1, <1>2, <2>1, ServedStays DEF QueuedServed
    <2>2. CASE ~(Live(a) /\ asset[a].status = "queued")
      BY <1>2, <2>2, QueuedIsTaken
    <2> QED BY <2>1, <2>2
  <1> QED BY <1>2 DEF QueuedServed

\* Without assets there is nobody to serve.
LEMMA InitSInv == Init => SInv
  <1> SUFFICES ASSUME Init PROVE SInv
    OBVIOUS
  <1>1. WInv
    BY InitWInv
  <1>2. TicketsHeld
    BY DEF Init, TicketsHeld, LockRunsOut, NoTicket, NoAttempt
  <1>3. IndexingWorked /\ QueuedServed
    BY DEF Init, IndexingWorked, QueuedServed, Live, HasRow
  <1> QED BY <1>1, <1>2, <1>3 DEF SInv

\* Each part is kept by every step that leaves the system spared of its faults.
LEMMA NextSInv == SInv /\ [Next]_vars => SInv'
  <1> SUFFICES ASSUME SInv, [Next]_vars PROVE SInv'
    OBVIOUS
  <1>1. WInv /\ IInv /\ Framed
    BY NextFramed DEF SInv, WInv
  <1>2. WInv'
    BY <1>1, NextWInv
  <1>3. Spared({"crash", "redisLoss"})' => TicketsHeld'
    BY <1>1, SparedSteps, HeldKept DEF SInv
  <1>4. Spared({"crash", "dbDown"})' => IndexingWorked'
    BY <1>1, SparedSteps, WorkedKept DEF SInv
  <1>5. Spared(Forgetting)' => QueuedServed'
    BY <1>1, QueuedServedKept
  <1> QED BY <1>2, <1>3, <1>4, <1>5 DEF SInv

\* What lasts implies what the property asks for.
LEMMA ServedIsEnough ==
  ASSUME NEW a \in Assets, Served(a)
  PROVE  WillBeServed(a)
  BY DEF Served, WillBeServed, IsLatest, JobsOf, QueuedJobs

\* As long as no process dies and Redis keeps its data, an attempt holds its
\* ticket under a renewed lock and has counted its attempts as BullMQ has: no two
\* slots work on one processing id, and no lock runs out, however late the sweep
\* or the stalled checker look.
THEOREM AttemptsHoldTickets == Spec => [](Spared({"crash", "redisLoss"}) => TicketsHeld)
  <1>1. SInv => (Spared({"crash", "redisLoss"}) => TicketsHeld)
    BY DEF SInv
  <1> QED BY <1>1, InitSInv, NextSInv, PTL DEF Spec

\* A live asset that is being indexed is in the hands of an attempt, for as long
\* as no process dies and the database answers the catch block: it never says
\* "indexing" with nobody at work.
THEOREM IndexingIsWorkedOn == Spec => [](Spared({"crash", "dbDown"}) => IndexingWorked)
  <1>1. SInv => (Spared({"crash", "dbDown"}) => IndexingWorked)
    BY DEF SInv
  <1> QED BY <1>1, InitSInv, NextSInv, PTL DEF Spec

\* No queued asset is forgotten before the first crash of a worker or of the API,
\* loss of Redis or outage of the database in the catch block: uploads, retries,
\* reprocessing, moves, trash, restore and purge in any order, by any number of
\* clients, leave somebody who serves it, also when the sweep or the stalled
\* checker interfere, finished tickets are evicted or attempts fail late.
THEOREM QueuedIsNeverForgotten == Spec => [](Spared(Forgetting) => QueuedIsServed)
  <1>1. SInv => (Spared(Forgetting) => QueuedIsServed)
    BY ServedIsEnough DEF SInv, QueuedServed, QueuedIsServed
  <1> QED BY <1>1, InitSInv, NextSInv, PTL DEF Spec

-----------------------------------------------------------------------------
(* A ready asset is indexed where it is                                      *)

(* A move takes the index of a ready asset away before it queues the asset   *)
(* again, and a trash removes it under an attempt that may still mark the    *)
(* asset ready after a restore.  Without these two an asset stays where its  *)
(* upload put it.                                                            *)
NothingMoves == Ops \cap {"move", "trash"} = {}

RequestsInPlace ==
    \A c \in Clients :
        /\ client[c].op \notin {"move", "trash", "restore", "purge"}
        /\ client[c].pc \in {"idle", "checkDup", "insert", "requeue", "insertJob"}

NoneTrashed == \A a \in Assets : ~asset[a].trashed /\ asset[a].status # "purged"

\* What is written of the index of a for the workspace a is in.
IsWritten(a, part) ==
    /\ part = "rows" => rows[a] = asset[a].ws
    /\ part = "page" => asset[a].ws \in pages[a]
    /\ part = "node" => asset[a].ws \in nodes[a]

Building == {"start", "parse", "index", "markReady"}

\* An attempt builds the index for the workspace of its asset, and what it has
\* done is there; so do the writes of failed attempts that are still to land.
Builds(w, a) ==
    /\ worker[w].pc \in Building => HasRow(a) /\ worker[w].ws = asset[a].ws
    /\ worker[w].pc = "index" => \A part \in Parts \ worker[w].todo : IsWritten(a, part)
    /\ worker[w].pc = "markReady" => \A part \in Parts : IsWritten(a, part)

AttemptsBuild == \A w \in Workers, a \in Assets : worker[w].asset = a => Builds(w, a)

LoosePlaced == \A o \in loose : HasRow(o.asset) /\ o.ws = asset[o.asset].ws

ReadyWritten ==
    \A a \in Assets : asset[a].status = "ready" => \A part \in Parts : IsWritten(a, part)

PInv == /\ IInv /\ RequestsInPlace /\ NoneTrashed
        /\ AttemptsBuild /\ LoosePlaced /\ ReadyWritten

\* Where nothing moves or is trashed, nothing is restored or purged either.
LEMMA InPlaceKept ==
  ASSUME NothingMoves, IInv, RequestsInPlace, NoneTrashed, Framed
  PROVE  RequestsInPlace' /\ NoneTrashed'
  <1> ClientsTyped
    BY DEF IInv, TypeOK
  <1>1. ASSUME NEW c \in Clients
        PROVE  /\ client'[c].op \notin {"move", "trash", "restore", "purge"}
               /\ client'[c].pc \in {"idle", "checkDup", "insert", "requeue", "insertJob"}
    <2> DEFINE Goal == /\ client'[c].op \notin {"move", "trash", "restore", "purge"}
                       /\ client'[c].pc \in {"idle", "checkDup", "insert", "requeue", "insertJob"}
    <2>1. ASSUME NEW op, NEW a, NEW to, NEW pc, Begin(c, op, a, to, pc)
          PROVE  client'[c].op = op /\ client'[c].pc = pc /\ op \in Ops
      BY <2>1 DEF Begin, ClientsTyped
    <2>2. ASSUME NEW pc, NextStep(c, pc)
          PROVE  client'[c].op = client[c].op /\ client'[c].pc = pc
      BY <2>2 DEF NextStep, ClientsTyped, RequestType
    <2>3. CASE Reply(c)
      BY <2>3 DEF Reply, NoRequest, ClientsTyped
    <2>4. CASE Request(c)
      <3>1. PICK a \in Assets :
              \/ RetryBegin(c, a) \/ ReprocessBegin(c, a) \/ TrashBegin(c, a)
              \/ RestoreBegin(c, a) \/ PurgeBegin(c, a)
              \/ \E ws \in Workspaces : UploadBegin(c, a, ws) \/ MoveBegin(c, a, ws)
        BY <2>4 DEF Request
      <3>2. ~Trashed(a)
        BY DEF NoneTrashed, Trashed
      <3>3. CASE RetryBegin(c, a) \/ ReprocessBegin(c, a)
        BY <2>1, <3>3 DEF RetryBegin, ReprocessBegin
      <3>4. CASE \E ws \in Workspaces : UploadBegin(c, a, ws)
        BY <2>1, <3>4 DEF UploadBegin
      <3>5. ~TrashBegin(c, a) /\ ~\E ws \in Workspaces : MoveBegin(c, a, ws)
        BY <2>1 DEF TrashBegin, MoveBegin, NothingMoves
      <3>6. ~RestoreBegin(c, a) /\ ~PurgeBegin(c, a)
        BY <3>2 DEF RestoreBegin, PurgeBegin
      <3> QED BY <3>1, <3>3, <3>4, <3>5, <3>6
    <2>5. CASE Handle(c)
      <3>1. \/ UploadDuplicate(c) \/ UploadFresh(c) \/ UploadInsert(c)
            \/ Requeue(c) \/ InsertJob(c)
        BY <2>5 DEF Handle, RequestsInPlace, MoveWorkspace, Unpage, UnpageFails, MoveUnnode,
           TrashCommit, TrashRollback, RestoreCheck, Restore, PurgeCommit, PurgeFiles
      <3>2. Reply(c) \/ NextStep(c, "insert") \/ NextStep(c, "insertJob")
        BY <3>1 DEF UploadDuplicate, UploadFresh, UploadInsert, Requeue, InsertJob
      <3> QED BY <2>2, <2>3, <3>2 DEF RequestsInPlace
    <2>6. CASE client'[c] = client[c]
      BY <2>6 DEF RequestsInPlace
    <2>7. CASE ApiCrash(c)
      BY <2>3, <2>7 DEF ApiCrash
    <2> QED BY <2>4, <2>5, <2>6, <2>7, ClientsApart DEF Framed, ClientStep
  <1>2. ASSUME NEW a \in Assets
        PROVE  ~asset'[a].trashed /\ asset'[a].status # "purged"
    BY StatusMoves DEF NoneTrashed, RequestsInPlace, TrashCommit, PurgeCommit, FailureStatus
  <1> QED BY <1>1, <1>2 DEF RequestsInPlace, NoneTrashed

\* A row stays, and stays in its workspace.
LEMMA RowsStay ==
  ASSUME IInv, RequestsInPlace, Framed, NEW a \in Assets, HasRow(a)
  PROVE  HasRow(a)' /\ asset'[a].ws = asset[a].ws
  <1> LibraryTyped /\ WorkersWired /\ ClientsTyped /\ ClientsWired /\ RequestsFounded
    BY DEF IInv, TypeOK
  <1>1. CASE asset' = asset \/ Relabelled
    BY <1>1 DEF HasRow, Relabelled
  <1>2. ASSUME NEW c \in Clients, UploadInsert(c), asset' # asset
        PROVE  HasRow(a)' /\ asset'[a].ws = asset[a].ws
    <2> DEFINE b == client[c].asset
               r == [status |-> "queued", trashed |-> FALSE, ws |-> client[c].to]
    <2>1. Uploading(c) /\ Replaced(b, r)
      BY <1>2, InsertReplaces
    <2>2. a # b
      BY <2>1 DEF RequestsFounded, HasRow
    <2> HIDE DEF r
    <2>3. asset'[a] = asset[a]
      BY <2>1, <2>2 DEF Replaced, LibraryTyped
    <2> QED BY <2>3 DEF HasRow
  <1>3. ASSUME NEW c \in Clients
        PROVE  ~MoveWorkspace(c) /\ ~TrashCommit(c) /\ ~Restore(c) /\ ~PurgeCommit(c)
    BY DEF RequestsInPlace, MoveWorkspace, TrashCommit, Restore, PurgeCommit
  <1> QED BY <1>1, <1>2, <1>3, SlotsRelabel, SweepRelabels, RequeueRelabels DEF Framed, AssetStep

\* A write is for the workspace of its asset, or not at all, so what is written
\* stays written.
LEMMA WrittenStays ==
  ASSUME PInv, Framed, NEW a \in Assets, NEW part, HasRow(a), IsWritten(a, part)
  PROVE  IsWritten(a, part)'
  <1> IInv /\ IndexTyped /\ WorkersWired /\ RequestsInPlace /\ AttemptsBuild /\ LoosePlaced
    BY DEF PInv, IInv, TypeOK
  <1> DEFINE Kept == /\ rows'[a] \in {rows[a], asset[a].ws}
                     /\ pages[a] \subseteq pages'[a] /\ nodes[a] \subseteq nodes'[a]
  <1>1. ASSUME NEW b \in Assets, NEW ws, NEW p, WritePart(b, ws, p), ws = asset[b].ws
        PROVE  Kept
    BY <1>1 DEF WritePart, IndexTyped
  <1>2. ASSUME UNCHANGED <<rows, pages, nodes, loose>>
        PROVE  Kept
    BY <1>2
  <1>3. ASSUME NEW w \in Workers, NEW p \in Parts, IndexPart(w, p)
        PROVE  Kept
    BY <1>1, <1>3 DEF IndexPart, AttemptsBuild, Builds, Building, WorkersWired
  <1>4. ASSUME NEW w \in Workers, AttemptFails(w)
        PROVE  Kept
    BY <1>4 DEF AttemptFails
  <1>5. ASSUME NEW o \in loose, LooseWriteLands(o)
        PROVE  Kept
    BY <1>1, <1>5 DEF LooseWriteLands, LoosePlaced, IndexTyped, WriteType
  <1>6. ASSUME NEW o \in loose, LooseWriteFails(o)
        PROVE  Kept
    BY <1>6 DEF LooseWriteFails
  <1>7. ASSUME NEW c \in Clients
        PROVE  /\ ~MoveUnnode(c) /\ ~Unpage(c) /\ ~TrashCommit(c)
               /\ ~TrashRollback(c) /\ ~PurgeCommit(c)
    BY DEF RequestsInPlace, MoveUnnode, Unpage, TrashCommit, TrashRollback, PurgeCommit
  <1>8. Kept
    BY <1>2, <1>3, <1>4, <1>5, <1>6, <1>7 DEF Framed, IndexStep
  <1>9. asset'[a].ws = asset[a].ws
    BY RowsStay
  <1> QED BY <1>8, <1>9 DEF IsWritten

\* What an attempt that is building has just done.
LEMMA BuildingMoves ==
  ASSUME IInv, Framed, NEW w \in Workers, worker'[w].pc \in Building
  PROVE  \/ worker'[w] = worker[w]
         \/ /\ worker'[w].asset = worker[w].asset
            /\ \/ /\ Claim(w) /\ worker'[w].pc = "start"
                  /\ worker'[w].ws = asset[worker[w].asset].ws
               \/ /\ StartJob(w) /\ worker[w].pc = "start" /\ worker'[w].pc = "parse"
                  /\ worker'[w].ws = worker[w].ws
               \/ /\ Stage(w) /\ worker[w].pc = "parse" /\ worker'[w].pc = "index"
                  /\ worker'[w].todo = Parts
                  /\ worker'[w].ws = IF HasRow(worker[w].asset) THEN asset[worker[w].asset].ws
                                     ELSE worker[w].ws
               \/ /\ worker[w].pc = "index" /\ worker'[w].pc = "index"
                  /\ worker'[w].ws = worker[w].ws
                  /\ \E part \in Parts : /\ IndexPart(w, part)
                                         /\ worker'[w].todo = worker[w].todo \ {part}
               \/ /\ worker[w].pc = "index" /\ worker'[w].pc = "markReady"
                  /\ worker'[w].ws = worker[w].ws /\ worker[w].todo = {}
  <1> WorkersTyped
    BY DEF IInv, TypeOK
  <1>1. ~Starts(w) /\ ~Ends(w)
    BY DEF Starts, Ends, NoAttempt, Building
  <1>2. CASE worker'[w] = worker[w]
    BY <1>2
  <1>3. CASE Advances(w)
    <2>1. ASSUME NEW pc, Goto(w, pc)
          PROVE  worker'[w].ws = worker[w].ws
      BY <2>1 DEF Goto, WorkersTyped, AttemptType
    <2>2. CASE Claim(w)
      <3> DEFINE ws == asset[worker[w].asset].ws
      <3>1. worker' = [worker EXCEPT ![w] = [@ EXCEPT !.pc = "start", !.ws = ws]]
        BY <2>2 DEF Claim
      <3> HIDE DEF ws
      <3>2. worker'[w].ws = ws /\ worker'[w].pc = "start"
        BY <3>1 DEF WorkersTyped, AttemptType
      <3> QED BY <1>3, <2>2, <3>2 DEF Advances, ws
    <2>3. CASE StartJob(w)
      BY <1>3, <2>1, <2>3 DEF Advances, StartJob, Building
    <2>4. CASE Stage(w)
      <3> DEFINE ws == IF HasRow(worker[w].asset) THEN asset[worker[w].asset].ws ELSE worker[w].ws
      <3>1. worker' = [worker EXCEPT ![w] = [@ EXCEPT !.pc = "index", !.todo = Parts, !.ws = ws]]
        BY <2>4 DEF Stage
      <3>2. worker[w].pc = "parse"
        BY <2>4 DEF Stage
      <3> HIDE DEF ws
      <3>3. worker'[w].ws = ws /\ worker'[w].pc = "index" /\ worker'[w].todo = Parts
        BY <3>1 DEF WorkersTyped, AttemptType
      <3> QED BY <1>3, <2>4, <3>2, <3>3 DEF Advances, ws
    <2>5. ASSUME NEW part \in Parts, IndexPart(w, part)
          PROVE  /\ worker[w].pc = "index" /\ worker'[w].pc = "index"
                 /\ worker'[w].ws = worker[w].ws
                 /\ worker'[w].todo = worker[w].todo \ {part}
      BY <2>5 DEF IndexPart, WorkersTyped, AttemptType
    <2>6. CASE Indexed(w)
      <3>1. worker[w].pc = "index" /\ worker[w].todo = {} /\ Goto(w, "markReady")
        BY <2>6 DEF Indexed
      <3>2. worker'[w].pc = "markReady"
        BY <3>1 DEF Goto, WorkersTyped, AttemptType
      <3> QED BY <1>3, <2>1, <3>1, <3>2 DEF Advances
    <2>7. \/ Claim(w) \/ StartJob(w) \/ Stage(w) \/ Indexed(w)
          \/ \E part \in Parts : IndexPart(w, part)
      BY <1>3 DEF Advances, Building
    <2> QED BY <1>3, <2>2, <2>3, <2>4, <2>5, <2>6, <2>7 DEF Advances
  <1> QED BY <1>1, <1>2, <1>3, SlotMoves

\* A write is there after the step that makes it.
LEMMA PartIsWritten ==
  ASSUME PInv, Framed, NEW w \in Workers, NEW part \in Parts, IndexPart(w, part),
         NEW a \in Assets, worker[w].asset = a
  PROVE  IsWritten(a, part)'
  <1> IInv /\ IndexTyped /\ AttemptsBuild /\ RequestsInPlace
    BY DEF PInv, IInv, TypeOK
  <1>1. HasRow(a) /\ worker[w].ws = asset[a].ws
    BY DEF IndexPart, AttemptsBuild, Builds, Building
  <1>2. asset'[a].ws = asset[a].ws
    BY <1>1, RowsStay
  <1>3. WritePart(a, asset[a].ws, part)
    BY <1>1 DEF IndexPart
  <1>4. /\ part = "rows" => rows'[a] = asset[a].ws
        /\ part = "page" => asset[a].ws \in pages'[a]
        /\ part = "node" => asset[a].ws \in nodes'[a]
    BY <1>3 DEF WritePart, IndexTyped
  <1> QED BY <1>2, <1>4 DEF IsWritten

\* An attempt builds on for the workspace its asset is in.
LEMMA BuildKept ==
  ASSUME PInv, Framed, NEW w \in Workers, NEW a \in Assets, worker'[w].asset = a
  PROVE  Builds(w, a)'
  <1> IInv /\ AttemptsBuild /\ RequestsInPlace /\ LibraryTyped
    BY DEF PInv, IInv, TypeOK
  <1>1. CASE worker'[w].pc \notin Building
    BY <1>1 DEF Builds, Building
  <1>2. ASSUME HasRow(a), worker'[w].ws = asset[a].ws
        PROVE  HasRow(a)' /\ worker'[w].ws = asset'[a].ws
    BY <1>2, RowsStay
  <1>3. CASE worker'[w] = worker[w] /\ worker[w].pc \in Building
    <2>1. Builds(w, a)
      BY <1>3 DEF AttemptsBuild, Builds
    <2>2. HasRow(a) /\ worker'[w].ws = asset[a].ws
      BY <1>3, <2>1 DEF Builds
    <2>3. \A part \in Parts : IsWritten(a, part) => IsWritten(a, part)'
      BY <2>2, WrittenStays
    <2> QED BY <1>2, <1>3, <2>1, <2>2, <2>3 DEF Builds
  <1>4. CASE worker'[w].asset = worker[w].asset /\ worker'[w].pc \in Building
    <2>1. Builds(w, a)
      BY <1>4 DEF AttemptsBuild, Builds
    <2>2. CASE Claim(w) /\ worker'[w].pc = "start" /\ worker'[w].ws = asset[a].ws
      <3>1. HasRow(a)
        BY <1>4, <2>2 DEF Claim, Live
      <3> QED BY <1>2, <2>2, <3>1 DEF Builds
    <2>3. CASE /\ worker[w].pc = "start" /\ worker'[w].pc = "parse"
               /\ worker'[w].ws = worker[w].ws
      BY <1>2, <2>1, <2>3 DEF Builds, Building
    <2>4. CASE /\ worker[w].pc = "parse" /\ worker'[w].pc = "index" /\ worker'[w].todo = Parts
               /\ worker'[w].ws = IF HasRow(a) THEN asset[a].ws ELSE worker[w].ws
      <3>1. HasRow(a)
        BY <2>1, <2>4 DEF Builds, Building
      <3> QED BY <1>2, <2>4, <3>1 DEF Builds
    <2>5. ASSUME NEW part \in Parts, IndexPart(w, part), worker[w].pc = "index",
                 worker'[w].pc = "index", worker'[w].ws = worker[w].ws,
                 worker'[w].todo = worker[w].todo \ {part}
          PROVE  Builds(w, a)'
      <3>1. HasRow(a) /\ worker[w].ws = asset[a].ws
        BY <2>1, <2>5 DEF Builds, Building
      <3>2. ASSUME NEW p \in Parts \ worker'[w].todo
            PROVE  IsWritten(a, p)'
        <4>1. CASE p = part
          BY <1>4, <2>5, <4>1, PartIsWritten
        <4>2. CASE p # part
          <5>1. IsWritten(a, p)
            BY <2>1, <2>5, <3>2, <4>2 DEF Builds
          <5> QED BY <3>1, <5>1, WrittenStays
        <4> QED BY <4>1, <4>2
      <3> QED BY <1>2, <2>5, <3>1, <3>2 DEF Builds
    <2>6. CASE /\ worker[w].pc = "index" /\ worker'[w].pc = "markReady"
               /\ worker'[w].ws = worker[w].ws /\ worker[w].todo = {}
      <3>1. HasRow(a) /\ worker[w].ws = asset[a].ws
        BY <2>1, <2>6 DEF Builds, Building
      <3>2. \A part \in Parts : IsWritten(a, part)'
        BY <2>1, <2>6, <3>1, WrittenStays DEF Builds
      <3> QED BY <1>2, <2>6, <3>1, <3>2 DEF Builds
    <2> HIDE DEF Building, Builds
    <2>7. CASE worker'[w] = worker[w]
      BY <1>3, <1>4, <2>7
    <2> QED BY <1>4, <2>2, <2>3, <2>4, <2>5, <2>6, <2>7, BuildingMoves
  <1> QED BY <1>1, <1>3, <1>4, BuildingMoves

\* A write left behind is for the place its asset is in.
LEMMA LooseKept ==
  ASSUME PInv, Framed
  PROVE  LoosePlaced'
  <1> IInv /\ AttemptsBuild /\ RequestsInPlace /\ LoosePlaced /\ IndexTyped /\ WorkersWired
    BY DEF PInv, IInv, TypeOK
  <1> SUFFICES ASSUME NEW o \in loose'
               PROVE  HasRow(o.asset)' /\ o.ws = asset'[o.asset].ws
    BY DEF LoosePlaced
  <1>1. ASSUME NEW w \in Workers, AttemptFails(w), o \notin loose
        PROVE  o.asset \in Assets /\ HasRow(o.asset) /\ o.ws = asset[o.asset].ws
    <2>1. PICK p \in worker[w].todo :
             o = [asset |-> worker[w].asset, ws |-> worker[w].ws, part |-> p]
      BY <1>1 DEF AttemptFails
    <2>2. worker[w].pc = "index" /\ worker[w].asset \in Assets
      BY <2>1 DEF WorkersWired
    <2>3. HasRow(worker[w].asset) /\ worker[w].ws = asset[worker[w].asset].ws
      BY <2>2 DEF AttemptsBuild, Builds, Building
    <2> QED BY <2>1, <2>2, <2>3
  <1>2. CASE o \in loose
    BY <1>2, RowsStay DEF LoosePlaced, IndexTyped, WriteType
  <1>3. CASE o \notin loose
    <2>1. \E w \in Workers : AttemptFails(w)
      BY <1>3 DEF Framed, IndexStep, IndexPart, LooseWriteLands, LooseWriteFails, MoveUnnode,
         Unpage, TrashCommit, TrashRollback, PurgeCommit
    <2> QED BY <1>1, <1>3, <2>1, RowsStay
  <1> QED BY <1>2, <1>3

\* An asset is marked ready by an attempt that has written every part.
LEMMA ReadyKept ==
  ASSUME PInv, Framed
  PROVE  ReadyWritten'
  <1> IInv /\ AttemptsBuild /\ RequestsInPlace /\ ReadyWritten
    BY DEF PInv
  <1> SUFFICES ASSUME NEW a \in Assets, asset'[a].status = "ready", NEW part \in Parts
               PROVE  IsWritten(a, part)'
    BY DEF ReadyWritten
  <1>1. CASE asset[a].status = "ready"
    <2>1. HasRow(a) /\ IsWritten(a, part)
      BY <1>1 DEF HasRow, ReadyWritten
    <2> QED BY <2>1, WrittenStays
  <1>2. CASE asset[a].status # "ready"
    <2>1. PICK w \in Workers : worker[w].asset = a /\ MarkReady(w)
      BY <1>2, StatusMoves DEF FailureStatus, RequestsInPlace, TrashCommit
    <2>2. HasRow(a) /\ IsWritten(a, part)
      BY <2>1 DEF MarkReady, AttemptsBuild, Builds, Building
    <2> QED BY <2>2, WrittenStays
  <1> QED BY <1>1, <1>2

\* An asset that says "ready" can be retrieved under the workspace it is in, with
\* every part of its index, whatever attempts overlap, fail, are retried or leave
\* writes behind, and whatever crashes: true of every system in which assets are
\* neither moved nor put in the trash.
THEOREM ReadyStaysIndexed ==
  ASSUME NothingMoves
  PROVE  Spec => []ReadyIsIndexed
  <1>1. Init => PInv
    <2> SUFFICES ASSUME Init PROVE PInv
      OBVIOUS
    <2>1. IInv
      BY InitIInv
    <2>2. RequestsInPlace /\ NoneTrashed
      BY DEF Init, RequestsInPlace, NoneTrashed, NoRequest
    <2>3. AttemptsBuild /\ LoosePlaced /\ ReadyWritten
      BY DEF Init, AttemptsBuild, LoosePlaced, ReadyWritten, NoAttempt, Builds, Building
    <2> QED BY <2>1, <2>2, <2>3 DEF PInv
  <1>2. PInv /\ [Next]_vars => PInv'
    <2> SUFFICES ASSUME PInv, [Next]_vars PROVE PInv'
      OBVIOUS
    <2>1. Framed /\ IInv'
      BY NextFramed, NextIInv DEF PInv
    <2>2. RequestsInPlace' /\ NoneTrashed'
      BY <2>1, InPlaceKept DEF PInv
    <2>3. AttemptsBuild'
      BY <2>1, BuildKept DEF AttemptsBuild
    <2> QED BY <2>1, <2>2, <2>3, LooseKept, ReadyKept DEF PInv
  <1>3. PInv => ReadyIsIndexed
    BY DEF PInv, ReadyWritten, IsWritten, ReadyIsIndexed
  <1> QED BY <1>1, <1>2, <1>3, PTL DEF Spec
=============================================================================

--------------------------- MODULE Consolidation ---------------------------
(***************************************************************************)
(* The nightly consolidation of one tenant (modules/consolidation,         *)
(* services/maintenance-queue.ts, worker.ts).  Every worker process has a  *)
(* scheduler, which claims the due slot of consolidation_configs, inserts  *)
(* a run and enqueues it, and one processor, which claims the run by a     *)
(* lease in its row.  The API process schedules runs by hand.  BullMQ      *)
(* redelivers the ticket of a run whose worker is gone.                    *)
(***************************************************************************)
EXTENDS BullQueue, FiniteSets

CONSTANTS
    Workers,     \* worker processes
    Api,         \* the API process
    Runs,        \* rows consolidation_runs may get (bound)
    MaxSlots,    \* bound: nights that come
    Departed,    \* the id of a process that is gone: a new one draws a new id
    Faults,      \* the kinds of fault that may happen
    MaxFaults,   \* bound: how many do
    LeaseFirst   \* the lease of a dead process runs out before its lock does

FaultKinds == {"crash", "pause", "redis", "insert", "enqueue", "query", "work",
               "log", "catch"}

ASSUME ConsolidationAssumption ==
    /\ Api \notin Workers /\ Departed \notin Workers /\ Nobody \notin Workers
    /\ Departed # Nobody
    /\ MaxSlots \in Nat /\ MaxFaults \in Nat
    /\ Faults \subseteq FaultKinds
    /\ LeaseFirst \in BOOLEAN

Schedulers == Workers \cup {Api}
NoRun == "no run"

VARIABLES
    night,   \* the last slot that has come
    slot,    \* consolidation_configs.next_run_at, 0 while disabled
    run,     \* consolidation_runs
    ticket,  \* BullMQ, by run id
    sched,   \* where each scheduleConsolidation is
    exec,    \* where each executeConsolidationRun is
    paused,  \* processes that are suspended or cut off
    deserted,
             \* runs whose last executor threw and left them 'running' (history)
    spent    \* faults so far

plan == <<night, slot>>
vars == <<plan, run, ticket, sched, exec, paused, deserted, spent>>

RowType == [status : {"absent", "running", "completed", "failed"},
            key    : 0 .. MaxSlots,   \* scheduled_key, 0 for null
            owner  : Workers \cup {Departed, Nobody},
            lease  : {"none", "live", "over"}]

SchedType == [at : {"idle", "claim", "insert", "enqueue", "dispatch"},
              key : 0 .. MaxSlots, run : Runs \cup {NoRun}]

ExecType == [at : {"free", "claim", "read", "work", "log", "catch"}, run : Runs \cup {NoRun}]

TypeOK ==
    /\ night \in 0 .. MaxSlots
    /\ slot \in 0 .. MaxSlots + 1
    /\ run \in [Runs -> RowType]
    /\ ticket \in [Runs -> TicketType(Workers)]
    /\ sched \in [Schedulers -> SchedType]
    /\ exec \in [Workers -> ExecType]
    /\ paused \subseteq Workers
    /\ deserted \subseteq Runs
    /\ spent \in 0 .. MaxFaults

NoRow == [status |-> "absent", key |-> 0, owner |-> Nobody, lease |-> "none"]
Idle == [at |-> "idle", key |-> 0, run |-> NoRun]
Booting == [Idle EXCEPT !.at = "dispatch"]
Free == [at |-> "free", run |-> NoRun]

Init ==
    /\ night = 0
    /\ slot = 1
    /\ run = [r \in Runs |-> NoRow]
    /\ ticket = [r \in Runs |-> NoTicket]
    /\ sched = [s \in Schedulers |-> IF s = Api THEN Idle ELSE Booting]
    /\ exec = [w \in Workers |-> Free]
    /\ paused = {}
    /\ deserted = {}
    /\ spent = 0

Strikes(kind) == kind \in Faults /\ spent < MaxFaults /\ spent' = spent + 1

Active == {r \in Runs : run[r].status = "running"}

-----------------------------------------------------------------------------
(* Mutants of the definitions below *)

ClaimableByAnyone(w, row) == row.status = "running"

ClaimableUnlessOwned(w, row) == row.status = "running" /\ row.owner \in {Nobody, w}

OwnedOrNot(w, r) == TRUE

BlockingKeyed(k) == {r \in Runs : k # 0 /\ run[r].status = "running" /\ run[r].key = k}

ClaimSlotSkipping(w) ==
    /\ sched[w].at = "claim" /\ w \notin paused
    /\ IF slot = sched[w].key
       THEN /\ slot' = slot + 2
            /\ sched' = [sched EXCEPT ![w] = [@ EXCEPT !.at = "insert"]]
       ELSE /\ sched' = [sched EXCEPT ![w] = Booting]
            /\ UNCHANGED slot
    /\ UNCHANGED <<night, run, ticket, exec, paused, deserted, spent>>

-----------------------------------------------------------------------------
(* The schedulers *)

\* The time of day of the schedule comes.
Nightfall ==
    /\ night < MaxSlots
    /\ night' = night + 1
    /\ UNCHANGED <<slot, run, ticket, sched, exec, paused, deserted, spent>>

\* PUT /api/consolidation
Configure ==
    /\ slot' \in {0, night + 1}
    /\ UNCHANGED <<night, run, ticket, sched, exec, paused, deserted, spent>>

\* POST /api/consolidation/run
Manual ==
    /\ sched[Api].at = "idle"
    /\ sched' = [sched EXCEPT ![Api] = [at |-> "insert", key |-> 0, run |-> NoRun]]
    /\ UNCHANGED <<plan, run, ticket, exec, paused, deserted, spent>>

Due == slot \in 1 .. night

\* runDueConsolidations reads the configuration: a slot is due, or none is.
Tick(w) ==
    /\ sched[w].at = "idle" /\ w \notin paused
    /\ sched' = [sched EXCEPT ![w] = IF Due THEN [at |-> "claim", key |-> slot, run |-> NoRun]
                                     ELSE Booting]
    /\ UNCHANGED <<plan, run, ticket, exec, paused, deserted, spent>>

\* The slot moves on to the next night, unless it is no longer the one read.
ClaimSlot(w) ==
    /\ sched[w].at = "claim" /\ w \notin paused
    /\ IF slot = sched[w].key
       THEN /\ slot' = slot + 1
            /\ sched' = [sched EXCEPT ![w] = [@ EXCEPT !.at = "insert"]]
       ELSE /\ sched' = [sched EXCEPT ![w] = Booting]
            /\ UNCHANGED slot
    /\ UNCHANGED <<night, run, ticket, exec, paused, deserted, spent>>

Rest(s) == IF s = Api THEN Idle ELSE Booting

\* A run of this tenant that is still running takes the place of a new one.
Blocking(k) == Active

\* The transaction of scheduleConsolidation, under its advisory lock
Insert(s) ==
    /\ sched[s].at = "insert" /\ s \notin paused
    /\ LET k == sched[s].key
           enqueue(r) == sched' = [sched EXCEPT ![s] = [@ EXCEPT !.at = "enqueue", !.run = r]]
       IN \/ \E r \in Blocking(k) : enqueue(r) /\ UNCHANGED run
          \/ /\ Blocking(k) = {}
             /\ k # 0 /\ \E r \in Runs : run[r].key = k
             /\ sched' = [sched EXCEPT ![s] = Rest(s)]
             /\ UNCHANGED run
          \/ /\ Blocking(k) = {}
             /\ k = 0 \/ \A r \in Runs : run[r].key # k
             /\ \E r \in Runs :
                   /\ run[r].status = "absent"
                   /\ run' = [run EXCEPT ![r] = [NoRow EXCEPT !.status = "running", !.key = k]]
                   /\ enqueue(r)
    /\ UNCHANGED <<plan, ticket, exec, paused, deserted, spent>>

\* The database refuses: the error is dropped, and with it the slot.
InsertFails(s) ==
    /\ sched[s].at = "insert" /\ s \notin paused
    /\ Strikes("insert")
    /\ sched' = [sched EXCEPT ![s] = Rest(s)]
    /\ UNCHANGED <<plan, run, ticket, exec, paused, deserted>>

Enqueue(s) ==
    /\ sched[s].at = "enqueue" /\ s \notin paused
    /\ ticket' = [ticket EXCEPT ![sched[s].run] = Added(@)]
    /\ sched' = [sched EXCEPT ![s] = Rest(s)]
    /\ UNCHANGED <<plan, run, exec, paused, deserted, spent>>

\* Redis refuses: logged in the run, which waits for a dispatch.
EnqueueFails(s) ==
    /\ sched[s].at = "enqueue" /\ s \notin paused
    /\ Strikes("enqueue")
    /\ sched' = [sched EXCEPT ![s] = Rest(s)]
    /\ UNCHANGED <<plan, run, ticket, exec, paused, deserted>>

\* dispatchPendingConsolidations: at boot and at the end of every tick
Dispatch(w) ==
    /\ sched[w].at = "dispatch" /\ w \notin paused
    /\ ticket' = [r \in Runs |-> IF r \in Active THEN Added(ticket[r]) ELSE ticket[r]]
    /\ sched' = [sched EXCEPT ![w] = Idle]
    /\ UNCHANGED <<plan, run, exec, paused, deserted, spent>>

-----------------------------------------------------------------------------
(* executeConsolidationRun *)

Take(w) ==
    /\ exec[w].at = "free" /\ w \notin paused
    /\ \E r \in Runs :
          /\ ticket[r].state = "wait"
          /\ ticket' = [ticket EXCEPT ![r] = Taken(@, w)]
          /\ exec' = [exec EXCEPT ![w] = [at |-> "claim", run |-> r]]
    /\ UNCHANGED <<plan, run, sched, paused, deserted, spent>>

\* Its status and lease allow w to claim a run.
Claimable(w, row) ==
    row.status = "running" /\ (row.owner \in {Nobody, w} \/ row.lease = "over")

Claim(w) ==
    /\ exec[w].at = "claim" /\ w \notin paused
    /\ LET r == exec[w].run IN
          /\ Claimable(w, run[r])
          /\ run' = [run EXCEPT ![r] = [@ EXCEPT !.owner = w, !.lease = "live"]]
    /\ exec' = [exec EXCEPT ![w] = [@ EXCEPT !.at = "read"]]
    /\ deserted' = deserted \ {exec[w].run}
    /\ UNCHANGED <<plan, ticket, sched, paused, spent>>

\* Not claimed: the processor returns null, which completes the ticket.
ClaimRefused(w) ==
    /\ exec[w].at = "claim" /\ w \notin paused
    /\ ~Claimable(w, run[exec[w].run])
    /\ ticket' = [ticket EXCEPT ![exec[w].run] = Completed(@, w)]
    /\ exec' = [exec EXCEPT ![w] = Free]
    /\ UNCHANGED <<plan, run, sched, paused, deserted, spent>>

\* The workspaces of the run are read, and the heartbeat starts.
ReadWorkspaces(w) ==
    /\ exec[w].at = "read" /\ w \notin paused
    /\ exec' = [exec EXCEPT ![w] = [@ EXCEPT !.at = "work"]]
    /\ UNCHANGED <<plan, run, ticket, sched, paused, deserted, spent>>

\* The processor throws and leaves a run that it holds, or could have taken,
\* as it is.
Desert(w) ==
    LET r == exec[w].run IN
    /\ ticket' = [ticket EXCEPT ![r] = Thrown(@, w)]
    /\ deserted' = IF Claimable(w, run[r]) THEN deserted \cup {r} ELSE deserted
    /\ exec' = [exec EXCEPT ![w] = Free]

\* The database refuses the claim or, the lease taken, the query of the
\* workspaces: both come before the try block.
QueryFails(w) ==
    /\ exec[w].at \in {"claim", "read"} /\ w \notin paused
    /\ Strikes("query")
    /\ Desert(w)
    /\ UNCHANGED <<plan, run, sched, paused>>

\* The heartbeat renews the lease of a run that is still w's.
Heartbeat(w) ==
    /\ exec[w].at \in {"work", "log", "catch"} /\ w \notin paused
    /\ LET r == exec[w].run IN
          /\ run[r].owner = w /\ run[r].status = "running" /\ run[r].lease = "over"
          /\ run' = [run EXCEPT ![r] = [@ EXCEPT !.lease = "live"]]
    /\ UNCHANGED <<plan, ticket, sched, exec, paused, deserted, spent>>

\* "and lease_owner = $n" in the updates that end a run
Owned(w, r) == run[r].owner = w

Ended(r, status) ==
    [run EXCEPT ![r] = [@ EXCEPT !.status = status, !.owner = Nobody, !.lease = "none"]]

\* The scan, the citations and the relations are done.
Finish(w) ==
    /\ exec[w].at = "work" /\ w \notin paused
    /\ LET r == exec[w].run IN run' = IF Owned(w, r) THEN Ended(r, "completed") ELSE run
    /\ exec' = [exec EXCEPT ![w] = [@ EXCEPT !.at = "log"]]
    /\ UNCHANGED <<plan, ticket, sched, paused, deserted, spent>>

WorkFails(w) ==
    /\ exec[w].at = "work" /\ w \notin paused
    /\ Strikes("work")
    /\ exec' = [exec EXCEPT ![w] = [@ EXCEPT !.at = "catch"]]
    /\ UNCHANGED <<plan, run, ticket, sched, paused, deserted>>

\* The last log is written, and the processor returns.
Log(w) ==
    /\ exec[w].at = "log" /\ w \notin paused
    /\ ticket' = [ticket EXCEPT ![exec[w].run] = Completed(@, w)]
    /\ exec' = [exec EXCEPT ![w] = Free]
    /\ UNCHANGED <<plan, run, sched, paused, deserted, spent>>

LogFails(w) ==
    /\ exec[w].at = "log" /\ w \notin paused
    /\ Strikes("log")
    /\ exec' = [exec EXCEPT ![w] = [@ EXCEPT !.at = "catch"]]
    /\ UNCHANGED <<plan, run, ticket, sched, paused, deserted>>

\* The catch block records the failure and throws again.
Catch(w) ==
    /\ exec[w].at = "catch" /\ w \notin paused
    /\ LET r == exec[w].run IN
          /\ run' = IF Owned(w, r) THEN Ended(r, "failed") ELSE run
          /\ ticket' = [ticket EXCEPT ![r] = Thrown(@, w)]
    /\ exec' = [exec EXCEPT ![w] = Free]
    /\ UNCHANGED <<plan, sched, paused, deserted, spent>>

\* The database refuses that update too: the run keeps its owner and lease.
CatchFails(w) ==
    /\ exec[w].at = "catch" /\ w \notin paused
    /\ Strikes("catch")
    /\ Desert(w)
    /\ UNCHANGED <<plan, run, sched, paused>>

-----------------------------------------------------------------------------
(* Time and faults *)

\* No heartbeat for CONSOLIDATION_LEASE_SECONDS: the owner is gone, suspended,
\* or has left the run behind.
LeaseRunsOut(r) ==
    /\ run[r].lease = "live"
    /\ \/ run[r].owner = Departed
       \/ run[r].owner \in paused
       \/ run[r].owner \in Workers /\ exec[run[r].owner].run # r
    /\ run' = [run EXCEPT ![r] = [@ EXCEPT !.lease = "over"]]
    /\ UNCHANGED <<plan, ticket, sched, exec, paused, deserted, spent>>

\* The lock of a suspended process runs out.
LockLost(w) ==
    /\ w \in paused
    /\ \E r \in Runs : HeldBy(ticket[r], w) /\ ticket' = [ticket EXCEPT ![r] = Abandoned(@, w)]
    /\ UNCHANGED <<plan, run, sched, exec, paused, deserted, spent>>

StallCheck(r) ==
    /\ LockRunsOut(ticket[r])
    /\ LeaseFirst => run[r].lease # "live"
    /\ ticket' = [ticket EXCEPT ![r] = Stalled(@)]
    /\ UNCHANGED <<plan, run, sched, exec, paused, deserted, spent>>

\* The process dies; the one that replaces it has a new id.
Crash(w) ==
    /\ Strikes("crash")
    /\ run' = [r \in Runs |-> IF run[r].owner = w THEN [run[r] EXCEPT !.owner = Departed] ELSE run[r]]
    /\ ticket' = [r \in Runs |-> Abandoned(ticket[r], w)]
    /\ sched' = [sched EXCEPT ![w] = Booting]
    /\ exec' = [exec EXCEPT ![w] = Free]
    /\ paused' = paused \ {w}
    /\ UNCHANGED <<plan, deserted>>

Pause(w) ==
    /\ w \notin paused
    /\ Strikes("pause")
    /\ paused' = paused \cup {w}
    /\ UNCHANGED <<plan, run, ticket, sched, exec, deserted>>

Resume(w) ==
    /\ w \in paused
    /\ paused' = paused \ {w}
    /\ UNCHANGED <<plan, run, ticket, sched, exec, deserted, spent>>

\* Redis loses its data.
RedisLoss ==
    /\ Strikes("redis")
    /\ ticket' = [r \in Runs |-> NoTicket]
    /\ UNCHANGED <<plan, run, sched, exec, paused, deserted>>

\* A finished ticket reaches the end of its retention, a day or two weeks, long
\* after any lease it leaves behind.
Evict(r) ==
    /\ ticket[r].state \in {"completed", "failed"}
    /\ run[r].lease # "live"
    /\ ticket' = [ticket EXCEPT ![r] = NoTicket]
    /\ UNCHANGED <<plan, run, sched, exec, paused, deserted, spent>>

-----------------------------------------------------------------------------
Schedule(s) == Insert(s) \/ InsertFails(s) \/ Enqueue(s) \/ EnqueueFails(s)
Poll(w) == Tick(w) \/ ClaimSlot(w) \/ Dispatch(w)
Execute(w) ==
    \/ Claim(w) \/ ClaimRefused(w) \/ ReadWorkspaces(w) \/ QueryFails(w)
    \/ Finish(w) \/ WorkFails(w) \/ Log(w) \/ LogFails(w) \/ Catch(w) \/ CatchFails(w)

Next ==
    \/ Nightfall \/ Configure \/ Manual
    \/ \E s \in Schedulers : Schedule(s)
    \/ \E w \in Workers :
          \/ Poll(w) \/ Take(w) \/ Execute(w) \/ Heartbeat(w)
          \/ LockLost(w) \/ Crash(w) \/ Pause(w) \/ Resume(w)
    \/ \E r \in Runs : LeaseRunsOut(r) \/ StallCheck(r) \/ Evict(r)
    \/ RedisLoss

Spec == Init /\ [][Next]_vars

\* Timers fire, live processes proceed, suspended ones resume.  Nothing says
\* when a retained ticket is evicted.
LiveSpec ==
    /\ Spec
    /\ \A s \in Schedulers : WF_vars(Schedule(s))
    /\ \A w \in Workers :
          /\ WF_vars(Poll(w)) /\ WF_vars(Take(w)) /\ WF_vars(Execute(w)) /\ WF_vars(Heartbeat(w))
          /\ WF_vars(LockLost(w)) /\ WF_vars(Resume(w))
    /\ \A r \in Runs : WF_vars(LeaseRunsOut(r)) /\ WF_vars(StallCheck(r))

-----------------------------------------------------------------------------
(* Properties *)

\* One run of a tenant at a time, whoever schedules it and whenever.
OneActiveRun == Cardinality(Active) =< 1

\* The lease keeps two live processes from working on one run, also when Redis
\* has forgotten that one of them does.
OneExecutor ==
    \A w, v \in Workers :
        w # v /\ exec[w].at = "work" /\ exec[v].at = "work" => exec[w].run # exec[v].run

\* A run ends once: a process that has lost its lease cannot overrule the one
\* that took over.
EndsOnce ==
    [][\A r \in Runs : run[r].status \in {"completed", "failed"}
                       => run'[r].status = run[r].status]_vars

\* A run that was started ends, completed or failed, also when its worker dies or
\* Redis forgets its ticket (docs/11-reliability-runbook.md: the stalled job of a
\* crashed worker is delivered again), where the lease of a dead process ends before
\* its lock (LeaseFirst); or it stays for good as an executor left it that threw
\* before its try block or in its catch block.
RunsEnd ==
    \A r \in Runs :
        run[r].status = "running" ~> (run[r].status # "running" \/ [](r \in deserted))
=============================================================================

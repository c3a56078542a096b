------------------------ MODULE ConsolidationProofs ------------------------
(* What TLAPS proves of Consolidation, for any processes, runs and nights.   *)
EXTENDS Consolidation, BullQueueProofs, FiniteSetTheorems

PlanTyped    == night \in 0 .. MaxSlots /\ slot \in 0 .. MaxSlots + 1
RunsTyped    == run \in [Runs -> RowType]
TicketsSound == ticket \in [Runs -> Sound(Workers)]
SchedsTyped  == sched \in [Schedulers -> SchedType]
ExecsTyped   == exec \in [Workers -> ExecType]
FaultsTyped  == paused \subseteq Workers /\ deserted \subseteq Runs /\ spent \in 0 .. MaxFaults

\* A scheduler that enqueues and an executor at work know their run.
SchedsWired == \A s \in Schedulers : sched[s].at = "enqueue" => sched[s].run \in Runs
ExecsWired  == \A w \in Workers : exec[w].at # "free" => exec[w].run \in Runs

\* Only a run that is running has an owner.
OwnedRunning == \A r \in Runs : run[r].owner # Nobody => run[r].status = "running"

IInv == /\ PlanTyped /\ RunsTyped /\ TicketsSound /\ SchedsTyped /\ ExecsTyped /\ FaultsTyped
        /\ SchedsWired /\ ExecsWired /\ OwnedRunning

USE DEF plan

-----------------------------------------------------------------------------
(* The rows of runs, and their executors.  The steps fall into seven kinds.  *)

\* A row that is absent becomes a running one, while no other run is running.
Inserted(r) ==
    /\ Active = {} /\ run[r].status = "absent"
    /\ \E k \in 0 .. MaxSlots :
          run' = [run EXCEPT ![r] = [NoRow EXCEPT !.status = "running", !.key = k]]

\* The lease of an owned run changes, towards "over" only when nobody renews it.
Renewed(r) ==
    \E l \in {"live", "over"} :
       /\ l = "over" => \/ run[r].owner = Departed
                        \/ run[r].owner \in paused
                        \/ run[r].owner \in Workers /\ exec[run[r].owner].run # r
       /\ run[r].owner # Nobody
       /\ run' = [run EXCEPT ![r] = [@ EXCEPT !.lease = l]]

\* The executor w goes on to some place where it need not hold the lease.
Moves(w) ==
    \E e \in ExecType : /\ e.at \notin {"read", "work"}
                        /\ e.at # "free" => e.run \in Runs
                        /\ exec' = [exec EXCEPT ![w] = e]

\* w ends the run it owns, and leaves it.
Closed(w) ==
    /\ exec[w].at \in {"work", "catch"} /\ run[exec[w].run].owner = w
    /\ \E status \in {"completed", "failed"} : run' = Ended(exec[w].run, status)
    /\ Moves(w)

RowStep ==
    \/ UNCHANGED <<run, exec>>
    \/ UNCHANGED exec /\ \E r \in Runs : Inserted(r) \/ Renewed(r)
    \/ \E w \in Workers : \/ Claim(w) \/ ReadWorkspaces(w) \/ Closed(w) \/ Crash(w)
                         \/ (UNCHANGED run /\ Moves(w))

\* An executor that leaves its run behind becomes free.
LEMMA FreeMoves ==
  ASSUME NEW w \in Workers, exec' = [exec EXCEPT ![w] = Free]
  PROVE  Moves(w)
  BY DEF Moves, Free, ExecType

\* An executor that goes on to its log or its catch block keeps its run.
LEMMA OnwardMoves ==
  ASSUME ExecsTyped, ExecsWired, NEW w \in Workers, NEW at \in {"log", "catch"},
         exec[w].at # "free", exec' = [exec EXCEPT ![w] = [@ EXCEPT !.at = at]]
  PROVE  Moves(w)
  <1> DEFINE e == [exec[w] EXCEPT !.at = at]
  <1>1. e \in ExecType /\ e.at = at /\ e.run = exec[w].run
    BY DEF ExecsTyped, ExecType
  <1>2. exec' = [exec EXCEPT ![w] = e]
    OBVIOUS
  <1> HIDE DEF e
  <1> QED BY <1>1, <1>2 DEF Moves, ExecsWired

\* Every step of the specification is of one of the kinds.
LEMMA RowSteps == ASSUME IInv, [Next]_vars PROVE RowStep
  <1> USE DEF IInv
  <1>1. CASE UNCHANGED <<run, exec>>
    BY <1>1 DEF RowStep
  <1>2. ASSUME NEW s \in Schedulers, Insert(s) PROVE RowStep
    <2>1. UNCHANGED exec /\ sched[s].key \in 0 .. MaxSlots
      BY <1>2 DEF Insert, SchedsTyped, SchedType
    <2>2. UNCHANGED run \/ \E r \in Runs : Inserted(r)
      BY <1>2, <2>1 DEF Insert, Blocking, Inserted
    <2> QED BY <2>1, <2>2 DEF RowStep
  <1>3. ASSUME NEW w \in Workers, Take(w) PROVE RowStep
    <2>1. PICK r \in Runs : exec' = [exec EXCEPT ![w] = [at |-> "claim", run |-> r]]
      BY <1>3 DEF Take
    <2>2. [at |-> "claim", run |-> r] \in ExecType
      BY DEF ExecType
    <2>3. Moves(w)
      BY <2>1, <2>2 DEF Moves
    <2> QED BY <1>3, <2>3 DEF Take, RowStep
  <1>4. ASSUME NEW w \in Workers, Claim(w) \/ ReadWorkspaces(w) PROVE RowStep
    BY <1>4 DEF RowStep
  <1>5. ASSUME NEW w \in Workers, ClaimRefused(w) \/ Log(w) \/ QueryFails(w) \/ CatchFails(w)
        PROVE  RowStep
    <2>1. Moves(w) /\ UNCHANGED run
      BY <1>5, FreeMoves DEF ClaimRefused, Log, QueryFails, CatchFails, Desert
    <2> QED BY <2>1 DEF RowStep
  <1>6. ASSUME NEW w \in Workers, WorkFails(w) \/ LogFails(w) PROVE RowStep
    <2>1. Moves(w) /\ UNCHANGED run
      BY <1>6, OnwardMoves DEF WorkFails, LogFails
    <2> QED BY <2>1 DEF RowStep
  <1>7. ASSUME NEW w \in Workers, Finish(w) PROVE RowStep
    <2>1. Moves(w)
      BY <1>7, OnwardMoves DEF Finish
    <2>2. UNCHANGED run \/ Closed(w)
      BY <1>7, <2>1 DEF Finish, Owned, Closed
    <2> QED BY <2>1, <2>2 DEF RowStep
  <1>8. ASSUME NEW w \in Workers, Catch(w) PROVE RowStep
    <2>1. Moves(w)
      BY <1>8, FreeMoves DEF Catch
    <2>2. UNCHANGED run \/ Closed(w)
      BY <1>8, <2>1 DEF Catch, Owned, Closed
    <2> QED BY <2>1, <2>2 DEF RowStep
  <1>9. ASSUME NEW w \in Workers, Heartbeat(w) PROVE RowStep
    <2>1. exec[w].run \in Runs /\ w # Nobody
      BY <1>9, ConsolidationAssumption DEF Heartbeat, ExecsWired
    <2>2. Renewed(exec[w].run) /\ UNCHANGED exec
      BY <1>9, <2>1 DEF Heartbeat, Renewed
    <2> QED BY <2>1, <2>2 DEF RowStep
  <1>10. ASSUME NEW r \in Runs, LeaseRunsOut(r) PROVE RowStep
    <2>1. run[r].owner # Nobody
      BY <1>10, ConsolidationAssumption DEF LeaseRunsOut, FaultsTyped
    <2>2. Renewed(r) /\ UNCHANGED exec
      BY <1>10, <2>1 DEF LeaseRunsOut, Renewed
    <2> QED BY <2>2 DEF RowStep
  <1>11. ASSUME NEW w \in Workers, Crash(w) PROVE RowStep
    BY <1>11 DEF RowStep
  <1>12. CASE Nightfall \/ Configure \/ Manual \/ RedisLoss
    BY <1>1, <1>12 DEF Nightfall, Configure, Manual, RedisLoss
  <1>13. ASSUME NEW s \in Schedulers, InsertFails(s) \/ Enqueue(s) \/ EnqueueFails(s) PROVE RowStep
    BY <1>1, <1>13 DEF InsertFails, Enqueue, EnqueueFails
  <1>14. ASSUME NEW w \in Workers, Poll(w) \/ LockLost(w) \/ Pause(w) \/ Resume(w) PROVE RowStep
    BY <1>1, <1>14 DEF Poll, Tick, ClaimSlot, Dispatch, LockLost, Pause, Resume
  <1>15. ASSUME NEW r \in Runs, StallCheck(r) \/ Evict(r) PROVE RowStep
    BY <1>1, <1>15 DEF StallCheck, Evict
  <1>16. CASE UNCHANGED vars
    BY <1>1, <1>16 DEF vars
  <1> QED
    BY <1>2, <1>3, <1>4, <1>5, <1>6, <1>7, <1>8, <1>9, <1>10, <1>11, <1>12, <1>13, <1>14, <1>15, <1>16
       DEF Next, Schedule, Execute

\* A crash leaves a row alone, but for an owner that is gone.
LEMMA CrashedRow ==
  ASSUME RunsTyped, NEW w \in Workers, Crash(w), NEW r \in Runs
  PROVE  /\ run'[r] \in RowType /\ run'[r].status = run[r].status /\ run'[r].lease = run[r].lease
         /\ run'[r].owner = IF run[r].owner = w THEN Departed ELSE run[r].owner
  <1>1. run[r] \in RowType
    BY DEF RunsTyped
  <1>2. run'[r] = IF run[r].owner = w THEN [run[r] EXCEPT !.owner = Departed] ELSE run[r]
    BY DEF Crash
  <1>3. CASE run[r].owner = w
    BY <1>1, <1>2, <1>3 DEF RowType
  <1>4. CASE run[r].owner # w
    BY <1>1, <1>2, <1>4
  <1> QED BY <1>3, <1>4

\* An inserted row is running and has no owner; the others stay.
LEMMA InsertedRow ==
  ASSUME RunsTyped, NEW r \in Runs, Inserted(r)
  PROVE  /\ run' \in [Runs -> RowType]
         /\ run'[r].status = "running" /\ run'[r].owner = Nobody
         /\ \A q \in Runs : q # r => run'[q] = run[q]
  <1>1. PICK k \in 0 .. MaxSlots :
          run' = [run EXCEPT ![r] = [NoRow EXCEPT !.status = "running", !.key = k]]
    BY DEF Inserted
  <1> DEFINE row == [NoRow EXCEPT !.status = "running", !.key = k]
  <1>2. row \in RowType /\ row.status = "running" /\ row.owner = Nobody
    BY DEF NoRow, RowType
  <1>3. run' = [run EXCEPT ![r] = row]
    BY <1>1
  <1> HIDE DEF row
  <1> QED BY <1>2, <1>3 DEF RunsTyped

\* A renewal, and the expiry of a lease, leave status and owner alone.
LEMMA RenewedRow ==
  ASSUME RunsTyped, NEW r \in Runs, Renewed(r)
  PROVE  /\ run' \in [Runs -> RowType]
         /\ run'[r].status = run[r].status /\ run'[r].owner = run[r].owner
         /\ \A q \in Runs : q # r => run'[q] = run[q]
  <1>1. PICK l \in {"live", "over"} : run' = [run EXCEPT ![r] = [@ EXCEPT !.lease = l]]
    BY DEF Renewed
  <1> DEFINE row == [run[r] EXCEPT !.lease = l]
  <1>2. row \in RowType /\ row.status = run[r].status /\ row.owner = run[r].owner
    BY DEF RunsTyped, RowType
  <1>3. run' = [run EXCEPT ![r] = row]
    BY <1>1
  <1> HIDE DEF row
  <1> QED BY <1>2, <1>3 DEF RunsTyped

\* A claim takes a claimable row, which then is owned under a live lease.
LEMMA ClaimedRow ==
  ASSUME RunsTyped, ExecsWired, NEW w \in Workers, Claim(w)
  PROVE  LET r == exec[w].run IN
         /\ r \in Runs /\ Claimable(w, run[r])
         /\ run' \in [Runs -> RowType]
         /\ run'[r].status = "running" /\ run'[r].owner = w /\ run'[r].lease = "live"
         /\ \A q \in Runs : q # r => run'[q] = run[q]
  <1> DEFINE r == exec[w].run
             row == [run[r] EXCEPT !.owner = w, !.lease = "live"]
  <1>1. r \in Runs /\ Claimable(w, run[r]) /\ run' = [run EXCEPT ![r] = row]
    BY DEF Claim, ExecsWired
  <1>2. row \in RowType /\ row.status = "running" /\ row.owner = w /\ row.lease = "live"
    BY <1>1 DEF RunsTyped, RowType, Claimable
  <1> HIDE DEF row
  <1> QED BY <1>1, <1>2 DEF RunsTyped

\* Only its owner ends a run, and the row then has no owner.
LEMMA ClosedRow ==
  ASSUME RunsTyped, ExecsWired, NEW w \in Workers, Closed(w)
  PROVE  LET r == exec[w].run IN
         /\ r \in Runs /\ run[r].owner = w
         /\ run' \in [Runs -> RowType]
         /\ run'[r].status \in {"completed", "failed"} /\ run'[r].owner = Nobody
         /\ \A q \in Runs : q # r => run'[q] = run[q]
  <1> DEFINE r == exec[w].run
  <1>1. PICK status \in {"completed", "failed"} : run' = Ended(r, status)
    BY DEF Closed
  <1> DEFINE row == [run[r] EXCEPT !.status = status, !.owner = Nobody, !.lease = "none"]
  <1>2. r \in Runs /\ run[r].owner = w
    BY DEF Closed, ExecsWired
  <1>3. run' = [run EXCEPT ![r] = row]
    BY <1>1 DEF Ended
  <1>4. run[r] \in RowType
    BY <1>2 DEF RunsTyped
  <1>5. row \in RowType
    BY <1>4 DEF RowType
  <1>6. row.status = status /\ row.owner = Nobody
    BY <1>4 DEF RowType
  <1> HIDE DEF row
  <1> QED BY <1>2, <1>3, <1>5, <1>6 DEF RunsTyped

\* Rows keep their type, and only running rows an owner.
LEMMA RowsKept == ASSUME IInv, [Next]_vars PROVE RunsTyped' /\ OwnedRunning'
  <1> USE DEF IInv
  <1>1. CASE UNCHANGED run
    BY <1>1 DEF RunsTyped, OwnedRunning
  <1>2. ASSUME NEW r \in Runs, Inserted(r) PROVE RunsTyped' /\ OwnedRunning'
    BY <1>2, InsertedRow DEF RunsTyped, OwnedRunning
  <1>3. ASSUME NEW r \in Runs, Renewed(r) PROVE RunsTyped' /\ OwnedRunning'
    BY <1>3, RenewedRow DEF RunsTyped, OwnedRunning
  <1>4. ASSUME NEW w \in Workers, Claim(w) \/ ReadWorkspaces(w) PROVE RunsTyped' /\ OwnedRunning'
    BY <1>1, <1>4, ClaimedRow DEF RunsTyped, OwnedRunning, ReadWorkspaces
  <1>5. ASSUME NEW w \in Workers, Closed(w) PROVE RunsTyped' /\ OwnedRunning'
    BY <1>5, ClosedRow DEF RunsTyped, OwnedRunning
  <1>6. ASSUME NEW w \in Workers, Crash(w) PROVE RunsTyped' /\ OwnedRunning'
    <2>1. \E f : run' = [r \in Runs |-> f[r]]
      BY <1>6 DEF Crash
    <2>2. run' \in [Runs -> RowType]
      BY <1>6, <2>1, CrashedRow
    <2>3. w # Nobody
      BY ConsolidationAssumption
    <2> QED BY <1>6, <2>2, <2>3, CrashedRow DEF RunsTyped, OwnedRunning
  <1> QED BY <1>1, <1>2, <1>3, <1>4, <1>5, <1>6, RowSteps DEF RowStep

\* Executors keep their type, and know their run while they are at one.
LEMMA ExecsKept == ASSUME IInv, [Next]_vars PROVE ExecsTyped' /\ ExecsWired'
  <1> USE DEF IInv
  <1>1. CASE UNCHANGED exec
    BY <1>1 DEF ExecsTyped, ExecsWired
  <1>2. ASSUME NEW w \in Workers, Moves(w) PROVE ExecsTyped' /\ ExecsWired'
    BY <1>2 DEF Moves, ExecsTyped, ExecsWired
  <1>3. ASSUME NEW w \in Workers, Claim(w) \/ ReadWorkspaces(w) PROVE ExecsTyped' /\ ExecsWired'
    <2>1. PICK at \in {"read", "work"} : exec' = [exec EXCEPT ![w] = [@ EXCEPT !.at = at]]
      BY <1>3 DEF Claim, ReadWorkspaces
    <2> DEFINE e == [exec[w] EXCEPT !.at = at]
    <2>2. e \in ExecType /\ e.run = exec[w].run /\ e.run \in Runs
      BY <1>3 DEF Claim, ReadWorkspaces, ExecsTyped, ExecsWired, ExecType
    <2>3. exec' = [exec EXCEPT ![w] = e]
      BY <2>1
    <2> HIDE DEF e
    <2> QED BY <2>2, <2>3 DEF ExecsTyped, ExecsWired
  <1>4. ASSUME NEW w \in Workers, Crash(w) PROVE ExecsTyped' /\ ExecsWired'
    BY <1>4, FreeMoves, <1>2 DEF Crash
  <1> QED BY <1>1, <1>2, <1>3, <1>4, RowSteps DEF RowStep, Closed

-----------------------------------------------------------------------------
(* Schedulers, tickets and the rest.                                         *)

\* A scheduler goes to a place of SchedType, and to "enqueue" with a run only.
SchedMoves(s) ==
    \E e \in SchedType : /\ e.at = "enqueue" => e.run \in Runs
                         /\ sched' = [sched EXCEPT ![s] = e]

\* The two places where a scheduler holds no run.
LEMMA RestingPlaces ==
  /\ Idle \in SchedType /\ Idle.at # "enqueue"
  /\ Booting \in SchedType /\ Booting.at # "enqueue"
  BY ConsolidationAssumption DEF Idle, Booting, SchedType

\* Every step leaves the schedulers alone or moves one of them.
LEMMA SchedSteps ==
  ASSUME IInv, [Next]_vars
  PROVE  UNCHANGED sched \/ \E s \in Schedulers : SchedMoves(s)
  <1> USE DEF IInv
  <1>1. Manual => SchedMoves(Api)
    <2>1. [at |-> "insert", key |-> 0, run |-> NoRun] \in SchedType
      BY ConsolidationAssumption DEF SchedType
    <2> QED BY <2>1 DEF Manual, SchedMoves
  <1>2. ASSUME NEW w \in Workers, Tick(w) PROVE SchedMoves(w)
    <2>1. CASE Due
      <3>1. [at |-> "claim", key |-> slot, run |-> NoRun] \in SchedType
        BY <2>1, ConsolidationAssumption DEF Due, PlanTyped, SchedType
      <3> QED BY <1>2, <2>1, <3>1 DEF Tick, SchedMoves
    <2>2. CASE ~Due
      BY <1>2, <2>2, RestingPlaces DEF Tick, SchedMoves
    <2> QED BY <2>1, <2>2
  <1>3. ASSUME NEW w \in Workers, ClaimSlot(w) PROVE SchedMoves(w)
    <2> DEFINE e == [sched[w] EXCEPT !.at = "insert"]
    <2>1. e \in SchedType /\ e.at = "insert"
      BY DEF SchedsTyped, SchedType, Schedulers
    <2>2. sched' = [sched EXCEPT ![w] = e] \/ sched' = [sched EXCEPT ![w] = Booting]
      BY <1>3 DEF ClaimSlot
    <2> HIDE DEF e
    <2> QED BY <2>1, <2>2, RestingPlaces DEF SchedMoves
  <1>4. ASSUME NEW s \in Schedulers, sched' = [sched EXCEPT ![s] = Rest(s)] PROVE SchedMoves(s)
    BY <1>4, RestingPlaces DEF SchedMoves, Rest
  <1>5. ASSUME NEW s \in Schedulers, Insert(s) PROVE SchedMoves(s)
    <2>1. CASE sched' = [sched EXCEPT ![s] = Rest(s)]
      BY <1>4, <2>1
    <2>2. ASSUME NEW r \in Runs, sched' = [sched EXCEPT ![s] = [@ EXCEPT !.at = "enqueue", !.run = r]]
          PROVE  SchedMoves(s)
      <3> DEFINE e == [sched[s] EXCEPT !.at = "enqueue", !.run = r]
      <3>1. e \in SchedType /\ e.run = r
        BY DEF SchedsTyped, SchedType
      <3>2. sched' = [sched EXCEPT ![s] = e]
        BY <2>2
      <3> HIDE DEF e
      <3> QED BY <3>1, <3>2 DEF SchedMoves
    <2> QED BY <1>5, <2>1, <2>2 DEF Insert, Blocking, Active
  <1>6. ASSUME NEW s \in Schedulers, InsertFails(s) \/ Enqueue(s) \/ EnqueueFails(s)
        PROVE  SchedMoves(s)
    BY <1>4, <1>6 DEF InsertFails, Enqueue, EnqueueFails
  <1>7. ASSUME NEW w \in Workers, Dispatch(w) PROVE SchedMoves(w)
    BY <1>7, RestingPlaces DEF Dispatch, SchedMoves
  <1>8. ASSUME NEW w \in Workers, Crash(w) PROVE SchedMoves(w)
    BY <1>8, RestingPlaces DEF Crash, SchedMoves
  <1>9. ASSUME NEW w \in Workers,
               Take(w) \/ Execute(w) \/ Heartbeat(w) \/ LockLost(w) \/ Pause(w) \/ Resume(w)
        PROVE  UNCHANGED sched
    BY <1>9 DEF Take, Execute, Claim, ClaimRefused, ReadWorkspaces, QueryFails,
           Desert, Finish, WorkFails, Log, LogFails, Catch,
                CatchFails, Heartbeat, LockLost, Pause, Resume
  <1>10. ASSUME NEW r \in Runs, LeaseRunsOut(r) \/ StallCheck(r) \/ Evict(r) PROVE UNCHANGED sched
    BY <1>10 DEF LeaseRunsOut, StallCheck, Evict
  <1>11. CASE Nightfall \/ Configure \/ RedisLoss \/ UNCHANGED vars
    BY <1>11 DEF Nightfall, Configure, RedisLoss, vars
  <1>12. Workers \subseteq Schedulers /\ Api \in Schedulers
    BY DEF Schedulers
  <1> QED
    BY <1>1, <1>2, <1>3, <1>5, <1>6, <1>7, <1>8, <1>9, <1>10, <1>11, <1>12
       DEF Next, Schedule, Poll

\* Schedulers keep their type, and enqueue only a run they inserted.
LEMMA SchedsKept == ASSUME IInv, [Next]_vars PROVE SchedsTyped' /\ SchedsWired'
  BY SchedSteps DEF IInv, SchedsTyped, SchedsWired, SchedMoves

\* Tickets stay sound whatever BullMQ and the executors do with them.
LEMMA TicketsKept == ASSUME IInv, [Next]_vars PROVE TicketsSound'
  <1> USE DEF IInv, TicketsSound
  <1>1. CASE UNCHANGED ticket
    BY <1>1
  <1>2. ASSUME NEW r \in Runs, NEW t \in Sound(Workers), ticket' = [ticket EXCEPT ![r] = t]
        PROVE  TicketsSound'
    BY <1>2
  <1>3. ASSUME NEW f, \A r \in Runs : f[r] \in Sound(Workers), ticket' = [r \in Runs |-> f[r]]
        PROVE  TicketsSound'
    BY <1>3
  <1>4. ASSUME NEW s \in Schedulers, Enqueue(s) PROVE TicketsSound'
    <2>1. sched[s].run \in Runs
      BY <1>4 DEF Enqueue, SchedsWired
    <2> QED BY <1>2, <1>4, <2>1, AddedSound DEF Enqueue
  <1>5. ASSUME NEW w \in Workers, Dispatch(w) PROVE TicketsSound'
    BY <1>5, AddedSound DEF Dispatch
  <1>6. ASSUME NEW w \in Workers, Take(w) PROVE TicketsSound'
    <2>1. PICK r \in Runs : ticket[r].state = "wait" /\ ticket' = [ticket EXCEPT ![r] = Taken(@, w)]
      BY <1>6 DEF Take
    <2> QED BY <1>2, <2>1, TakenSound
  <1>7. ASSUME NEW w \in Workers, ClaimRefused(w) \/ Log(w) PROVE TicketsSound'
    <2>1. exec[w].run \in Runs /\ ticket' = [ticket EXCEPT ![exec[w].run] = Completed(@, w)]
      BY <1>7 DEF ClaimRefused, Log, ExecsWired
    <2> QED BY <1>2, <2>1, CompletedSound
  <1>8. ASSUME NEW w \in Workers, QueryFails(w) \/ Catch(w) \/ CatchFails(w) PROVE TicketsSound'
    <2>1. exec[w].run \in Runs /\ ticket' = [ticket EXCEPT ![exec[w].run] = Thrown(@, w)]
      BY <1>8 DEF QueryFails, Catch, CatchFails, Desert, ExecsWired
    <2> QED BY <1>2, <2>1, ThrownSound
  <1>9. ASSUME NEW w \in Workers, LockLost(w) PROVE TicketsSound'
    BY <1>2, <1>9, AbandonedSound DEF LockLost
  <1>10. ASSUME NEW r \in Runs, StallCheck(r) PROVE TicketsSound'
    BY <1>2, <1>10, StalledSound DEF StallCheck
  <1>11. ASSUME NEW w \in Workers, Crash(w) PROVE TicketsSound'
    BY <1>11, AbandonedSound DEF Crash
  <1>12. CASE RedisLoss
    BY <1>12, NoTicketSound DEF RedisLoss
  <1>13. ASSUME NEW r \in Runs, Evict(r) PROVE TicketsSound'
    BY <1>2, <1>13, NoTicketSound DEF Evict
  <1>14. ASSUME NEW s \in Schedulers, Insert(s) \/ InsertFails(s) \/ EnqueueFails(s) PROVE UNCHANGED ticket
    BY <1>14 DEF Insert, InsertFails, EnqueueFails
  <1>15. ASSUME NEW w \in Workers,
                \/ Tick(w) \/ ClaimSlot(w) \/ Claim(w) \/ ReadWorkspaces(w) \/ Finish(w)
                \/ WorkFails(w) \/ LogFails(w) \/ Heartbeat(w) \/ Pause(w) \/ Resume(w)
         PROVE  UNCHANGED ticket
    BY <1>15 DEF Tick, ClaimSlot, Claim, ReadWorkspaces, Finish, WorkFails, LogFails, Heartbeat, Pause, Resume
  <1>16. CASE Nightfall \/ Configure \/ Manual \/ UNCHANGED vars
    BY <1>16 DEF Nightfall, Configure, Manual, vars
  <1>17. ASSUME NEW r \in Runs, LeaseRunsOut(r) PROVE UNCHANGED ticket
    BY <1>17 DEF LeaseRunsOut
  <1> QED
    BY <1>1, <1>4, <1>5, <1>6, <1>7, <1>8, <1>9, <1>10, <1>11, <1>12, <1>13, <1>14, <1>15, <1>16, <1>17
       DEF Next, Schedule, Poll, Execute

\* A slot is claimed when it is due, so it moves at most one night ahead.
LEMMA PlanKept == ASSUME IInv, [Next]_vars PROVE PlanTyped'
  <1> USE ConsolidationAssumption DEF IInv, PlanTyped
  <1>1. CASE Nightfall \/ Configure
    BY <1>1 DEF Nightfall, Configure
  <1>2. ASSUME NEW w \in Workers, ClaimSlot(w) PROVE PlanTyped'
    <2>1. sched[w].key \in 0 .. MaxSlots
      BY DEF SchedsTyped, SchedType, Schedulers
    <2> QED BY <1>2, <2>1 DEF ClaimSlot
  <1>3. CASE UNCHANGED plan
    BY <1>3
  <1> QED
    BY <1>1, <1>2, <1>3
       DEF Next, vars, Manual, Schedule, Insert, InsertFails, Enqueue, EnqueueFails, Poll, Tick,
           Dispatch, Take, Execute, Claim, ClaimRefused, ReadWorkspaces, QueryFails,
           Desert, Finish, WorkFails, Log, LogFails, Catch,
           CatchFails, Heartbeat, LockLost, Crash, Pause, Resume, LeaseRunsOut, StallCheck, Evict,
           RedisLoss

\* Faults stay within their bound.
LEMMA FaultsKept == ASSUME IInv, [Next]_vars PROVE FaultsTyped'
  <1> USE DEF IInv, FaultsTyped
  <1>1. paused' \subseteq Workers /\ (deserted' \subseteq Runs)
    BY DEF ExecsWired, Next, vars, Nightfall, Configure, Manual, Schedule, Insert, InsertFails, Enqueue,
           EnqueueFails, Poll, Tick, ClaimSlot, Dispatch, Take, Execute, Claim, ClaimRefused,
           ReadWorkspaces, QueryFails, Desert, Finish,
           WorkFails, Log, LogFails, Catch, CatchFails, Heartbeat, LockLost, Crash, Pause,
           Resume, LeaseRunsOut, StallCheck, Evict, RedisLoss
  <1>2. UNCHANGED spent \/ \E kind \in FaultKinds : Strikes(kind)
    BY DEF FaultKinds, Next, vars, Nightfall, Configure, Manual, Schedule, Insert, InsertFails,
           Enqueue, EnqueueFails, Poll, Tick, ClaimSlot, Dispatch, Take, Execute, Claim,
           ClaimRefused, ReadWorkspaces, QueryFails, Desert, Finish,
           WorkFails, Log, LogFails, Catch, CatchFails, Heartbeat, LockLost,
           Crash, Pause, Resume, LeaseRunsOut, StallCheck, Evict, RedisLoss
  <1>3. ASSUME NEW kind, Strikes(kind) PROVE spent' \in 0 .. MaxFaults
    BY <1>3, ConsolidationAssumption DEF Strikes
  <1> QED BY <1>1, <1>2, <1>3

-----------------------------------------------------------------------------
(* The theorems.                                                             *)

\* The inductive invariant holds in every state.
LEMMA Invariance == Spec => []IInv
  <1>1. Init => IInv
    <2> SUFFICES ASSUME Init PROVE IInv
      OBVIOUS
    <2>1. PlanTyped /\ FaultsTyped
      BY ConsolidationAssumption DEF Init, PlanTyped, FaultsTyped
    <2>2. RunsTyped /\ OwnedRunning
      BY ConsolidationAssumption DEF Init, RunsTyped, OwnedRunning, NoRow, RowType
    <2>3. TicketsSound
      BY NoTicketSound DEF Init, TicketsSound
    <2>4. SchedsTyped /\ SchedsWired
      BY RestingPlaces DEF Init, SchedsTyped, SchedsWired
    <2>5. ExecsTyped /\ ExecsWired
      BY DEF Init, ExecsTyped, ExecsWired, Free, ExecType
    <2> QED BY <2>1, <2>2, <2>3, <2>4, <2>5 DEF IInv
  <1>2. IInv /\ [Next]_vars => IInv'
    BY RowsKept, ExecsKept, SchedsKept, TicketsKept, PlanKept, FaultsKept DEF IInv
  <1> QED BY <1>1, <1>2, PTL DEF Spec

\* Every variable has its type: in particular no night is skipped ahead of its
\* time, and no ticket is attempted more often than BullMQ was told to.
THEOREM TypeCorrect == Spec => []TypeOK
  <1>1. IInv => TypeOK
    BY DEF IInv, TypeOK, PlanTyped, RunsTyped, TicketsSound, Sound, SchedsTyped, ExecsTyped,
           FaultsTyped
  <1> QED BY <1>1, Invariance, PTL

\* A tenant never has two running runs, however many processes schedule, restart
\* and fail: a run begins only while no other is running.
THEOREM OneRunAtATime == Spec => []OneActiveRun
  <1> DEFINE Alone == \A q, r \in Active : q = r
  <1>1. Init => Alone
    BY DEF Init, Active, NoRow
  <1>2. IInv /\ Alone /\ [Next]_vars => Alone'
    <2> SUFFICES ASSUME IInv, Alone, [Next]_vars PROVE Alone'
      OBVIOUS
    <2> USE DEF IInv
    <2>1. CASE \A q \in Runs : run'[q].status = "running" => run[q].status = "running"
      BY <2>1 DEF Active
    <2>2. ASSUME NEW r \in Runs, Inserted(r) PROVE Alone'
      <3>1. \A q \in Runs : run[q].status # "running"
        BY <2>2 DEF Inserted, Active
      <3>2. \A q \in Runs : run'[q].status = "running" => q = r
        BY <2>2, <3>1, InsertedRow
      <3> QED BY <3>2 DEF Active
    <2>3. ASSUME NEW r \in Runs, Renewed(r) PROVE Alone'
      BY <2>1, <2>3, RenewedRow
    <2>4. ASSUME NEW w \in Workers, Claim(w) \/ ReadWorkspaces(w) PROVE Alone'
      BY <2>1, <2>4, ClaimedRow DEF Claimable, ReadWorkspaces
    <2>5. ASSUME NEW w \in Workers, Closed(w) PROVE Alone'
      BY <2>1, <2>5, ClosedRow
    <2>6. ASSUME NEW w \in Workers, Crash(w) PROVE Alone'
      BY <2>1, <2>6, CrashedRow
    <2> QED BY <2>1, <2>2, <2>3, <2>4, <2>5, <2>6, RowSteps DEF RowStep
  <1>3. Alone => OneActiveRun
    <2> SUFFICES ASSUME Alone PROVE Cardinality(Active) =< 1
      BY DEF OneActiveRun
    <2>1. CASE Active = {}
      BY <2>1, FS_EmptySet
    <2>2. ASSUME NEW r \in Active PROVE Cardinality(Active) =< 1
      <3>1. Active = {r}
        BY <2>2
      <3>2. Cardinality({r}) = 1
        BY FS_Singleton
      <3> QED BY <3>1, <3>2
    <2> QED BY <2>1, <2>2
  <1> HIDE DEF Alone
  <1> QED BY <1>1, <1>2, <1>3, Invariance, PTL DEF Spec

\* A run ends once: only its owner ends it, only a running run has an owner, and
\* nobody starts an ended run again, whatever a suspended process still believes.
THEOREM EndedStaysEnded == Spec => EndsOnce
  <1>1. IInv /\ [Next]_vars
        => [\A r \in Runs : run[r].status \in {"completed", "failed"}
                            => run'[r].status = run[r].status]_vars
    <2> SUFFICES ASSUME IInv, [Next]_vars, NEW q \in Runs, run[q].status \in {"completed", "failed"}
                 PROVE  run'[q].status = run[q].status
      OBVIOUS
    <2> USE DEF IInv
    <2>1. CASE UNCHANGED run
      BY <2>1
    <2>2. ASSUME NEW r \in Runs, Inserted(r) PROVE run'[q].status = run[q].status
      BY <2>2, InsertedRow DEF Inserted
    <2>3. ASSUME NEW r \in Runs, Renewed(r) PROVE run'[q].status = run[q].status
      BY <2>3, RenewedRow
    <2>4. ASSUME NEW w \in Workers, Claim(w) \/ ReadWorkspaces(w)
          PROVE  run'[q].status = run[q].status
      BY <2>4, ClaimedRow DEF Claimable, ReadWorkspaces
    <2>5. ASSUME NEW w \in Workers, Closed(w) PROVE run'[q].status = run[q].status
      <3>1. exec[w].run # q
        BY <2>5, ClosedRow, ConsolidationAssumption DEF OwnedRunning
      <3> QED BY <2>5, <3>1, ClosedRow
    <2>6. ASSUME NEW w \in Workers, Crash(w) PROVE run'[q].status = run[q].status
      BY <2>6, CrashedRow
    <2> QED BY <2>1, <2>2, <2>3, <2>4, <2>5, <2>6, RowSteps DEF RowStep
  <1> QED BY <1>1, Invariance, PTL DEF Spec, EndsOnce

\* Without suspended processes the lease keeps a run to one executor: who is at
\* work on a run owns it under a live lease, which nobody else may claim.
THEOREM LeaseExcludes ==
  ASSUME "pause" \notin Faults
  PROVE  Spec => []OneExecutor
  <1> DEFINE Leased == /\ paused = {}
                       /\ \A w \in Workers : exec[w].at \in {"read", "work"} =>
                            /\ exec[w].run \in Runs
                            /\ run[exec[w].run].owner = w /\ run[exec[w].run].lease = "live"
  <1>1. Init => Leased
    BY DEF Init, Free
  <1>2. IInv /\ Leased /\ [Next]_vars => Leased'
    <2> SUFFICES ASSUME IInv, Leased, [Next]_vars PROVE Leased'
      OBVIOUS
    <2> USE DEF IInv
    <2>1. paused' = {}
      BY DEF Next, vars, Nightfall, Configure, Manual, Schedule, Insert, InsertFails, Enqueue,
             EnqueueFails, Poll, Tick, ClaimSlot, Dispatch, Take, Execute, Claim, ClaimRefused,
             ReadWorkspaces, QueryFails, Desert, Finish,
           WorkFails, Log, LogFails, Catch, CatchFails, Heartbeat, LockLost, Crash, Pause,
             Resume, LeaseRunsOut, StallCheck, Evict, RedisLoss, Strikes
    <2>2. SUFFICES ASSUME NEW w \in Workers, exec'[w].at \in {"read", "work"}
                   PROVE  /\ exec'[w].run \in Runs
                          /\ run'[exec'[w].run].owner = w /\ run'[exec'[w].run].lease = "live"
      BY <2>1
    <2> DEFINE Goal == /\ exec'[w].run \in Runs
                       /\ run'[exec'[w].run].owner = w /\ run'[exec'[w].run].lease = "live"
               r == exec[w].run
    <2>3. w # Nobody /\ w # Departed
      BY ConsolidationAssumption
    <2>4. CASE UNCHANGED <<run, exec>>
      BY <2>2, <2>4
    <2>5. ASSUME NEW q \in Runs, Inserted(q), UNCHANGED exec PROVE Goal
      BY <2>2, <2>5, <2>3, InsertedRow DEF Inserted, OwnedRunning
    <2>6. ASSUME NEW q \in Runs, Renewed(q), UNCHANGED exec PROVE Goal
      <3>1. CASE q # r
        BY <2>2, <2>6, <3>1, RenewedRow
      <3>2. CASE q = r
        <4>1. run[r].owner = w /\ r \in Runs /\ paused = {}
          BY <2>2, <2>6
        <4>2. run' = [run EXCEPT ![r] = [@ EXCEPT !.lease = "live"]]
          BY <2>3, <2>6, <3>2, <4>1 DEF Renewed
        <4>3. run'[r].lease = "live"
          BY <4>1, <4>2 DEF RunsTyped, RowType
        <4> QED BY <2>2, <2>6, <3>2, <4>1, <4>3, RenewedRow
      <3> QED BY <3>1, <3>2
    <2>7. ASSUME NEW v \in Workers, Claim(v) PROVE Goal
      <3>1. CASE v = w
        <4>1. exec'[w].run = r
          BY <2>7, <3>1 DEF Claim, ExecsTyped, ExecType
        <4> QED BY <2>7, <3>1, <4>1, ClaimedRow
      <3>2. CASE v # w
        <4>1. exec'[w] = exec[w]
          BY <2>7, <3>2 DEF Claim, ExecsTyped
        <4>2. run[r].owner = w /\ run[r].lease = "live" /\ r \in Runs
          BY <2>2, <4>1
        <4>3. exec[v].run # r
          BY <2>3, <2>7, <3>2, <4>2, ClaimedRow DEF Claimable
        <4> QED BY <2>7, <4>1, <4>2, <4>3, ClaimedRow
      <3> QED BY <3>1, <3>2
    <2>8. ASSUME NEW v \in Workers, Moves(v), UNCHANGED run PROVE Goal
      BY <2>2, <2>8 DEF Moves, ExecsTyped
    <2>9. ASSUME NEW v \in Workers, Closed(v) PROVE Goal
      <3>1. v # w /\ exec'[w] = exec[w]
        BY <2>2, <2>9 DEF Closed, Moves, ExecsTyped
      <3>2. exec[v].run # r
        BY <2>2, <2>9, <3>1, ClosedRow
      <3> QED BY <2>2, <2>9, <3>1, <3>2, ClosedRow
    <2>10. ASSUME NEW v \in Workers, Crash(v) PROVE Goal
      <3>1. v # w /\ exec'[w] = exec[w]
        BY <2>2, <2>10 DEF Crash, Free, ExecsTyped
      <3> QED BY <2>2, <2>10, <3>1, CrashedRow
    <2>11. ASSUME NEW v \in Workers, ReadWorkspaces(v) PROVE Goal
      <3>1. exec'[w].run = r /\ exec[w].at \in {"read", "work"} /\ UNCHANGED run
        BY <2>2, <2>11 DEF ReadWorkspaces, ExecsTyped, ExecType
      <3> QED BY <3>1
    <2> QED BY <2>4, <2>5, <2>6, <2>7, <2>8, <2>9, <2>10, <2>11, RowSteps DEF RowStep
  <1>3. Leased => OneExecutor
    BY DEF OneExecutor
  <1> HIDE DEF Leased
  <1> QED BY <1>1, <1>2, <1>3, Invariance, PTL DEF Spec

-----------------------------------------------------------------------------
(* A run that is running is in somebody's hands.                             *)

(* The queue and the lease take a run away from a dead executor separately:  *)
(* a ticket that comes back before the lease is over is refused, and thereby *)
(* completed.  Calm are the systems in which it does not come too early, no  *)
(* process is suspended and Redis keeps its data.                            *)
Calm == LeaseFirst /\ Faults \cap {"pause", "redis"} = {}

Running(r) == run[r].status = "running"
On(w, r)   == exec[w].at # "free" /\ exec[w].run = r

\* Any process may claim the run.
Unleased(r) == run[r].owner = Nobody \/ run[r].lease = "over"

\* w owns the run under a live lease.
Leased(w, r) == run[r].owner = w /\ run[r].lease = "live"

\* A running run will be taken up: its id is unknown to BullMQ, so that the next
\* tick adds it, or waits, or its executor is at work, or its lock runs out; or it
\* has stalled more often than maxStalledCount, which nothing repairs.
InHand(r) ==
    \/ ticket[r].state \in {"absent", "wait"}
    \/ LockRunsOut(ticket[r])
    \/ \E w \in Workers : HeldBy(ticket[r], w) /\ On(w, r)
    \/ ticket[r].state = "failed" /\ ticket[r].stalls > MaxStalled

RunsInHand == \A r \in Runs : Running(r) => InHand(r) \/ r \in deserted

\* Executors and tickets belong together, and a ticket that comes to an executor
\* finds the lease free, unless the run was deserted.
ExecSound(w, r) ==
    /\ exec[w].at = "claim" /\ Running(r) => Unleased(r) \/ r \in deserted
    /\ exec[w].at \in {"read", "work"} => Leased(w, r)
    /\ exec[w].at = "log" => ~Running(r)
    /\ exec[w].at = "catch" /\ Running(r) => Leased(w, r)

RowSound(r) ==
    /\ run[r].owner # Nobody => run[r].lease # "none"
    /\ run[r].status = "absent" => ticket[r].state = "absent"
    /\ Running(r) /\ r \notin deserted =>
          /\ ticket[r].state \in {"absent", "wait"} => Unleased(r)
          /\ ticket[r].state # "completed"
          /\ ticket[r].state = "failed" => ticket[r].stalls > MaxStalled

Matched(r) ==
    /\ \A w \in Workers : HeldBy(ticket[r], w) <=> On(w, r)
    /\ \A w \in Workers : On(w, r) => ExecSound(w, r)
    /\ RowSound(r)

\* A scheduler enqueues a run that was inserted.
EnqueuesRuns == \A s \in Schedulers : sched[s].at = "enqueue" => run[sched[s].run].status # "absent"

Linked == paused = {} /\ (\A r \in Runs : Matched(r)) /\ EnqueuesRuns

HInv == IInv /\ Linked

\* Steps at another run, by executors of other runs, leave a run matched.
LEMMA Aside ==
  ASSUME NEW q \in Runs, Matched(q), ticket'[q] = ticket[q], run'[q] = run[q],
         q \in deserted => q \in deserted',
         \A v \in Workers : \/ exec'[v] = exec[v]
                            \/ ~On(v, q) /\ ~(exec'[v].at # "free" /\ exec'[v].run = q)
  PROVE  Matched(q)'
  <1>1. \A v \in Workers : On(v, q)' <=> On(v, q)
    BY DEF On
  <1>2. \A v \in Workers : On(v, q) => exec'[v] = exec[v]
    OBVIOUS
  <1>3. RowSound(q)'
    BY DEF Matched, RowSound, Running, Unleased
  <1>4. ASSUME NEW v \in Workers PROVE HeldBy(ticket[q], v)' <=> On(v, q)'
    BY <1>1 DEF Matched, HeldBy
  <1>5. ASSUME NEW v \in Workers, On(v, q)' PROVE ExecSound(v, q)'
    <2>1. On(v, q) /\ exec'[v] = exec[v] /\ ExecSound(v, q)
      BY <1>1, <1>2, <1>5 DEF Matched
    <2> QED BY <2>1 DEF ExecSound, Running, Unleased, Leased
  <1> QED BY <1>3, <1>4, <1>5 DEF Matched

\* An executor that is at no run can be at no other, and a ticket has one holder.
LEMMA OneHolder ==
  ASSUME NEW q \in Runs, Matched(q), NEW w \in Workers, NEW v \in Workers, On(w, q), On(v, q)
  PROVE  v = w
  BY DEF Matched, HeldBy

\* The run of an executor that is not free.
LEMMA AtItsRun ==
  ASSUME HInv, NEW w \in Workers, exec[w].at # "free"
  PROVE  /\ exec[w].run \in Runs /\ On(w, exec[w].run)
         /\ HeldBy(ticket[exec[w].run], w) /\ ExecSound(w, exec[w].run)
         /\ ticket[exec[w].run] \in TicketType(Workers)
  BY DEF HInv, Linked, IInv, ExecsWired, On, Matched, TicketsSound, Sound

\* A ticket is taken: its run has nobody, and its lease is free.
LEMMA TakeMatched ==
  ASSUME HInv, NEW w \in Workers, Take(w), NEW q \in Runs
  PROVE  Matched(q)'
  <1>1. PICK r \in Runs : /\ ticket[r].state = "wait"
                          /\ ticket' = [ticket EXCEPT ![r] = Taken(@, w)]
                          /\ exec' = [exec EXCEPT ![w] = [at |-> "claim", run |-> r]]
    BY DEF Take
  <1>2. exec[w].at = "free" /\ UNCHANGED <<run, deserted>>
    BY DEF Take
  <1>3. Matched(q) /\ ticket[r] \in TicketType(Workers) /\ TicketsSound /\ ExecsTyped
    BY DEF HInv, Linked, IInv, TicketsSound, Sound
  <1>4. CASE q # r
    BY <1>1, <1>2, <1>3, <1>4, Aside DEF On, TicketsSound, ExecsTyped
  <1>5. CASE q = r
    <2>1. ticket'[r].state = "active" /\ ticket'[r].by = w
      BY <1>1, <1>3, TicketFields DEF TicketsSound
    <2>2. exec'[w].at = "claim" /\ exec'[w].run = r
      BY <1>1, <1>3 DEF ExecsTyped
    <2>3. \A v \in Workers : v # w => exec'[v] = exec[v]
      BY <1>1, <1>3 DEF ExecsTyped
    <2>4. \A v \in Workers : ~On(v, r)
      BY <1>1, <1>3, <1>5 DEF Matched, HeldBy
    <2>5. \A v \in Workers : On(v, r)' <=> v = w
      BY <2>2, <2>3, <2>4 DEF On
    <2>6. ASSUME NEW v \in Workers PROVE HeldBy(ticket[r], v)' <=> On(v, r)'
      BY <2>1, <2>5 DEF HeldBy
    <2>7. ExecSound(w, r)'
      BY <1>1, <1>2, <1>3, <1>5, <2>2 DEF ExecSound, Matched, RowSound, Running, Unleased
    <2>8. RowSound(r)'
      BY <1>1, <1>2, <1>3, <1>5, <2>1 DEF Matched, RowSound, Running
    <2> QED BY <1>5, <2>5, <2>6, <2>7, <2>8 DEF Matched
  <1> QED BY <1>4, <1>5

\* A claim makes the executor the owner, under a live lease.
LEMMA ClaimMatched ==
  ASSUME HInv, NEW w \in Workers, Claim(w), NEW q \in Runs
  PROVE  Matched(q)'
  <1>1. exec[w].at = "claim" /\ UNCHANGED ticket
    BY DEF Claim
  <1>0. PICK r \in Runs : r = exec[w].run
    BY <1>1, AtItsRun
  <1>2. HeldBy(ticket[r], w) /\ On(w, r) /\ Matched(r) /\ Matched(q)
    BY <1>0, <1>1, AtItsRun DEF HInv, Linked
  <1>3. exec'[w].at = "read" /\ exec'[w].run = r /\ \A v \in Workers : v # w => exec'[v] = exec[v]
    BY <1>0 DEF Claim, HInv, Linked, IInv, ExecsTyped, ExecType
  <1>4. /\ run'[r].status = "running" /\ run'[r].owner = w /\ run'[r].lease = "live"
        /\ \A p \in Runs : p # r => run'[p] = run[p]
    BY <1>0, ClaimedRow DEF HInv, Linked, IInv
  <1>5. CASE q # r
    <2>1. q \in deserted => q \in deserted'
      BY <1>0, <1>5 DEF Claim
    <2> QED BY <1>1, <1>2, <1>3, <1>4, <1>5, <2>1, Aside DEF On
  <1>6. CASE q = r
    <2>1. \A v \in Workers : On(v, r)' <=> On(v, r)
      BY <1>1, <1>2, <1>3 DEF On
    <2>2. \A v \in Workers : On(v, r) => v = w
      BY <1>2, OneHolder
    <2>3. ExecSound(w, r)'
      BY <1>3, <1>4 DEF ExecSound, Leased
    <2>4. RowSound(r)'
      BY <1>1, <1>2, <1>4 DEF RowSound, Running, HeldBy
    <2>5. ASSUME NEW v \in Workers PROVE HeldBy(ticket[r], v)' <=> On(v, r)'
      BY <1>1, <1>2, <2>1 DEF HeldBy, Matched
    <2> QED BY <1>6, <2>1, <2>2, <2>3, <2>4, <2>5 DEF Matched
  <1> QED BY <1>5, <1>6

\* An executor that gives back its ticket leaves a run that is not running, or
\* that was deserted.
LEMMA LeaveMatched ==
  ASSUME HInv, NEW w \in Workers, NEW r \in Runs, On(w, r), NEW q \in Runs,
         exec' = [exec EXCEPT ![w] = Free],
         ticket'[r].state \in {"wait", "completed", "failed"},
         run'[r].status # "running" \/ r \in deserted', run'[r].status # "absent",
         deserted \subseteq deserted',
         run'[r].owner # Nobody => run'[r].lease # "none",
         \A p \in Runs : p # r => ticket'[p] = ticket[p] /\ run'[p] = run[p]
  PROVE  Matched(q)'
  <1>1. exec'[w].at = "free" /\ \A v \in Workers : v # w => exec'[v] = exec[v]
    BY DEF HInv, Linked, IInv, ExecsTyped, Free
  <1>2. Matched(q) /\ Matched(r)
    BY DEF HInv, Linked
  <1>3. CASE q # r
    BY <1>1, <1>2, <1>3, Aside DEF On
  <1>4. CASE q = r
    <2>1. \A v \in Workers : v # w => ~On(v, r)
      BY <1>2, OneHolder
    <2>2. \A v \in Workers : ~On(v, r)'
      BY <1>1, <2>1 DEF On
    <2>3. \A v \in Workers : ~HeldBy(ticket[r], v)'
      BY DEF HeldBy
    <2>4. RowSound(r)'
      BY DEF RowSound, Running
    <2> QED BY <1>4, <2>2, <2>3, <2>4 DEF Matched
  <1> QED BY <1>3, <1>4

\* A refused run is not running or was deserted: otherwise a ticket comes to an
\* executor when its lease is free.
LEMMA RefusedMatched ==
  ASSUME HInv, NEW w \in Workers, ClaimRefused(w) \/ Log(w), NEW q \in Runs
  PROVE  Matched(q)'
  <1>1. exec[w].at \in {"claim", "log"} /\ UNCHANGED <<run, deserted>>
    BY DEF ClaimRefused, Log
  <1>2. PICK r \in Runs : r = exec[w].run
    BY <1>1, AtItsRun
  <1>3. /\ On(w, r) /\ HeldBy(ticket[r], w) /\ ExecSound(w, r) /\ Matched(r)
        /\ ticket[r] \in TicketType(Workers) /\ TicketsSound
    BY <1>1, <1>2, AtItsRun DEF HInv, Linked, IInv
  <1>4. ~Running(r) \/ r \in deserted
    BY <1>2, <1>3 DEF ClaimRefused, Log, ExecSound, Unleased, Claimable, Running
  <1>5. ticket' = [ticket EXCEPT ![r] = Completed(@, w)] /\ exec' = [exec EXCEPT ![w] = Free]
    BY <1>2 DEF ClaimRefused, Log
  <1>6. /\ ticket'[r].state = "completed"
        /\ \A p \in Runs : p # r => ticket'[p] = ticket[p]
    BY <1>3, <1>5, TicketFields DEF TicketsSound
  <1>7. /\ run[r].status # "absent"
        /\ run[r].owner # Nobody => run[r].lease # "none"
    BY <1>3 DEF Matched, RowSound, HeldBy
  <1> QED BY <1>1, <1>3, <1>4, <1>5, <1>6, <1>7, LeaveMatched DEF Running

\* The executor goes on: the run has ended, or is still its own.
LEMMA OnwardMatched ==
  ASSUME HInv, NEW w \in Workers, Finish(w) \/ WorkFails(w) \/ LogFails(w), NEW q \in Runs
  PROVE  Matched(q)'
  <1>1. exec[w].at \in {"work", "log"} /\ UNCHANGED <<ticket, deserted>>
    BY DEF Finish, WorkFails, LogFails
  <1>2. PICK r \in Runs : r = exec[w].run
    BY <1>1, AtItsRun
  <1>3. On(w, r) /\ HeldBy(ticket[r], w) /\ ExecSound(w, r) /\ Matched(r) /\ Matched(q)
    BY <1>1, <1>2, AtItsRun DEF HInv, Linked
  <1>4. /\ exec'[w].run = r /\ \A v \in Workers : v # w => exec'[v] = exec[v]
        /\ exec'[w].at = IF Finish(w) THEN "log" ELSE "catch"
    <2>1. ASSUME NEW at \in {"log", "catch"}, exec' = [exec EXCEPT ![w] = [@ EXCEPT !.at = at]]
          PROVE  /\ exec'[w].run = r /\ \A v \in Workers : v # w => exec'[v] = exec[v]
                 /\ exec'[w].at = at
      BY <1>2, <2>1 DEF HInv, Linked, IInv, ExecsTyped, ExecType
    <2>2. CASE Finish(w)
      BY <2>1, <2>2 DEF Finish
    <2>3. CASE ~Finish(w)
      BY <2>1, <2>3 DEF WorkFails, LogFails
    <2> QED BY <2>2, <2>3
  <1>0. run' = IF Finish(w) /\ Owned(w, r) THEN Ended(r, "completed") ELSE run
    BY <1>2 DEF Finish, WorkFails, LogFails
  <1>5. \A p \in Runs : p # r => run'[p] = run[p]
    BY <1>0 DEF Ended
  <1>6. /\ Finish(w) => run'[r].status = "completed" /\ run'[r].owner = Nobody
        /\ ~Finish(w) => run'[r] = run[r]
    <2>1. Finish(w) => Owned(w, r)
      BY <1>2, <1>3 DEF Finish, Owned, ExecSound, Leased
    <2>2. RunsTyped
      BY DEF HInv, Linked, IInv
    <2> QED BY <1>0, <2>1, <2>2 DEF Ended, RunsTyped, RowType
  <1>7. CASE q # r
    BY <1>1, <1>3, <1>4, <1>5, <1>7, Aside DEF On
  <1>8. CASE q = r
    <2>1. \A v \in Workers : On(v, r)' <=> On(v, r)
      BY <1>1, <1>3, <1>4 DEF On
    <2>2. \A v \in Workers : On(v, r) => v = w
      BY <1>3, OneHolder
    <2>3. ExecSound(w, r)'
      BY <1>1, <1>3, <1>4, <1>6 DEF ExecSound, Running, Leased, Finish, WorkFails, LogFails
    <2>4. RowSound(r)'
      BY <1>1, <1>3, <1>6 DEF Matched, RowSound, Running, HeldBy
    <2>5. ASSUME NEW v \in Workers PROVE HeldBy(ticket[r], v)' <=> On(v, r)'
      BY <1>1, <1>3, <2>1 DEF HeldBy, Matched
    <2> QED BY <1>8, <2>1, <2>2, <2>3, <2>4, <2>5 DEF Matched
  <1> QED BY <1>7, <1>8

\* The catch block ends the run that is the executor's own.
LEMMA CatchMatched ==
  ASSUME HInv, NEW w \in Workers, Catch(w), NEW q \in Runs
  PROVE  Matched(q)'
  <1>1. exec[w].at = "catch" /\ UNCHANGED deserted
    BY DEF Catch
  <1>2. PICK r \in Runs : r = exec[w].run
    BY <1>1, AtItsRun
  <1>3. /\ On(w, r) /\ HeldBy(ticket[r], w) /\ ExecSound(w, r) /\ Matched(r)
        /\ ticket[r] \in TicketType(Workers) /\ TicketsSound /\ RunsTyped
    BY <1>1, <1>2, AtItsRun DEF HInv, Linked, IInv
  <1>4. ticket' = [ticket EXCEPT ![r] = Thrown(@, w)] /\ exec' = [exec EXCEPT ![w] = Free]
    BY <1>2 DEF Catch
  <1>5. /\ ticket'[r].state \in {"wait", "failed"}
        /\ \A p \in Runs : p # r => ticket'[p] = ticket[p]
    BY <1>3, <1>4, TicketFields DEF TicketsSound
  <1>6. run' = IF Owned(w, r) THEN Ended(r, "failed") ELSE run
    BY <1>2 DEF Catch
  <1>7. \A p \in Runs : p # r => run'[p] = run[p]
    BY <1>6 DEF Ended
  <1>8. CASE Owned(w, r)
    <2>1. run'[r].status = "failed" /\ run'[r].owner = Nobody
      BY <1>3, <1>6, <1>8 DEF Ended, RunsTyped, RowType
    <2> QED BY <1>1, <1>3, <1>4, <1>5, <1>7, <2>1, LeaveMatched
  <1>9. CASE ~Owned(w, r)
    <2>1. ~Running(r) /\ run' = run
      BY <1>1, <1>3, <1>6, <1>9 DEF Owned, ExecSound, Leased
    <2>2. run[r].status # "absent" /\ (run[r].owner # Nobody => run[r].lease # "none")
      BY <1>3 DEF Matched, RowSound, HeldBy
    <2> QED BY <1>1, <1>3, <1>4, <1>5, <2>1, <2>2, LeaveMatched DEF Running
  <1> QED BY <1>8, <1>9

\* The workspaces are read under the lease that was taken.
LEMMA ReadMatched ==
  ASSUME HInv, NEW w \in Workers, ReadWorkspaces(w), NEW q \in Runs
  PROVE  Matched(q)'
  <1>1. exec[w].at = "read" /\ UNCHANGED <<run, ticket, deserted>>
    BY DEF ReadWorkspaces
  <1>2. PICK r \in Runs : r = exec[w].run
    BY <1>1, AtItsRun
  <1>3. On(w, r) /\ HeldBy(ticket[r], w) /\ ExecSound(w, r) /\ Matched(r) /\ Matched(q)
    BY <1>1, <1>2, AtItsRun DEF HInv, Linked
  <1>4. exec'[w].at = "work" /\ exec'[w].run = r /\ \A v \in Workers : v # w => exec'[v] = exec[v]
    BY <1>2 DEF ReadWorkspaces, HInv, Linked, IInv, ExecsTyped, ExecType
  <1>5. CASE q # r
    BY <1>1, <1>3, <1>4, <1>5, Aside DEF On
  <1>6. CASE q = r
    <2>1. \A v \in Workers : On(v, r)' <=> On(v, r)
      BY <1>1, <1>3, <1>4 DEF On
    <2>2. \A v \in Workers : On(v, r) => v = w
      BY <1>3, OneHolder
    <2>3. ExecSound(w, r)'
      BY <1>1, <1>3, <1>4 DEF ExecSound, Leased
    <2>4. RowSound(r)'
      BY <1>1, <1>3 DEF Matched, RowSound, Running, Unleased
    <2>5. ASSUME NEW v \in Workers PROVE HeldBy(ticket[r], v)' <=> On(v, r)'
      BY <1>1, <1>3, <2>1 DEF HeldBy, Matched
    <2> QED BY <1>6, <2>1, <2>2, <2>3, <2>4, <2>5 DEF Matched
  <1> QED BY <1>5, <1>6

\* A run that its executor leaves running is deserted, for it was the executor's to
\* end or to claim.
LEMMA DesertMatched ==
  ASSUME HInv, NEW w \in Workers, QueryFails(w) \/ CatchFails(w), NEW q \in Runs
  PROVE  Matched(q)'
  <1>1. exec[w].at \in {"claim", "read", "catch"} /\ Desert(w) /\ UNCHANGED run
    BY DEF QueryFails, CatchFails
  <1>2. PICK r \in Runs : r = exec[w].run
    BY <1>1, AtItsRun
  <1>3. /\ On(w, r) /\ HeldBy(ticket[r], w) /\ ExecSound(w, r) /\ Matched(r)
        /\ ticket[r] \in TicketType(Workers) /\ TicketsSound
    BY <1>1, <1>2, AtItsRun DEF HInv, Linked, IInv
  <1>4. ticket' = [ticket EXCEPT ![r] = Thrown(@, w)] /\ exec' = [exec EXCEPT ![w] = Free]
    BY <1>1, <1>2 DEF Desert
  <1>5. /\ ticket'[r].state \in {"wait", "failed"}
        /\ \A p \in Runs : p # r => ticket'[p] = ticket[p]
    BY <1>3, <1>4, TicketFields DEF TicketsSound
  <1>6. deserted \subseteq deserted' /\ (Claimable(w, run[r]) => r \in deserted')
    BY <1>1, <1>2 DEF Desert
  <1>7. ~Running(r) \/ r \in deserted'
    BY <1>1, <1>3, <1>6 DEF ExecSound, Unleased, Leased, Claimable, Running, On
  <1>8. /\ run[r].status # "absent"
        /\ run[r].owner # Nobody => run[r].lease # "none"
    BY <1>3 DEF Matched, RowSound, HeldBy
  <1> QED BY <1>1, <1>3, <1>4, <1>5, <1>6, <1>7, <1>8, LeaveMatched DEF Running

\* A row changes without its ticket and its executor: a run that nobody has begins, or
\* a lease runs out that nobody renews.
LEMMA RowMatched ==
  ASSUME HInv, UNCHANGED <<exec, ticket, deserted>>, NEW r \in Runs,
         Inserted(r) \/ LeaseRunsOut(r),
         NEW q \in Runs
  PROVE  Matched(q)'
  <1> IInv /\ paused = {} /\ RunsTyped /\ Matched(q) /\ Matched(r)
    BY DEF HInv, Linked, IInv
  <1>1. CASE q # r
    <2>1. Inserted(r) => run'[q] = run[q]
      BY <1>1, InsertedRow
    <2>2. LeaseRunsOut(r) => run'[q] = run[q]
      BY <1>1 DEF LeaseRunsOut, RunsTyped
    <2> QED BY <2>1, <2>2, Aside
  <1>2. ASSUME q = r, Inserted(r) PROVE Matched(q)'
    <2>1. ticket[r].state = "absent"
      BY <1>2 DEF Inserted, Matched, RowSound
    <2>2. run'[r].status = "running" /\ run'[r].owner = Nobody
      BY <1>2, InsertedRow
    <2>3. \A v \in Workers : ~On(v, r)
      BY <2>1 DEF Matched, HeldBy
    <2>4. \A v \in Workers : ~HeldBy(ticket[r], v)' /\ ~On(v, r)'
      BY <2>1, <2>3 DEF HeldBy, On
    <2>5. RowSound(r)'
      BY <2>1, <2>2 DEF RowSound, Running, Unleased
    <2> QED BY <1>2, <2>4, <2>5 DEF Matched
  <1>3. ASSUME q = r, LeaseRunsOut(r) PROVE Matched(q)'
    <2>1. run[r].owner \notin Workers \/ exec[run[r].owner].run # r
      BY <1>3, ConsolidationAssumption DEF LeaseRunsOut
    <2>2. /\ run'[r].status = run[r].status /\ run'[r].owner = run[r].owner
          /\ run'[r].lease = "over"
      BY <1>3 DEF LeaseRunsOut, RunsTyped, RowType
    <2>3. \A v \in Workers : On(v, r) => ~Leased(v, r)
      BY <2>1 DEF On, Leased
    <2>4. ASSUME NEW v \in Workers, On(v, r)' PROVE ExecSound(v, r)'
      <3>1. On(v, r) /\ ExecSound(v, r)
        BY <2>4 DEF On, Matched
      <3> QED BY <2>2, <2>3, <3>1 DEF ExecSound, Running, Unleased
    <2>5. RowSound(r)'
      BY <2>2 DEF Matched, RowSound, Running, Unleased
    <2>6. ASSUME NEW v \in Workers PROVE HeldBy(ticket[r], v)' <=> On(v, r)'
      BY DEF HeldBy, On, Matched
    <2> QED BY <1>3, <2>4, <2>5, <2>6 DEF Matched
  <1> QED BY <1>1, <1>2, <1>3

\* A ticket that nobody holds, before and after, changes without its run: it is
\* added, found stalled when the lease is over, or evicted.
LEMMA TicketMatched ==
  ASSUME HInv, UNCHANGED <<exec, run, deserted>>, NEW r \in Runs,
         \A v \in Workers : ~HeldBy(ticket[r], v) /\ ~HeldBy(ticket[r], v)',
         run[r].status = "absent" => ticket'[r] = ticket[r],
         Running(r) /\ ticket'[r] # ticket[r]
            => \/ ticket'[r].state \in {"absent", "wait"} /\ Unleased(r)
               \/ ticket'[r].state = "failed" /\ ticket'[r].stalls > MaxStalled
               \/ r \in deserted
  PROVE  Matched(r)'
  <1> Matched(r)
    BY DEF HInv, Linked
  <1>1. \A v \in Workers : ~On(v, r) /\ ~On(v, r)'
    BY DEF Matched, On
  <1>2. CASE ticket'[r] = ticket[r]
    BY <1>2, Aside
  <1>3. CASE ticket'[r] # ticket[r]
    <2>1. RowSound(r)'
      BY <1>3 DEF Matched, RowSound, Running, Unleased
    <2> QED BY <1>1, <2>1 DEF Matched
  <1> QED BY <1>2, <1>3

\* Enqueuing or dispatching adds the ticket of a run that was inserted.
LEMMA AddMatched ==
  ASSUME HInv, UNCHANGED <<exec, run, deserted>>, NEW r \in Runs, run[r].status # "absent",
         ticket'[r] = Added(ticket[r])
  PROVE  Matched(r)'
  <1> Matched(r) /\ ticket[r] \in TicketType(Workers)
    BY DEF HInv, Linked, IInv, TicketsSound, Sound
  <1>1. CASE ticket[r].state # "absent"
    <2>1. ticket'[r] = ticket[r]
      BY <1>1 DEF Added
    <2> QED BY <2>1, Aside
  <1>2. CASE ticket[r].state = "absent"
    <2>1. ticket'[r].state = "wait"
      BY <1>2 DEF Added, NoTicket
    <2>2. \A v \in Workers : ~HeldBy(ticket[r], v) /\ ~HeldBy(ticket[r], v)'
      BY <1>2, <2>1 DEF HeldBy
    <2>3. Running(r) => Unleased(r) \/ r \in deserted
      BY <1>2 DEF Matched, RowSound
    <2> QED BY <2>1, <2>2, <2>3, TicketMatched
  <1> QED BY <1>1, <1>2

\* The stalled checker finds a ticket whose lease is over, because LeaseFirst says
\* so; a ticket is evicted when it is finished and its lease over.
LEMMA TimeMatched ==
  ASSUME HInv, Calm, NEW r \in Runs, StallCheck(r) \/ Evict(r), NEW q \in Runs
  PROVE  Matched(q)'
  <1> /\ Matched(q) /\ Matched(r) /\ TicketsSound /\ ticket[r] \in TicketType(Workers)
      /\ RunsTyped /\ UNCHANGED <<exec, run, deserted>>
    BY DEF HInv, Linked, IInv, TicketsSound, Sound, StallCheck, Evict
  <1>1. CASE q # r
    <2>1. ticket'[q] = ticket[q]
      BY <1>1 DEF StallCheck, Evict, TicketsSound
    <2> QED BY <2>1, Aside
  <1>2. Running(r) => Unleased(r)
    BY DEF StallCheck, Evict, Calm, Matched, RowSound, Unleased, RunsTyped, RowType
  <1>3. CASE StallCheck(r)
    <2>1. ticket'[r] = Stalled(ticket[r]) /\ LockRunsOut(ticket[r])
      BY <1>3 DEF StallCheck, TicketsSound
    <2>2. \/ ticket'[r].state = "wait"
          \/ ticket'[r].state = "failed" /\ ticket'[r].stalls > MaxStalled
      BY <2>1, StalledFields
    <2>3. run[r].status # "absent"
      BY <2>1 DEF LockRunsOut, Matched, RowSound
    <2>4. \A v \in Workers : ~HeldBy(ticket[r], v) /\ ~HeldBy(ticket[r], v)'
      BY <2>1, <2>2, ConsolidationAssumption DEF LockRunsOut, HeldBy
    <2>5. Matched(r)'
      BY <1>2, <2>2, <2>3, <2>4, TicketMatched
    <2> QED BY <1>1, <2>5
  <1>4. CASE Evict(r)
    <2>1. ticket'[r] = NoTicket /\ ticket[r].state \in {"completed", "failed"}
      BY <1>4 DEF Evict, TicketsSound
    <2>2. ticket'[r].state = "absent"
      BY <2>1 DEF NoTicket
    <2>3. run[r].status # "absent"
      BY <2>1 DEF Matched, RowSound
    <2>4. \A v \in Workers : ~HeldBy(ticket[r], v) /\ ~HeldBy(ticket[r], v)'
      BY <2>1, <2>2 DEF HeldBy
    <2>5. Matched(r)'
      BY <1>2, <2>2, <2>3, <2>4, TicketMatched
    <2> QED BY <1>1, <2>5
  <1> QED BY <1>3, <1>4

\* A crash leaves the run's row to nobody, its ticket without a lock and its lease
\* to run out.
LEMMA CrashMatched ==
  ASSUME HInv, NEW w \in Workers, Crash(w), NEW q \in Runs
  PROVE  Matched(q)'
  <1> /\ Matched(q) /\ ticket[q] \in TicketType(Workers) /\ RunsTyped /\ ExecsTyped
      /\ w # Nobody /\ Departed # Nobody /\ Departed \notin Workers
    BY ConsolidationAssumption DEF HInv, Linked, IInv, TicketsSound, Sound
  <1>1. /\ exec'[w].at = "free" /\ UNCHANGED deserted
        /\ \A v \in Workers : v # w => exec'[v] = exec[v]
    BY DEF Crash, Free, ExecsTyped
  <1>2. ticket'[q] = Abandoned(ticket[q], w)
    BY DEF Crash
  <1>3. /\ run'[q].status = run[q].status /\ run'[q].lease = run[q].lease
        /\ run'[q].owner = IF run[q].owner = w THEN Departed ELSE run[q].owner
    BY CrashedRow
  <1>4. ticket'[q].state = ticket[q].state /\ (ticket'[q] = ticket[q] \/ HeldBy(ticket[q], w))
    BY <1>2, TicketFields DEF HeldBy
  <1>5. HeldBy(ticket[q], w) => ticket'[q].by = Nobody
    BY <1>2, TicketFields
  <1>6. \A v \in Workers : v # w => (On(v, q)' <=> On(v, q))
    BY <1>1 DEF On
  <1>7. ~On(w, q)'
    BY <1>1 DEF On
  <1>8. ASSUME NEW v \in Workers PROVE HeldBy(ticket[q], v)' <=> On(v, q)'
    <2>1. CASE v = w
      BY <1>2, <1>5, <1>7, <2>1 DEF HeldBy, Abandoned
    <2>2. CASE v # w
      <3>1. HeldBy(ticket[q], v)' <=> HeldBy(ticket[q], v)
        BY <1>4, <1>5, <2>2, ConsolidationAssumption DEF HeldBy
      <3> QED BY <1>6, <2>2, <3>1 DEF Matched
    <2> QED BY <2>1, <2>2
  <1>9. ASSUME NEW v \in Workers, On(v, q)' PROVE ExecSound(v, q)'
    <2>1. v # w /\ On(v, q) /\ ExecSound(v, q) /\ exec'[v] = exec[v]
      BY <1>1, <1>6, <1>7, <1>9 DEF Matched
    <2> QED BY <1>1, <1>3, <2>1 DEF ExecSound, Running, Unleased, Leased
  <1>10. RowSound(q)'
    <2>1. ticket[q].state = "failed" => ticket'[q] = ticket[q]
      BY <1>4 DEF HeldBy
    <2> QED BY <1>1, <1>3, <1>4, <2>1 DEF Matched, RowSound, Running, Unleased
  <1> QED BY <1>8, <1>9, <1>10 DEF Matched

\* No process is suspended, and no heartbeat finds its lease over: without a
\* pause the lease of a live owner never is.
LEMMA CalmSteps ==
  ASSUME HInv, Calm, [Next]_vars
  PROVE  /\ paused' = {}
         /\ ~RedisLoss
         /\ \A w \in Workers : ~LockLost(w) /\ ~Heartbeat(w)
  <1> paused = {}
    BY DEF HInv, Linked
  <1>1. \A kind \in {"pause", "redis"} : ~Strikes(kind)
    BY DEF Calm, Strikes
  <1>2. paused' = {}
    BY <1>1 DEF Next, vars, Nightfall, Configure, Manual, Schedule, Insert, InsertFails, Enqueue,
       EnqueueFails, Poll, Tick, ClaimSlot, Dispatch, Take, Execute, Claim, ClaimRefused,
       ReadWorkspaces, QueryFails, Desert, Finish,
           WorkFails, Log, LogFails, Catch, CatchFails, Heartbeat, LockLost, Crash, Pause,
       Resume, LeaseRunsOut, StallCheck, Evict, RedisLoss
  <1>3. ASSUME NEW w \in Workers, Heartbeat(w) PROVE FALSE
    <2>1. /\ exec[w].at \in {"work", "log", "catch"} /\ Running(exec[w].run)
          /\ run[exec[w].run].lease = "over"
      BY <1>3 DEF Heartbeat, Running
    <2>2. ExecSound(w, exec[w].run)
      BY <2>1, AtItsRun
    <2> QED BY <2>1, <2>2 DEF ExecSound, Leased
  <1> QED BY <1>1, <1>2, <1>3 DEF RedisLoss, LockLost

\* Every step leaves every run matched.
LEMMA MatchedKept ==
  ASSUME HInv, Calm, [Next]_vars, NEW q \in Runs
  PROVE  Matched(q)'
  <1> IInv /\ Matched(q)
    BY DEF HInv, Linked
  <1>1. CASE UNCHANGED <<run, exec, ticket, deserted>>
    BY <1>1, Aside
  <1>2. ASSUME NEW s \in Schedulers, Insert(s) PROVE Matched(q)'
    <2>1. UNCHANGED <<exec, ticket, deserted>> /\ sched[s].key \in 0 .. MaxSlots
      BY <1>2 DEF Insert, IInv, SchedsTyped, SchedType
    <2>2. UNCHANGED run \/ \E r \in Runs : Inserted(r)
      BY <1>2, <2>1 DEF Insert, Blocking, Inserted
    <2> QED BY <1>1, <2>1, <2>2, RowMatched
  <1>3. ASSUME NEW s \in Schedulers, Enqueue(s) PROVE Matched(q)'
    <2>1. PICK r \in Runs : r = sched[s].run
      BY <1>3 DEF Enqueue, IInv, SchedsWired
    <2>2. /\ UNCHANGED <<exec, run, deserted>> /\ ticket' = [ticket EXCEPT ![r] = Added(@)]
          /\ run[r].status # "absent" /\ TicketsSound
      BY <1>3, <2>1 DEF Enqueue, HInv, Linked, IInv, EnqueuesRuns
    <2>3. CASE q = r
      BY <2>2, <2>3, AddMatched DEF TicketsSound
    <2>4. CASE q # r
      BY <2>2, <2>4, Aside DEF TicketsSound
    <2> QED BY <2>3, <2>4
  <1>4. ASSUME NEW w \in Workers, Dispatch(w) PROVE Matched(q)'
    <2>1. /\ UNCHANGED <<exec, run, deserted>>
          /\ ticket'[q] = IF q \in Active THEN Added(ticket[q]) ELSE ticket[q]
      BY <1>4 DEF Dispatch
    <2>2. CASE q \in Active
      BY <2>1, <2>2, AddMatched DEF Active
    <2>3. CASE q \notin Active
      BY <2>1, <2>3, Aside
    <2> QED BY <2>2, <2>3
  <1>5. ASSUME NEW w \in Workers,
               \/ Take(w) \/ Claim(w) \/ ClaimRefused(w) \/ ReadWorkspaces(w) \/ QueryFails(w)
               \/ Finish(w) \/ WorkFails(w) \/ Log(w) \/ LogFails(w) \/ Catch(w) \/ CatchFails(w)
               \/ Crash(w)
        PROVE  Matched(q)'
    BY <1>5, TakeMatched, ClaimMatched, RefusedMatched, ReadMatched, DesertMatched, OnwardMatched,
       CatchMatched, CrashMatched
  <1>6. ASSUME NEW r \in Runs, LeaseRunsOut(r) \/ StallCheck(r) \/ Evict(r)
        PROVE  Matched(q)'
    <2>1. CASE LeaseRunsOut(r)
      BY <2>1, RowMatched DEF LeaseRunsOut
    <2>2. CASE StallCheck(r) \/ Evict(r)
      BY <2>2, TimeMatched
    <2> QED BY <1>6, <2>1, <2>2
  <1>7. ASSUME NEW w \in Workers, Heartbeat(w) \/ LockLost(w)
        PROVE  Matched(q)'
    BY <1>7, CalmSteps
  <1>8. CASE RedisLoss
    BY <1>8, CalmSteps
  <1>9. ASSUME NEW s \in Schedulers, InsertFails(s) \/ EnqueueFails(s) PROVE Matched(q)'
    BY <1>1, <1>9 DEF InsertFails, EnqueueFails
  <1>10. ASSUME NEW w \in Workers, Tick(w) \/ ClaimSlot(w) \/ Pause(w) \/ Resume(w)
         PROVE  Matched(q)'
    BY <1>1, <1>10 DEF Tick, ClaimSlot, Pause, Resume
  <1>11. CASE Nightfall \/ Configure \/ Manual \/ UNCHANGED vars
    BY <1>1, <1>11 DEF Nightfall, Configure, Manual, vars
  <1> QED
    BY <1>2, <1>3, <1>4, <1>5, <1>6, <1>7, <1>8, <1>9, <1>10, <1>11
       DEF Next, Schedule, Poll, Execute

\* Runs are not removed.
LEMMA RunsStay ==
  ASSUME IInv, [Next]_vars, NEW r \in Runs, run[r].status # "absent"
  PROVE  run'[r].status # "absent"
  <1> USE DEF IInv
  <1>1. ASSUME NEW q \in Runs, Inserted(q) \/ Renewed(q) PROVE run'[r].status # "absent"
    BY <1>1, InsertedRow, RenewedRow
  <1>2. ASSUME NEW w \in Workers, Claim(w) \/ ReadWorkspaces(w) \/ Closed(w) \/ Crash(w)
        PROVE  run'[r].status # "absent"
    BY <1>2, ClaimedRow, ClosedRow, CrashedRow DEF ReadWorkspaces
  <1> QED BY <1>1, <1>2, RowSteps DEF RowStep

\* A scheduler comes to enqueue a run by inserting it, or by finding it running.
LEMMA EnqueuesKept == ASSUME IInv, EnqueuesRuns, [Next]_vars PROVE EnqueuesRuns'
  <1> SUFFICES ASSUME NEW s \in Schedulers, sched'[s].at = "enqueue"
               PROVE  run'[sched'[s].run].status # "absent"
    BY DEF EnqueuesRuns
  <1> SchedsTyped /\ SchedsWired /\ RunsTyped
    BY DEF IInv
  <1>1. CASE sched'[s] = sched[s]
    <2>1. sched[s].run \in Runs /\ run[sched[s].run].status # "absent"
      BY <1>1 DEF SchedsWired, EnqueuesRuns
    <2> QED BY <1>1, <2>1, RunsStay
  <1>2. ASSUME NEW e, e.at # "enqueue", NEW t \in Schedulers, sched' = [sched EXCEPT ![t] = e]
        PROVE  sched'[s] = sched[s]
    BY <1>2 DEF SchedsTyped
  <1>3. Idle.at # "enqueue" /\ Booting.at # "enqueue" /\ \A t \in Schedulers : Rest(t).at # "enqueue"
    BY RestingPlaces DEF Rest
  <1>4. ASSUME NEW t \in Schedulers, Insert(t) PROVE run'[sched'[s].run].status # "absent"
    <2>1. CASE sched' = [sched EXCEPT ![t] = Rest(t)]
      BY <1>1, <1>2, <1>3, <2>1
    <2>2. ASSUME NEW r \in Runs,
                 sched' = [sched EXCEPT ![t] = [@ EXCEPT !.at = "enqueue", !.run = r]],
                 run'[r].status # "absent"
          PROVE  run'[sched'[s].run].status # "absent"
      <3>1. CASE s = t
        BY <2>2, <3>1 DEF SchedsTyped, SchedType
      <3>2. CASE s # t
        BY <1>1, <2>2, <3>2 DEF SchedsTyped
      <3> QED BY <3>1, <3>2
    <2>3. ASSUME NEW r \in Runs, run' = [run EXCEPT ![r] = [NoRow EXCEPT !.status = "running", !.key = sched[t].key]]
          PROVE  run'[r].status # "absent"
      BY <2>3 DEF RunsTyped, NoRow
    <2>4. ASSUME NEW r \in Active, UNCHANGED run
          PROVE  r \in Runs /\ run'[r].status # "absent"
      BY <2>4 DEF Active
    <2> QED BY <1>4, <2>1, <2>2, <2>3, <2>4 DEF Insert, Blocking
  <1>5. CASE Manual
    <2>1. [at |-> "insert", key |-> 0, run |-> NoRun].at # "enqueue" /\ Api \in Schedulers
      BY DEF Schedulers
    <2> QED BY <1>1, <1>2, <1>5, <2>1 DEF Manual
  <1>6. ASSUME NEW w \in Workers, Tick(w) \/ ClaimSlot(w) \/ Dispatch(w) \/ Crash(w)
        PROVE  sched'[s] = sched[s]
    <2>1. w \in Schedulers
      BY DEF Schedulers
    <2>2. [at |-> "claim", key |-> slot, run |-> NoRun].at # "enqueue"
          /\ [sched[w] EXCEPT !.at = "insert"].at # "enqueue"
      BY <2>1 DEF SchedsTyped, SchedType
    <2>3. \/ sched' = [sched EXCEPT ![w] = [at |-> "claim", key |-> slot, run |-> NoRun]]
          \/ sched' = [sched EXCEPT ![w] = [sched[w] EXCEPT !.at = "insert"]]
          \/ sched' = [sched EXCEPT ![w] = Booting]
          \/ sched' = [sched EXCEPT ![w] = Idle]
      BY <1>6 DEF Tick, ClaimSlot, Dispatch, Crash
    <2> QED BY <1>2, <1>3, <2>1, <2>2, <2>3
  <1>7. ASSUME NEW t \in Schedulers, InsertFails(t) \/ Enqueue(t) \/ EnqueueFails(t)
        PROVE  sched'[s] = sched[s]
    BY <1>2, <1>3, <1>7 DEF InsertFails, Enqueue, EnqueueFails
  <1>8. ASSUME NEW w \in Workers,
               Take(w) \/ Execute(w) \/ Heartbeat(w) \/ LockLost(w) \/ Pause(w) \/ Resume(w)
        PROVE  UNCHANGED sched
    BY <1>8 DEF Take, Execute, Claim, ClaimRefused, ReadWorkspaces, QueryFails,
           Desert, Finish, WorkFails, Log, LogFails, Catch,
                CatchFails, Heartbeat, LockLost, Pause, Resume
  <1>9. ASSUME NEW r \in Runs, LeaseRunsOut(r) \/ StallCheck(r) \/ Evict(r) PROVE UNCHANGED sched
    BY <1>9 DEF LeaseRunsOut, StallCheck, Evict
  <1>10. CASE Nightfall \/ Configure \/ RedisLoss \/ UNCHANGED vars
    BY <1>1, <1>10 DEF Nightfall, Configure, RedisLoss, vars
  <1> QED
    BY <1>1, <1>4, <1>5, <1>6, <1>7, <1>8, <1>9, <1>10 DEF Next, Schedule, Poll

\* A run that was started does not get lost, however many processes crash, and
\* whichever statement fails: somebody has it in hand, or it has stalled more often
\* than maxStalledCount allows, or the executor that had it last threw outside of
\* its try block, or in its catch block, and left it running. This is the part of
\* RunsEnd that is no matter of time; it needs a lease that is over before the lock
\* of a dead process, and fails with a suspended process or a Redis that forgets.
THEOREM RunsStayInHand ==
  ASSUME Calm
  PROVE  Spec => []RunsInHand
  <1>1. Init => Linked
    <2> SUFFICES ASSUME Init PROVE Linked
      OBVIOUS
    <2>1. EnqueuesRuns
      BY RestingPlaces DEF Init, EnqueuesRuns
    <2>2. ASSUME NEW r \in Runs PROVE Matched(r)
      BY DEF Init, Matched, RowSound, HeldBy, On, Free, NoTicket, NoRow, Running
    <2> QED BY <2>1, <2>2 DEF Init, Linked
  <1>2. IInv /\ Linked /\ [Next]_vars => Linked'
    <2> SUFFICES ASSUME HInv, [Next]_vars PROVE Linked'
      BY DEF HInv
    <2>1. \A r \in Runs : Matched(r)'
      BY MatchedKept
    <2>2. paused' = {}
      BY CalmSteps
    <2>3. EnqueuesRuns'
      BY EnqueuesKept DEF HInv, Linked
    <2> QED BY <2>1, <2>2, <2>3 DEF Linked
  <1>3. IInv /\ Linked => RunsInHand
    <2> SUFFICES ASSUME IInv, Linked, NEW r \in Runs, Running(r), r \notin deserted
                 PROVE  InHand(r)
      BY DEF RunsInHand
    <2>1. Matched(r) /\ ticket[r] \in TicketType(Workers)
      BY DEF Linked, IInv, TicketsSound, Sound
    <2>2. ticket[r].state = "active" => ticket[r].by = Nobody \/ \E w \in Workers : HeldBy(ticket[r], w)
      BY <2>1 DEF TicketType, HeldBy
    <2> QED BY <2>1, <2>2 DEF Matched, RowSound, InHand, LockRunsOut, TicketType, TicketStates
  <1> QED BY <1>1, <1>2, <1>3, Invariance, PTL DEF Spec
=============================================================================

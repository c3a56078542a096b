------------------------- MODULE WechatChannelProofs -------------------------
(* What TLAPS proves of WechatChannel, for any workers, slots, messages and  *)
(* number of attempts.                                                       *)
EXTENDS WechatChannel, TLAPS

-----------------------------------------------------------------------------
(* Types *)

BindingTyped == binding \in BindingType /\ arrived \in 0 .. MaxEvents
RowsTyped    == message \in [Events -> MessageType]
TracesTyped  == trace \in [Events -> [Attempts -> TraceStatus]]
SentTyped    == sent \in [Events -> SUBSET Attempts]
ProcsTyped   == proc \in [Workers -> {"up", "leaving", "down"}]
PollersTyped == poller \in [Workers -> PollType]
TodoTyped    == todo \in [Workers -> SUBSET Events]
TasksTyped   == task \in [Slots -> TaskType]
RestTyped    == overrun \in SUBSET Events /\ moved \in BOOLEAN /\ faults \in 0 .. MaxFaults

\* An attempt under way is at a message that has a row, under its own number.
TasksWired == \A s \in Slots : Busy(s) =>
    /\ task[s].event \in Events
    /\ task[s].attempt \in Attempts
    /\ message[task[s].event].status # "none"
    /\ task[s].pc \in {"redeliver", "recomplete"} => task[s].answer \in Attempts
    /\ task[s].pc \in {"deliver", "complete"} => task[s].answer = task[s].attempt

\* A poller stores what it was given, up to where its answer ends.
PollersWired == \A w \in Workers :
    /\ poller[w].pc = "store" => poller[w].from < poller[w].got
    /\ poller[w].pc = "cursor" => poller[w].from = poller[w].got

Wired == TasksWired /\ PollersWired

USE DEF outside, inbox, attempts, history

-----------------------------------------------------------------------------
(* The kinds of steps.  A row is written by a poller, by a claim, by the     *)
(* attempt in a slot, or by the clock; a task is claimed, goes on, or ends.  *)

ClaimedRow(e) == [message[e] EXCEPT !.status = "processing", !.attempts = @ + 1,
                                    !.lease = "live"]
StoredRow(e)  == [message[e] EXCEPT !.status = "received", !.token = TRUE]

ClaimedTask(e) ==
    [pc |-> IF ~message[e].token THEN "noToken"
            ELSE IF message[e].answer # 0 THEN "redeliver"
            ELSE IF message[e].trace # 0 THEN "closeTrace"
            ELSE "startTrace",
     event |-> e, attempt |-> message[e].attempts + 1,
     answer |-> IF message[e].token THEN message[e].answer ELSE 0,
     trace |-> message[e].trace]

\* what the attempt in s may write to the row of its message, and where it is then
Writes(s, row) ==
    \/ /\ task[s].pc \in {"noToken", "startTrace"}
       /\ row = [Row(s) EXCEPT !.status = "failed", !.lease = "none"]
       /\ Leave(s)
    \/ /\ task[s].pc = "link"
       /\ row = [Row(s) EXCEPT !.trace = task[s].attempt]
       /\ Goto(s, "model")
    \/ /\ task[s].pc = "store"
       /\ row = [Row(s) EXCEPT !.answer = task[s].attempt]
       /\ task' = [task EXCEPT ![s] = [@ EXCEPT !.pc = "deliver", !.answer = task[s].attempt]]
    \/ /\ task[s].pc \in {"complete", "recomplete"}
       /\ row = [Row(s) EXCEPT !.status = "completed", !.lease = "none",
                               !.token = FALSE, !.answer = 0]
       /\ IF task[s].pc = "complete" THEN Goto(s, "event") ELSE Leave(s)
    \/ /\ task[s].pc = "retry"
       /\ row = [Row(s) EXCEPT !.lease = "none",
                  !.status = IF task[s].attempt < MaxAttempts THEN "received" ELSE "failed"]
       /\ Leave(s)

Replies(s) == sent' = [sent EXCEPT ![task[s].event] = @ \cup {task[s].answer}]

\* where the attempt in s may go without writing to the row of its message
Onward(s, pc) ==
    \/ task[s].pc = "closeTrace" /\ pc \in {"startTrace"}
    \/ task[s].pc = "startTrace" /\ pc \in {"context", "retry"}
    \/ task[s].pc = "context" /\ pc \in {"link", "retry"}
    \/ task[s].pc \in {"link", "store", "complete", "event"} /\ pc = "failTrace"
    \/ task[s].pc = "model" /\ pc \in {"persist", "failTrace"}
    \/ task[s].pc = "persist" /\ pc \in {"store", "failTrace"}
    \/ /\ task[s].pc = "deliver" /\ pc \in {"complete", "failTrace"}
       /\ pc = "complete" => Replies(s)
    \/ /\ task[s].pc = "redeliver" /\ pc \in {"recomplete", "retry"}
       /\ pc = "recomplete" => Replies(s)
    \/ task[s].pc = "recomplete" /\ pc = "retry"
    \/ task[s].pc = "failTrace" /\ pc = "retry" /\ SetTrace(s, "failed")

RowStep ==
    \/ UNCHANGED <<message, task, overrun>>
    \/ \E e \in Events :
          /\ message[e].status = "none"
          /\ message' = [message EXCEPT ![e] = StoredRow(e)]
          /\ UNCHANGED <<task, overrun>>
    \/ \E e \in Events :
          /\ message[e].status = "processing" /\ message[e].lease = "live"
          /\ message' = [message EXCEPT ![e].lease = "over"]
          /\ overrun' = IF AtWork(e) THEN overrun \cup {e} ELSE overrun
          /\ AtWork(e) => Strike("slow")
          /\ UNCHANGED task
    \/ \E w \in Workers, s \in Slots, e \in Events : Claim(w, s, e)
    \/ \E s \in Slots : /\ Busy(s)
                        /\ UNCHANGED overrun
                        /\ \E row \in MessageType : SetRow(s, row) /\ Writes(s, row)
    \/ \E s \in Slots : /\ Busy(s)
                        /\ UNCHANGED <<message, overrun>>
                        /\ \/ \E pc \in TaskPc : Onward(s, pc) /\ Goto(s, pc)
                           \/ Leave(s) /\ (task[s].pc = "event" \/ Strike("db"))
    \/ \E w \in Workers : /\ proc[w] = "leaving" \/ Strike("crash")
                          /\ UNCHANGED <<message, overrun>>
                          /\ task' = [s \in Slots |-> IF Host[s] = w THEN NoTask ELSE task[s]]

LEMMA RowSteps ==
  ASSUME RowsTyped, TasksTyped, TodoTyped, PollersTyped, BindingTyped, Wired, [Next]_vars
  PROVE  RowStep
  <1>1. CASE UNCHANGED <<message, task, overrun>>
    BY <1>1 DEF RowStep
  <1>2. ASSUME NEW w \in Workers, StoreEvent(w) PROVE RowStep
    <2> DEFINE e == poller[w].from + 1
    <2>1. e \in Events
      BY <1>2, ChannelAssumption DEF StoreEvent, Wired, PollersWired, PollersTyped, PollType, Events
    <2>2. CASE message[e].status = "none"
      BY <1>2, <2>1, <2>2 DEF StoreEvent, RowStep, StoredRow
    <2>3. CASE message[e].status # "none"
      BY <1>2, <2>3 DEF StoreEvent, RowStep
    <2> QED BY <2>2, <2>3
  <1>3. ASSUME NEW e \in Events, MessageLeaseOver(e) PROVE RowStep
    BY <1>3 DEF MessageLeaseOver, RowStep
  <1>4. ASSUME NEW w \in Workers, NEW s \in Slots, NEW e \in Events, Claim(w, s, e) PROVE RowStep
    BY <1>4 DEF RowStep
  <1>5. ASSUME NEW s \in Slots, NoToken(s) \/ Unbound(s) \/ Link(s) \/ Store(s) \/ Complete(s)
               \/ RetryOrFail(s)
        PROVE RowStep
    <2>1. Busy(s) /\ UNCHANGED overrun
      BY <1>5 DEF NoToken, Unbound, Link, Store, Complete, RetryOrFail, Busy
    <2>2. Row(s) \in MessageType /\ task[s].attempt \in 0 .. MaxAttempts
      BY <2>1 DEF Row, RowsTyped, Wired, TasksWired, TasksTyped, TaskType
    <2>3. ASSUME NEW st \in {"failed", "received"}
          PROVE  [Row(s) EXCEPT !.status = st, !.lease = "none"] \in MessageType
      BY <2>2 DEF MessageType
    <2>4. ASSUME NEW n \in 0 .. MaxAttempts
          PROVE  /\ [Row(s) EXCEPT !.trace = n] \in MessageType
                 /\ [Row(s) EXCEPT !.answer = n] \in MessageType
      BY <2>2 DEF MessageType
    <2>5. [Row(s) EXCEPT !.status = "completed", !.lease = "none", !.token = FALSE, !.answer = 0]
             \in MessageType
      <3>1. 0 \in 0 .. MaxAttempts
        BY ChannelAssumption
      <3> QED BY <2>2, <3>1 DEF MessageType
    <2>6. \E row \in MessageType : SetRow(s, row) /\ Writes(s, row)
      <3>1. CASE NoToken(s) \/ Unbound(s)
        BY <3>1, <2>3 DEF NoToken, Unbound, Writes
      <3>2. CASE Link(s)
        BY <3>2, <2>2, <2>4 DEF Link, Writes
      <3>3. CASE Store(s)
        BY <3>3, <2>2, <2>4 DEF Store, Writes
      <3>4. CASE Complete(s)
        BY <3>4, <2>5 DEF Complete, Writes
      <3>5. CASE RetryOrFail(s)
        <4> DEFINE st == IF task[s].attempt < MaxAttempts THEN "received" ELSE "failed"
                   row == [Row(s) EXCEPT !.lease = "none", !.status = st]
        <4>1. row \in MessageType
          BY <2>2 DEF MessageType
        <4>2. SetRow(s, row) /\ Writes(s, row)
          BY <3>5 DEF RetryOrFail, Writes
        <4> QED BY <4>1, <4>2
      <3> QED BY <1>5, <3>1, <3>2, <3>3, <3>4, <3>5
    <2> QED BY <2>1, <2>6 DEF RowStep
  <1>6. ASSUME NEW s \in Slots, CloseTrace(s) \/ StartTrace(s) \/ Context(s) \/ Model(s)
               \/ Persist(s) \/ Deliver(s) \/ LastEvent(s) \/ FailTrace(s) \/ Throws(s)
               \/ CatchThrows(s)
        PROVE RowStep
    <2>1. Busy(s) /\ UNCHANGED <<message, overrun>>
      BY <1>6 DEF CloseTrace, StartTrace, Context, Model, Persist, Deliver, LastEvent, FailTrace,
                  Throws, CatchThrows, Busy
    <2>2. \/ \E pc \in TaskPc : Onward(s, pc) /\ Goto(s, pc)
          \/ Leave(s) /\ (task[s].pc = "event" \/ Strike("db"))
      <3>1. CASE CloseTrace(s) \/ StartTrace(s) \/ Context(s)
        BY <3>1 DEF CloseTrace, StartTrace, Context, Onward, TaskPc
      <3>2. CASE Model(s) \/ Persist(s) \/ LastEvent(s) \/ FailTrace(s) \/ CatchThrows(s)
        BY <3>2 DEF Model, Persist, LastEvent, FailTrace, CatchThrows, Onward, TaskPc
      <3>3. CASE Deliver(s)
        BY <3>3 DEF Deliver, Onward, Replies, TaskPc
      <3>4. CASE Throws(s)
        BY <3>4 DEF Throws, Onward, TaskPc
      <3> QED BY <1>6, <3>1, <3>2, <3>3, <3>4
    <2> QED BY <2>1, <2>2 DEF RowStep
  <1>7. ASSUME NEW w \in Workers, Exit(w) PROVE RowStep
    BY <1>7 DEF Exit, RowStep
  <1>8. ASSUME NEW w \in Workers, Sync(w) \/ PollCheck(w) \/ PollReturns(w) \/ PollEmpty(w)
               \/ SaveCursor(w) \/ BackOff(w) \/ Boot(w) \/ PollFails(w) \/ Expire(w) \/ Shutdown(w)
        PROVE  UNCHANGED <<message, task, overrun>>
    BY <1>8 DEF Sync, PollCheck, PollReturns, PollEmpty, SaveCursor, BackOff, Boot, PollFails,
                Expire, Shutdown
  <1>9. ASSUME NEW w \in Workers, NEW e \in Events, ClaimRefused(w, e) \/ CapacityFull(w, e)
        PROVE  UNCHANGED <<message, task, overrun>>
    BY <1>9 DEF ClaimRefused, CapacityFull
  <1>10. CASE Arrive \/ BindingLeaseOver \/ Admin
    <2>1. UNCHANGED <<message, task, overrun>>
      BY <1>10 DEF Arrive, BindingLeaseOver, Admin, QrCode, Confirmed, Redirected, Disconnect
    <2> QED BY <2>1, <1>1
  <1>11. CASE UNCHANGED vars
    BY <1>11, <1>1 DEF vars
  <1> QED BY <1>1, <1>2, <1>3, <1>4, <1>5, <1>6, <1>7, <1>8, <1>9, <1>10, <1>11
          DEF Next, Poll, Attempt, Mishap

-----------------------------------------------------------------------------
(* Rows and tasks keep their types, and no row is ever taken away.            *)

LEMMA NoTaskTyped == NoTask \in TaskType
  BY ChannelAssumption DEF NoTask, TaskType, TaskPc

LEMMA ClaimedTyped ==
  ASSUME RowsTyped, NEW e \in Events, Claimable(e)
  PROVE  /\ ClaimedRow(e) \in MessageType
         /\ ClaimedRow(e).status = "processing"
         /\ ClaimedTask(e) \in TaskType
         /\ ClaimedTask(e).event = e
         /\ ClaimedTask(e).attempt \in Attempts
         /\ ClaimedTask(e).pc \in {"noToken", "redeliver", "closeTrace", "startTrace"}
         /\ ClaimedTask(e).pc = "redeliver" => ClaimedTask(e).answer \in Attempts
  <1>1. message[e] \in MessageType
    BY DEF RowsTyped
  <1>2. message[e].attempts + 1 \in 0 .. MaxAttempts /\ message[e].attempts + 1 \in Attempts
        /\ 0 \in 0 .. MaxAttempts
    BY <1>1, ChannelAssumption DEF Claimable, MessageType, Attempts
  <1>3. ClaimedRow(e) \in MessageType /\ ClaimedRow(e).status = "processing"
    BY <1>1, <1>2 DEF ClaimedRow, MessageType
  <1>4. e \in 0 .. MaxEvents
    BY DEF Events
  <1>5. message[e].trace \in 0 .. MaxAttempts /\ message[e].answer \in 0 .. MaxAttempts
    BY <1>1 DEF MessageType
  <1>6. ClaimedTask(e).pc \in {"noToken", "redeliver", "closeTrace", "startTrace"}
    BY DEF ClaimedTask
  <1>7. ClaimedTask(e) \in TaskType
    BY <1>2, <1>4, <1>5 DEF ClaimedTask, TaskType, TaskPc
  <1>8. ClaimedTask(e).pc = "redeliver" => ClaimedTask(e).answer \in Attempts
    BY <1>5, ChannelAssumption DEF ClaimedTask, Attempts
  <1> QED BY <1>2, <1>3, <1>6, <1>7, <1>8 DEF ClaimedTask

LEMMA ClaimSets ==
  ASSUME NEW w \in Workers, NEW s \in Slots, NEW e \in Events, Claim(w, s, e)
  PROVE  /\ Claimable(e) /\ ~Busy(s)
         /\ message' = [message EXCEPT ![e] = ClaimedRow(e)]
         /\ task' = [task EXCEPT ![s] = ClaimedTask(e)]
         /\ UNCHANGED overrun
  BY DEF Claim, ClaimedRow, ClaimedTask

\* A row changes in one place.
LEMMA RowChanges ==
  ASSUME RowsTyped, TasksTyped, TasksWired, RowStep
  PROVE  \/ UNCHANGED message
         \/ \E e \in Events, row \in MessageType :
               /\ message' = [message EXCEPT ![e] = row]
               /\ row.status # "none"
  <1>1. ASSUME NEW e \in Events, message' = [message EXCEPT ![e] = StoredRow(e)]
        PROVE  \E row \in MessageType : message' = [message EXCEPT ![e] = row] /\ row.status # "none"
    <2>1. StoredRow(e) \in MessageType /\ StoredRow(e).status # "none"
      BY DEF RowsTyped, StoredRow, MessageType
    <2> QED BY <1>1, <2>1
  <1>2. ASSUME NEW e \in Events, message[e].status = "processing",
               message' = [message EXCEPT ![e].lease = "over"]
        PROVE  \E row \in MessageType : message' = [message EXCEPT ![e] = row] /\ row.status # "none"
    <2> DEFINE row == [message[e] EXCEPT !.lease = "over"]
    <2>1. row \in MessageType /\ row.status # "none"
      BY <1>2 DEF RowsTyped, MessageType
    <2>2. message' = [message EXCEPT ![e] = row]
      BY <1>2
    <2> QED BY <2>1, <2>2
  <1>3. ASSUME NEW w \in Workers, NEW s \in Slots, NEW e \in Events, Claim(w, s, e)
        PROVE  \E row \in MessageType : message' = [message EXCEPT ![e] = row] /\ row.status # "none"
    BY <1>3, ClaimSets, ClaimedTyped
  <1>4. ASSUME NEW s \in Slots, Busy(s), NEW row \in MessageType, SetRow(s, row), Writes(s, row)
        PROVE  task[s].event \in Events /\ row.status # "none"
    <2>1. task[s].event \in Events /\ Row(s).status # "none" /\ Row(s) \in MessageType
      BY <1>4 DEF TasksWired, Row, RowsTyped
    <2>2. row.status \in {"failed", "completed", "received", Row(s).status}
      BY <1>4, <2>1 DEF Writes, MessageType
    <2> QED BY <2>1, <2>2
  <1> QED BY <1>1, <1>2, <1>3, <1>4 DEF RowStep, SetRow

LEMMA RowsStay ==
  ASSUME RowsTyped, TasksTyped, TasksWired, RowStep
  PROVE  /\ RowsTyped'
         /\ \A e \in Events : message[e].status # "none" => message'[e].status # "none"
  <1>1. CASE UNCHANGED message
    BY <1>1 DEF RowsTyped
  <1>2. ASSUME NEW e \in Events, NEW row \in MessageType, row.status # "none",
               message' = [message EXCEPT ![e] = row]
        PROVE  /\ RowsTyped'
               /\ \A x \in Events : message[x].status # "none" => message'[x].status # "none"
    <2>1. \A x \in Events : message'[x] = IF x = e THEN row ELSE message[x]
      BY <1>2 DEF RowsTyped
    <2> QED BY <1>2, <2>1 DEF RowsTyped
  <1> QED BY <1>1, <1>2, RowChanges

LEMMA TaskKept ==
  ASSUME RowsTyped, TasksTyped, TasksWired, RowStep
  PROVE  TasksTyped' /\ TasksWired'
  <1> DEFINE Sane(t) == /\ t \in TaskType
                        /\ t.pc # "idle" =>
                             /\ t.event \in Events
                             /\ t.attempt \in Attempts
                             /\ message'[t.event].status # "none"
                             /\ t.pc \in {"redeliver", "recomplete"} => t.answer \in Attempts
                             /\ t.pc \in {"deliver", "complete"} => t.answer = t.attempt
  <1>0. SUFFICES task' \in [Slots -> TaskType] /\ \A s \in Slots : Sane(task'[s])
    BY DEF TasksTyped, TasksWired, Busy
  <1>1. \A s \in Slots : Sane(task[s])
    BY RowsStay DEF TasksTyped, TasksWired, Busy
  <1>2. Sane(NoTask)
    BY NoTaskTyped DEF NoTask
  <1>3. ASSUME NEW s \in Slots, NEW t, Sane(t), task' = [task EXCEPT ![s] = t]
        PROVE  task' \in [Slots -> TaskType] /\ \A x \in Slots : Sane(task'[x])
    <2> HIDE DEF Sane
    <2>1. \A x \in Slots : task'[x] = IF x = s THEN t ELSE task[x]
      BY <1>3 DEF TasksTyped
    <2>2. \A x \in Slots : Sane(task'[x])
      BY <2>1, <1>1, <1>3
    <2>3. t \in TaskType
      BY <1>3 DEF Sane
    <2> QED BY <2>2, <2>3, <1>3 DEF TasksTyped
  <1>4. ASSUME NEW s \in Slots, Leave(s)
        PROVE  task' \in [Slots -> TaskType] /\ \A x \in Slots : Sane(task'[x])
    BY <1>2, <1>3, <1>4 DEF Leave
  <1>5. ASSUME NEW s \in Slots, Busy(s), NEW pc \in TaskPc, Goto(s, pc),
               pc \in {"redeliver", "deliver"} => FALSE,
               pc = "recomplete" => task[s].pc = "redeliver",
               pc = "complete" => task[s].pc = "deliver"
        PROVE  task' \in [Slots -> TaskType] /\ \A x \in Slots : Sane(task'[x])
    <2> DEFINE t == [task[s] EXCEPT !.pc = pc]
    <2>1. t \in TaskType /\ t.pc = pc /\ t.event = task[s].event /\ t.attempt = task[s].attempt
          /\ t.answer = task[s].answer
      BY DEF TasksTyped, TaskType
    <2>2. task' = [task EXCEPT ![s] = t]
      BY <1>5 DEF Goto
    <2>3. task[s].pc # "idle"
      BY <1>5 DEF Busy
    <2> HIDE DEF t
    <2>4. Sane(t)
      BY <2>1, <2>3, <1>1, <1>5
    <2> HIDE DEF Sane
    <2> QED BY <2>2, <2>4, <1>3
  <1>6. ASSUME NEW s \in Slots, Busy(s), NEW row \in MessageType, Writes(s, row)
        PROVE  task' \in [Slots -> TaskType] /\ \A x \in Slots : Sane(task'[x])
    <2>1. CASE Leave(s)
      BY <1>4, <2>1
    <2>2. CASE Goto(s, "model") \/ Goto(s, "event")
      BY <1>5, <1>6, <2>2 DEF TaskPc
    <2>3. CASE task' = [task EXCEPT ![s] = [@ EXCEPT !.pc = "deliver", !.answer = task[s].attempt]]
      <3> DEFINE t == [task[s] EXCEPT !.pc = "deliver", !.answer = task[s].attempt]
      <3>1. task[s].attempt \in 0 .. MaxAttempts /\ task[s] \in TaskType
        BY DEF TasksTyped, TaskType
      <3>2. t \in TaskType /\ t.pc = "deliver" /\ t.event = task[s].event
            /\ t.attempt = task[s].attempt /\ t.answer = task[s].attempt
        BY <3>1 DEF TaskType, TaskPc
      <3>3. task' = [task EXCEPT ![s] = t]
        BY <2>3
      <3> HIDE DEF t
      <3>4. Sane(t)
        BY <3>2, <1>1, <1>6 DEF Busy
      <3> HIDE DEF Sane
      <3> QED BY <3>3, <3>4, <1>3
    <2> QED BY <1>6, <2>1, <2>2, <2>3 DEF Writes
  <1>7. ASSUME NEW w \in Workers, NEW s \in Slots, NEW e \in Events, Claim(w, s, e)
        PROVE  task' \in [Slots -> TaskType] /\ \A x \in Slots : Sane(task'[x])
    <2> DEFINE t == ClaimedTask(e)
    <2>1. Claimable(e) /\ task' = [task EXCEPT ![s] = t]
          /\ message' = [message EXCEPT ![e] = ClaimedRow(e)]
      BY <1>7, ClaimSets
    <2>2. message'[e].status # "none"
      BY <2>1, ClaimedTyped DEF RowsTyped
    <2>3. Sane(t)
      BY <2>1, <2>2, ClaimedTyped
    <2> HIDE DEF t, Sane
    <2> QED BY <2>1, <2>3, <1>3
  <1>8. ASSUME NEW w \in Workers, task' = [s \in Slots |-> IF Host[s] = w THEN NoTask ELSE task[s]]
        PROVE  task' \in [Slots -> TaskType] /\ \A x \in Slots : Sane(task'[x])
    <2> HIDE DEF Sane
    <2>1. \A x \in Slots : Sane(task'[x])
      BY <1>1, <1>2, <1>8
    <2> QED BY <1>8, <2>1, NoTaskTyped DEF TasksTyped
  <1>9. CASE UNCHANGED task
    BY <1>1, <1>9 DEF TasksTyped
  <1>10. ASSUME NEW s \in Slots, Busy(s), NEW pc \in TaskPc, Onward(s, pc), Goto(s, pc)
         PROVE  task' \in [Slots -> TaskType] /\ \A x \in Slots : Sane(task'[x])
    BY <1>5, <1>10 DEF Onward
  <1> HIDE DEF Sane
  <1> QED BY <1>4, <1>6, <1>7, <1>8, <1>9, <1>10 DEF RowStep

-----------------------------------------------------------------------------
(* Pollers.  One changes its place, keeps what it has read, or reads on.      *)

Turns(w, p) ==
    \/ p.pc \in {"off", "check", "report"}
    \/ /\ p.pc = "poll" /\ p.from = binding.cursor
       /\ binding.owner = w /\ binding.lease = "live" /\ UNCHANGED binding
    \/ /\ p.pc = "store" /\ poller[w].pc = "poll"
       /\ p.from = poller[w].from /\ p.from < p.got
    \/ /\ p.pc \in {"store", "cursor"} /\ poller[w].pc = "store"
       /\ p.from = poller[w].from + 1 /\ message'[p.from].status # "none"
       /\ p.from <= p.got
       /\ (p.pc = "cursor" <=> p.from = p.got)
    \/ /\ p.pc \in {"store", "cursor"} /\ p.pc = poller[w].pc
       /\ p.from = poller[w].from /\ p.got = poller[w].got

PollerStep == \/ UNCHANGED poller
              \/ \E w \in Workers, p \in PollType :
                    Turns(w, p) /\ poller' = [poller EXCEPT ![w] = p]

LEMMA NoPollTyped == NoPoll \in PollType /\ NoPoll.pc = "off"
  BY ChannelAssumption DEF NoPoll, PollType

LEMMA StoredTyped ==
  ASSUME RowsTyped, NEW e \in Events
  PROVE  StoredRow(e) \in MessageType /\ StoredRow(e).status = "received"
  BY DEF RowsTyped, StoredRow, MessageType

LEMMA PollerSteps ==
  ASSUME BindingTyped, RowsTyped, PollersTyped, PollersWired, [Next]_vars
  PROVE  PollerStep
  <1>0. ASSUME NEW w \in Workers PROVE poller[w] \in PollType
    BY DEF PollersTyped
  <1>1. ASSUME NEW w \in Workers, poller' = [poller EXCEPT ![w] = NoPoll] PROVE PollerStep
    BY <1>1, NoPollTyped DEF PollerStep, Turns
  <1>2. ASSUME NEW w \in Workers, NEW pc \in {"check", "report"},
               poller' = [poller EXCEPT ![w].pc = pc]
        PROVE  PollerStep
    <2> DEFINE p == [poller[w] EXCEPT !.pc = pc]
    <2>1. p \in PollType /\ p.pc = pc
      BY <1>0 DEF PollType
    <2>2. poller' = [poller EXCEPT ![w] = p]
      BY <1>2
    <2> QED BY <2>1, <2>2 DEF PollerStep, Turns
  <1>3. ASSUME NEW w \in Workers, poller[w].pc \in {"store", "cursor", "report"},
               poller' = [poller EXCEPT ![w] = [@ EXCEPT !.aborted = TRUE]]
        PROVE  PollerStep
    <2> DEFINE p == [poller[w] EXCEPT !.aborted = TRUE]
    <2>1. p \in PollType /\ p.pc = poller[w].pc /\ p.from = poller[w].from /\ p.got = poller[w].got
      BY <1>0 DEF PollType
    <2>2. poller' = [poller EXCEPT ![w] = p]
      BY <1>3
    <2> HIDE DEF p
    <2>3. Turns(w, p)
      BY <1>3, <2>1 DEF Turns
    <2> QED BY <2>1, <2>2, <2>3 DEF PollerStep
  <1>4. ASSUME NEW w \in Workers, Sync(w) PROVE PollerStep
    <2>1. CASE poller' = [poller EXCEPT ![w] = [NoPoll EXCEPT !.pc = "check"]]
      <3> DEFINE p == [NoPoll EXCEPT !.pc = "check"]
      <3>1. p \in PollType /\ p.pc = "check"
        BY NoPollTyped DEF PollType
      <3>2. poller' = [poller EXCEPT ![w] = p]
        BY <2>1
      <3> QED BY <3>1, <3>2 DEF PollerStep, Turns
    <2>2. CASE UNCHANGED poller
      BY <2>2 DEF PollerStep
    <2>3. CASE poller[w].pc # "off" /\
               poller' = [poller EXCEPT ![w] = IF @.pc \in {"check", "poll"}
                                               THEN NoPoll ELSE [@ EXCEPT !.aborted = TRUE]]
      <3>1. CASE poller[w].pc \in {"check", "poll"}
        BY <2>3, <3>1, <1>1
      <3>2. CASE poller[w].pc \notin {"check", "poll"}
        BY <2>3, <3>2, <1>0, <1>3 DEF PollType
      <3> QED BY <3>1, <3>2
    <2> QED BY <1>4, <2>1, <2>2, <2>3 DEF Sync
  <1>5. ASSUME NEW w \in Workers, Shutdown(w) PROVE PollerStep
    <2>1. CASE poller[w].pc \in {"off", "check", "poll"}
      BY <1>5, <2>1, <1>1 DEF Shutdown
    <2>2. CASE poller[w].pc \notin {"off", "check", "poll"}
      BY <1>5, <2>2, <1>0, <1>3 DEF Shutdown, PollType
    <2> QED BY <2>1, <2>2
  <1>6. ASSUME NEW w \in Workers, PollCheck(w) PROVE PollerStep
    <2> DEFINE p == [poller[w] EXCEPT !.pc = "poll", !.from = binding.cursor,
                                      !.got = binding.cursor]
    <2>1. binding.cursor \in 0 .. MaxEvents
      BY DEF BindingTyped, BindingType
    <2>2. p \in PollType /\ p.pc = "poll" /\ p.from = binding.cursor
      BY <1>0, <2>1 DEF PollType
    <2>3. \/ poller' = [poller EXCEPT ![w] = NoPoll]
          \/ /\ poller' = [poller EXCEPT ![w] = p]
             /\ binding.owner = w /\ binding.lease = "live" /\ UNCHANGED binding
      BY <1>6 DEF PollCheck
    <2> HIDE DEF p
    <2> QED BY <2>2, <2>3, <1>1 DEF PollerStep, Turns
  <1>7. ASSUME NEW w \in Workers, PollReturns(w) PROVE PollerStep
    <2> DEFINE p == [poller[w] EXCEPT !.pc = "store", !.got = arrived]
    <2>1. p \in PollType /\ p.pc = "store" /\ p.from = poller[w].from /\ p.got = arrived
      BY <1>0 DEF PollType, BindingTyped
    <2>2. poller' = [poller EXCEPT ![w] = p] /\ poller[w].pc = "poll" /\ poller[w].from < arrived
      BY <1>7 DEF PollReturns
    <2> HIDE DEF p
    <2> QED BY <2>1, <2>2 DEF PollerStep, Turns
  <1>8. ASSUME NEW w \in Workers, StoreEvent(w) PROVE PollerStep
    <2> DEFINE e == poller[w].from + 1
               p == [poller[w] EXCEPT !.from = e,
                                      !.pc = IF e = poller[w].got THEN "cursor" ELSE "store"]
    <2>1. poller[w].from \in 0 .. MaxEvents /\ poller[w].got \in 0 .. MaxEvents
          /\ poller[w].from < poller[w].got
      BY <1>0, <1>8 DEF StoreEvent, PollType, PollersWired
    <2>2. e \in Events /\ e \in 0 .. MaxEvents /\ e <= poller[w].got
      BY <2>1, ChannelAssumption DEF Events
    <2>3. /\ p \in PollType /\ p.from = e /\ p.got = poller[w].got
          /\ p.pc = IF e = poller[w].got THEN "cursor" ELSE "store"
      BY <1>0, <2>2 DEF PollType
    <2>4. poller' = [poller EXCEPT ![w] = p] /\ poller[w].pc = "store"
      BY <1>8 DEF StoreEvent
    <2>5. message'[e].status # "none"
      <3>1. CASE message[e].status = "none"
        <4>1. message' = [message EXCEPT ![e] = StoredRow(e)]
          BY <1>8, <3>1 DEF StoreEvent, StoredRow
        <4> QED BY <4>1, <2>2, StoredTyped DEF RowsTyped
      <3>2. CASE message[e].status # "none"
        BY <1>8, <3>2 DEF StoreEvent
      <3> QED BY <3>1, <3>2
    <2> HIDE DEF p, e
    <2>6. p.from = poller[w].from + 1
      BY <2>3 DEF e
    <2> QED BY <2>2, <2>3, <2>4, <2>5, <2>6 DEF PollerStep, Turns
  <1>9. ASSUME NEW w \in Workers, PollFails(w) PROVE PollerStep
    BY <1>9, <1>1, <1>2 DEF PollFails
  <1>10. ASSUME NEW w \in Workers, PollEmpty(w) \/ SaveCursor(w) \/ BackOff(w) PROVE PollerStep
    BY <1>10, <1>2 DEF PollEmpty, SaveCursor, BackOff
  <1>11. ASSUME NEW w \in Workers, Expire(w) \/ Exit(w) PROVE PollerStep
    BY <1>11, <1>1 DEF Expire, Exit
  <1>12. CASE UNCHANGED poller
    BY <1>12 DEF PollerStep
  <1>13. ASSUME NEW w \in Workers, NEW e \in Events,
                \/ ClaimRefused(w, e) \/ CapacityFull(w, e)
                \/ \E s \in Slots : Claim(w, s, e)
         PROVE  UNCHANGED poller
    BY <1>13 DEF ClaimRefused, CapacityFull, Claim
  <1>17. ASSUME NEW w \in Workers, Boot(w) PROVE UNCHANGED poller
    BY <1>17 DEF Boot
  <1>14. ASSUME NEW s \in Slots, Attempt(s) \/ Throws(s) \/ CatchThrows(s) \/ Unbound(s)
         PROVE  UNCHANGED poller
    BY <1>14 DEF Attempt, NoToken, CloseTrace, StartTrace, Context, Link, Model, Persist, Store,
                 Deliver, Complete, LastEvent, FailTrace, RetryOrFail, Throws, CatchThrows, Unbound
  <1>15. CASE Arrive \/ BindingLeaseOver \/ Admin \/ UNCHANGED vars
    BY <1>12, <1>15 DEF Arrive, BindingLeaseOver, Admin, QrCode, Confirmed, Redirected, Disconnect,
                        vars
  <1>16. ASSUME NEW e \in Events, MessageLeaseOver(e) PROVE UNCHANGED poller
    BY <1>16 DEF MessageLeaseOver
  <1> QED BY <1>4, <1>5, <1>6, <1>7, <1>8, <1>9, <1>10, <1>11, <1>12, <1>13, <1>14, <1>15, <1>16,
          <1>17 DEF Next, Poll, Mishap

LEMMA PollersKept ==
  ASSUME BindingTyped, PollersTyped, PollersWired, PollerStep
  PROVE  PollersTyped' /\ PollersWired'
  <1>1. CASE UNCHANGED poller
    BY <1>1 DEF PollersTyped, PollersWired
  <1>2. ASSUME NEW w \in Workers, NEW p \in PollType, Turns(w, p),
               poller' = [poller EXCEPT ![w] = p]
        PROVE  PollersTyped' /\ PollersWired'
    <2>1. \A v \in Workers : poller'[v] = IF v = w THEN p ELSE poller[v]
      BY <1>2 DEF PollersTyped
    <2>2. p.from \in 0 .. MaxEvents /\ p.got \in 0 .. MaxEvents
      BY DEF PollType
    <2>3. p.pc = "store" => p.from < p.got
      BY <1>2, <2>2, ChannelAssumption DEF Turns, PollersWired
    <2>4. p.pc = "cursor" => p.from = p.got
      BY <1>2 DEF Turns, PollersWired
    <2>5. PollersTyped'
      BY <1>2 DEF PollersTyped
    <2>6. PollersWired'
      BY <2>1, <2>3, <2>4 DEF PollersWired
    <2> QED BY <2>5, <2>6
  <1> QED BY <1>1, <1>2 DEF PollerStep

-----------------------------------------------------------------------------
(* The other variables, and the type invariant.                               *)

\* The row of the binding changes in these ways.
BindingStep ==
    \/ UNCHANGED binding
    \/ \E status \in {"active", "pending", "expired", "disabled"},
          owner \in Workers \cup {Nobody, Departed}, lease \in {"none", "live", "over"},
          cursor \in {0, binding.cursor}, bound \in BOOLEAN :
          binding' = [status |-> status, owner |-> owner, lease |-> lease, cursor |-> cursor,
                      bound |-> bound]
    \/ \E w \in Workers : /\ poller[w].pc = "cursor"
                          /\ binding' = [binding EXCEPT !.cursor = poller[w].got]

LEMMA BindingSteps ==
  ASSUME BindingTyped, [Next]_vars
  PROVE  BindingStep
  <1> DEFINE b(st, o, l, c, bo) == [status |-> st, owner |-> o, lease |-> l, cursor |-> c,
                                    bound |-> bo]
  <1>1. binding = b(binding.status, binding.owner, binding.lease, binding.cursor, binding.bound)
        /\ binding.status \in {"active", "pending", "expired", "disabled"}
        /\ binding.owner \in Workers \cup {Nobody, Departed}
        /\ binding.lease \in {"none", "live", "over"}
        /\ binding.bound \in BOOLEAN
    BY DEF BindingTyped, BindingType
  <1>2. ASSUME NEW w \in Workers, binding' = [binding EXCEPT !.owner = w, !.lease = "live"]
        PROVE  BindingStep
    <2>1. binding' = b(binding.status, w, "live", binding.cursor, binding.bound)
      BY <1>1, <1>2
    <2> QED BY <1>1, <2>1 DEF BindingStep
  <1>3. CASE binding' = [binding EXCEPT !.status = "expired", !.owner = Nobody, !.lease = "none"]
    <2>1. binding' = b("expired", Nobody, "none", binding.cursor, binding.bound)
      BY <1>1, <1>3
    <2> QED BY <1>1, <2>1 DEF BindingStep
  <1>4. CASE binding' = [binding EXCEPT !.lease = "over"]
    <2>1. binding' = b(binding.status, binding.owner, "over", binding.cursor, binding.bound)
      BY <1>1, <1>4
    <2> QED BY <1>1, <2>1 DEF BindingStep
  <1>5. CASE binding' = [binding EXCEPT !.owner = Nobody, !.lease = "none"]
    <2>1. binding' = b(binding.status, Nobody, "none", binding.cursor, binding.bound)
      BY <1>1, <1>5
    <2> QED BY <1>1, <2>1 DEF BindingStep
  <1>6. CASE binding' = [binding EXCEPT !.owner = Departed]
    <2>1. binding' = b(binding.status, Departed, binding.lease, binding.cursor, binding.bound)
      BY <1>1, <1>6
    <2> QED BY <1>1, <2>1 DEF BindingStep
  <1>7. CASE QrCode
    <2>1. binding' = b("pending", binding.owner, binding.lease, binding.cursor, binding.bound)
      BY <1>1, <1>7 DEF QrCode
    <2> QED BY <1>1, <2>1 DEF BindingStep
  <1>8. CASE Confirmed
    <2>1. binding' = b("active", binding.owner, binding.lease, 0, TRUE)
      BY <1>1, <1>8 DEF Confirmed
    <2> QED BY <1>1, <2>1 DEF BindingStep
  <1>9. CASE Redirected
    <2>1. binding' = b("active", Nobody, "none", binding.cursor, binding.bound)
      BY <1>1, <1>9 DEF Redirected
    <2> QED BY <1>1, <2>1 DEF BindingStep
  <1>10. CASE Disconnect
    <2>1. binding' = b("disabled", Nobody, "none", 0, FALSE)
      BY <1>1, <1>10 DEF Disconnect
    <2> QED BY <1>1, <2>1 DEF BindingStep
  <1> HIDE DEF b
  <1>11. CASE UNCHANGED binding
    BY <1>11 DEF BindingStep
  <1>12. ASSUME NEW w \in Workers, Sync(w) \/ Expire(w) \/ Shutdown(w) \/ Exit(w) PROVE BindingStep
    BY <1>12, <1>2, <1>3, <1>5, <1>6, <1>11 DEF Sync, Expire, Shutdown, Exit
  <1>13. ASSUME NEW w \in Workers, SaveCursor(w) PROVE BindingStep
    BY <1>13, <1>11 DEF SaveCursor, BindingStep
  <1>14. ASSUME NEW w \in Workers,
                PollCheck(w) \/ PollReturns(w) \/ PollEmpty(w) \/ StoreEvent(w) \/ BackOff(w)
                \/ Boot(w) \/ PollFails(w)
         PROVE  UNCHANGED binding
    BY <1>14 DEF PollCheck, PollReturns, PollEmpty, StoreEvent, BackOff, Boot, PollFails
  <1>15. ASSUME NEW w \in Workers, NEW e \in Events,
                \/ ClaimRefused(w, e) \/ CapacityFull(w, e)
                \/ \E s \in Slots : Claim(w, s, e)
         PROVE  UNCHANGED binding
    BY <1>15 DEF ClaimRefused, CapacityFull, Claim
  <1>16. ASSUME NEW s \in Slots, Attempt(s) \/ Throws(s) \/ CatchThrows(s) \/ Unbound(s)
         PROVE  UNCHANGED binding
    BY <1>16 DEF Attempt, NoToken, CloseTrace, StartTrace, Context, Link, Model, Persist, Store,
                 Deliver, Complete, LastEvent, FailTrace, RetryOrFail, Throws, CatchThrows, Unbound
  <1>17. ASSUME NEW e \in Events, MessageLeaseOver(e) PROVE UNCHANGED binding
    BY <1>17 DEF MessageLeaseOver
  <1>18. CASE Arrive \/ UNCHANGED vars
    BY <1>18, <1>11 DEF Arrive, vars
  <1>19. CASE BindingLeaseOver
    BY <1>19, <1>4 DEF BindingLeaseOver
  <1> QED BY <1>7, <1>8, <1>9, <1>10, <1>11, <1>12, <1>13, <1>14, <1>15, <1>16, <1>17, <1>18,
             <1>19 DEF Next, Poll, Mishap, Admin

LEMMA BindingKept ==
  ASSUME BindingTyped, PollersTyped, [Next]_vars
  PROVE  BindingTyped'
  <1>1. arrived' \in 0 .. MaxEvents
    <2>1. CASE Arrive
      BY <2>1, ChannelAssumption DEF Arrive, BindingTyped
    <2>2. CASE ~Arrive
      <3>1. UNCHANGED arrived
        BY <2>2 DEF Next, Poll, Mishap, Admin, vars, BindingLeaseOver, Sync, PollCheck, PollReturns,
           PollEmpty, StoreEvent, SaveCursor, BackOff, Exit, Boot, ClaimRefused, CapacityFull, Claim,
           Attempt, NoToken, CloseTrace, StartTrace, Context, Link, Model, Persist, Store, Deliver,
           Complete, LastEvent, FailTrace, RetryOrFail, MessageLeaseOver, PollFails, Expire,
           Shutdown, Throws, CatchThrows, Unbound, QrCode, Confirmed, Redirected, Disconnect
      <3> QED BY <3>1 DEF BindingTyped
    <2> QED BY <2>1, <2>2
  <1>2. binding' \in BindingType
    <2>1. CASE UNCHANGED binding
      BY <2>1 DEF BindingTyped
    <2>2. ASSUME NEW w \in Workers, poller[w].pc = "cursor",
                 binding' = [binding EXCEPT !.cursor = poller[w].got]
          PROVE  binding' \in BindingType
      BY <2>2 DEF BindingTyped, BindingType, PollersTyped, PollType
    <2>3. 0 \in 0 .. MaxEvents /\ binding.cursor \in 0 .. MaxEvents
      BY ChannelAssumption DEF BindingTyped, BindingType
    <2>4. CASE BindingStep /\ ~UNCHANGED binding
               /\ ~\E w \in Workers : /\ poller[w].pc = "cursor"
                                      /\ binding' = [binding EXCEPT !.cursor = poller[w].got]
      BY <2>3, <2>4 DEF BindingStep, BindingType
    <2> QED BY <2>1, <2>2, <2>4, BindingSteps
  <1> QED BY <1>1, <1>2 DEF BindingTyped

\* A trace that is still running may be closed by others; every other change is
\* made by the attempt whose trace it is.
Recorded(s, e, n, status) ==
    /\ Busy(s) /\ task[s].event = e /\ task[s].attempt = n
    /\ \/ task[s].pc = "startTrace" /\ status = "running" /\ Goto(s, "context")
       \/ task[s].pc = "context" /\ status = "failed" /\ Goto(s, "retry")
       \/ task[s].pc = "persist" /\ status = "completed" /\ Goto(s, "store")
       \/ task[s].pc = "failTrace" /\ status = "failed" /\ Goto(s, "retry")

TraceStep ==
    /\ trace' \in [Events -> [Attempts -> TraceStatus]]
    /\ \A e \in Events, n \in Attempts :
         \/ trace'[e][n] = trace[e][n]
         \/ trace[e][n] = "running" /\ trace'[e][n] = "failed"
         \/ \E s \in Slots : Recorded(s, e, n, trace'[e][n])

LEMMA SetTracePoint ==
  ASSUME TracesTyped, NEW e \in Events, NEW n, NEW st \in TraceStatus,
         trace' = [trace EXCEPT ![e][n] = st]
  PROVE  /\ trace' \in [Events -> [Attempts -> TraceStatus]]
         /\ \A x \in Events, m \in Attempts :
              trace'[x][m] = IF x = e /\ m = n THEN st ELSE trace[x][m]
  <1> DEFINE row == [trace[e] EXCEPT ![n] = st]
  <1>1. row \in [Attempts -> TraceStatus]
        /\ \A m \in Attempts : row[m] = IF m = n THEN st ELSE trace[e][m]
    BY DEF TracesTyped
  <1>2. trace' = [trace EXCEPT ![e] = row]
    OBVIOUS
  <1> HIDE DEF row
  <1> QED BY <1>1, <1>2 DEF TracesTyped

LEMMA TraceSteps ==
  ASSUME TracesTyped, TasksWired, [Next]_vars
  PROVE  TraceStep
  <1>1. CASE UNCHANGED trace
    BY <1>1 DEF TraceStep, TracesTyped
  <1>2. ASSUME NEW s \in Slots, Busy(s), NEW st \in TraceStatus, SetTrace(s, st),
               \/ task[s].pc = "startTrace" /\ st = "running" /\ Goto(s, "context")
               \/ task[s].pc = "context" /\ st = "failed" /\ Goto(s, "retry")
               \/ task[s].pc = "persist" /\ st = "completed" /\ Goto(s, "store")
               \/ task[s].pc = "failTrace" /\ st = "failed" /\ Goto(s, "retry")
        PROVE  TraceStep
    <2>1. task[s].event \in Events
      BY <1>2 DEF TasksWired
    <2>2. /\ trace' \in [Events -> [Attempts -> TraceStatus]]
          /\ \A x \in Events, m \in Attempts :
               trace'[x][m] = IF x = task[s].event /\ m = task[s].attempt THEN st ELSE trace[x][m]
      BY <1>2, <2>1, SetTracePoint DEF SetTrace
    <2> QED BY <1>2, <2>2 DEF TraceStep, Recorded
  <1>3. ASSUME NEW s \in Slots, CloseTrace(s) PROVE TraceStep
    <2> DEFINE e == task[s].event
               n == task[s].trace
    <2>1. e \in Events
      BY <1>3 DEF CloseTrace, TasksWired, Busy
    <2>2. CASE trace[e][n] = "running"
      <3>1. trace' = [trace EXCEPT ![e][n] = "failed"]
        BY <1>3, <2>2 DEF CloseTrace
      <3>2. "failed" \in TraceStatus
        BY DEF TraceStatus
      <3> HIDE DEF e, n
      <3>3. /\ trace' \in [Events -> [Attempts -> TraceStatus]]
            /\ \A x \in Events, m \in Attempts :
                 trace'[x][m] = IF x = e /\ m = n THEN "failed" ELSE trace[x][m]
        BY <2>1, <3>1, <3>2, SetTracePoint
      <3> QED BY <2>2, <3>3 DEF TraceStep
    <2>3. CASE trace[e][n] # "running"
      BY <1>1, <1>3, <2>3 DEF CloseTrace
    <2> QED BY <2>2, <2>3
  <1>4. ASSUME NEW w \in Workers, Boot(w) PROVE TraceStep
    <2>1. PICK old \in SUBSET (Events \X Attempts) :
            trace' = [e \in Events |-> [n \in Attempts |->
                        IF <<e, n>> \in old /\ trace[e][n] = "running"
                        THEN "failed" ELSE trace[e][n]]]
      BY <1>4 DEF Boot
    <2>2. trace' \in [Events -> [Attempts -> TraceStatus]]
      BY <2>1 DEF TracesTyped, TraceStatus
    <2> QED BY <2>1, <2>2 DEF TraceStep
  <1>5. ASSUME NEW s \in Slots, StartTrace(s) \/ Context(s) \/ Persist(s) \/ FailTrace(s)
        PROVE  TraceStep
    <2>1. Busy(s) /\ "running" \in TraceStatus /\ "failed" \in TraceStatus
          /\ "completed" \in TraceStatus
      BY <1>5 DEF StartTrace, Context, Persist, FailTrace, Busy, TraceStatus
    <2>2. CASE UNCHANGED trace
      BY <1>1, <2>2
    <2>3. CASE StartTrace(s)
      BY <2>1, <2>3, <1>2 DEF StartTrace
    <2>4. CASE Context(s) /\ ~UNCHANGED trace
      BY <2>1, <2>4, <1>2 DEF Context
    <2>5. CASE Persist(s)
      BY <2>1, <2>5, <1>2 DEF Persist
    <2>6. CASE FailTrace(s)
      BY <2>1, <2>6, <1>2 DEF FailTrace
    <2> QED BY <1>5, <2>2, <2>3, <2>4, <2>5, <2>6
  <1>6. ASSUME NEW s \in Slots,
               NoToken(s) \/ Link(s) \/ Model(s) \/ Store(s) \/ Deliver(s) \/ Complete(s)
               \/ LastEvent(s) \/ RetryOrFail(s) \/ Throws(s) \/ CatchThrows(s) \/ Unbound(s)
        PROVE  UNCHANGED trace
    BY <1>6 DEF NoToken, Link, Model, Store, Deliver, Complete, LastEvent, RetryOrFail, Throws,
                CatchThrows, Unbound
  <1>7. ASSUME NEW w \in Workers, Sync(w) \/ Poll(w) \/ Exit(w) \/ PollFails(w) \/ Expire(w)
               \/ Shutdown(w)
        PROVE  UNCHANGED trace
    BY <1>7 DEF Sync, Poll, PollCheck, PollReturns, PollEmpty, StoreEvent, SaveCursor, BackOff, Exit,
                PollFails, Expire, Shutdown
  <1>8. ASSUME NEW w \in Workers, NEW e \in Events,
               \/ ClaimRefused(w, e) \/ CapacityFull(w, e)
               \/ \E s \in Slots : Claim(w, s, e)
        PROVE  UNCHANGED trace
    BY <1>8 DEF ClaimRefused, CapacityFull, Claim
  <1>9. ASSUME NEW e \in Events, MessageLeaseOver(e) PROVE UNCHANGED trace
    BY <1>9 DEF MessageLeaseOver
  <1>10. CASE Arrive \/ BindingLeaseOver \/ Admin \/ UNCHANGED vars
    BY <1>1, <1>10 DEF Arrive, BindingLeaseOver, Admin, QrCode, Confirmed, Redirected, Disconnect,
                       vars
  <1> QED BY <1>1, <1>3, <1>4, <1>5, <1>6, <1>7, <1>8, <1>9, <1>10 DEF Next, Attempt, Mishap

\* Something is sent by a delivery only: of an answer that is kept.
Sends(s) == /\ Busy(s) /\ task[s].pc \in {"deliver", "redeliver"}
            /\ UNCHANGED <<message, overrun>>
            /\ Replies(s)

LEMMA SentSteps ==
  ASSUME [Next]_vars
  PROVE  UNCHANGED sent \/ \E s \in Slots : Sends(s)
  <1>1. ASSUME NEW s \in Slots, Deliver(s) PROVE UNCHANGED sent \/ Sends(s)
    BY <1>1 DEF Deliver, Sends, Replies, Busy
  <1>2. CASE \A s \in Slots : ~Deliver(s)
    BY <1>2 DEF Next, Poll, Mishap, Admin, vars, BindingLeaseOver, Arrive, Sync, PollCheck,
       PollReturns, PollEmpty, StoreEvent, SaveCursor, BackOff, Exit, Boot, ClaimRefused,
       CapacityFull, Claim, Attempt, NoToken, CloseTrace, StartTrace, Context, Link, Model, Persist,
       Store, Complete, LastEvent, FailTrace, RetryOrFail, MessageLeaseOver, PollFails, Expire,
       Shutdown, Throws, CatchThrows, Unbound, QrCode, Confirmed, Redirected, Disconnect
  <1> QED BY <1>1, <1>2

LEMMA SentKept ==
  ASSUME SentTyped, TasksTyped, TasksWired, [Next]_vars
  PROVE  SentTyped'
  <1>1. ASSUME NEW s \in Slots, Sends(s) PROVE SentTyped'
    <2>1. task[s].answer \in Attempts
      BY <1>1 DEF Sends, TasksWired
    <2> QED BY <1>1, <2>1 DEF Sends, Replies, SentTyped
  <1> QED BY <1>1, SentSteps DEF SentTyped

LEMMA ProcsKept ==
  ASSUME ProcsTyped, [Next]_vars
  PROVE  ProcsTyped'
  <1>1. ASSUME NEW w \in Workers, Exit(w) \/ Boot(w) \/ Shutdown(w) PROVE ProcsTyped'
    BY <1>1 DEF Exit, Boot, Shutdown, ProcsTyped
  <1>2. CASE \A w \in Workers : ~(Exit(w) \/ Boot(w) \/ Shutdown(w))
    <2>1. UNCHANGED proc
      BY <1>2 DEF Next, Poll, Mishap, Admin, vars, BindingLeaseOver, Arrive, Sync, PollCheck,
         PollReturns, PollEmpty, StoreEvent, SaveCursor, BackOff, ClaimRefused,
         CapacityFull, Claim, Attempt, NoToken, CloseTrace, StartTrace, Context, Link, Model, Persist,
         Store, Deliver, Complete, LastEvent, FailTrace, RetryOrFail, MessageLeaseOver, PollFails,
         Expire, Throws, CatchThrows, Unbound, QrCode, Confirmed, Redirected, Disconnect
    <2> QED BY <2>1 DEF ProcsTyped
  <1> QED BY <1>1, <1>2

LEMMA TodoKept ==
  ASSUME TodoTyped, PollersTyped, PollersWired, [Next]_vars
  PROVE  TodoTyped'
  <1>1. ASSUME NEW w \in Workers, NEW q \in SUBSET Events, todo' = [todo EXCEPT ![w] = q]
        PROVE  TodoTyped'
    BY <1>1 DEF TodoTyped
  <1>2. ASSUME NEW w \in Workers, Sync(w) PROVE TodoTyped'
    <2>1. todo[w] \cup {e \in Events : Claimable(e)} \in SUBSET Events
      BY DEF TodoTyped
    <2> QED BY <1>1, <1>2, <2>1 DEF Sync, TodoTyped
  <1>3. ASSUME NEW w \in Workers, StoreEvent(w) PROVE TodoTyped'
    <2> DEFINE e == poller[w].from + 1
    <2>1. e \in Events
      BY <1>3, ChannelAssumption DEF StoreEvent, PollersWired, PollersTyped, PollType, Events
    <2>2. todo[w] \cup {e} \in SUBSET Events
      BY <2>1 DEF TodoTyped
    <2> QED BY <1>1, <1>3, <2>2 DEF StoreEvent, TodoTyped
  <1>4. ASSUME NEW w \in Workers, Exit(w) PROVE TodoTyped'
    BY <1>1, <1>4 DEF Exit
  <1>5. ASSUME NEW w \in Workers, NEW e \in Events,
               \/ ClaimRefused(w, e) \/ CapacityFull(w, e)
               \/ \E s \in Slots : Claim(w, s, e)
        PROVE  TodoTyped'
    <2>1. \A rest : todo[w] \ rest \in SUBSET Events
      BY DEF TodoTyped
    <2>2. \E rest : todo' = [todo EXCEPT ![w] = @ \ rest]
      BY <1>5 DEF ClaimRefused, CapacityFull, Claim
    <2> QED BY <1>1, <2>1, <2>2
  <1>6. CASE UNCHANGED todo
    BY <1>6 DEF TodoTyped
  <1>7. ASSUME NEW w \in Workers, PollCheck(w) \/ PollReturns(w) \/ PollEmpty(w) \/ SaveCursor(w)
               \/ BackOff(w) \/ Boot(w) \/ PollFails(w) \/ Expire(w) \/ Shutdown(w)
        PROVE  UNCHANGED todo
    BY <1>7 DEF PollCheck, PollReturns, PollEmpty, SaveCursor, BackOff, Boot, PollFails, Expire,
                Shutdown
  <1>8. ASSUME NEW s \in Slots, Attempt(s) \/ Throws(s) \/ CatchThrows(s) \/ Unbound(s)
        PROVE  UNCHANGED todo
    BY <1>8 DEF Attempt, NoToken, CloseTrace, StartTrace, Context, Link, Model, Persist, Store,
                Deliver, Complete, LastEvent, FailTrace, RetryOrFail, Throws, CatchThrows, Unbound
  <1>9. ASSUME NEW e \in Events, MessageLeaseOver(e) PROVE UNCHANGED todo
    BY <1>9 DEF MessageLeaseOver
  <1>10. CASE Arrive \/ BindingLeaseOver \/ Admin \/ UNCHANGED vars
    BY <1>6, <1>10 DEF Arrive, BindingLeaseOver, Admin, QrCode, Confirmed, Redirected, Disconnect,
                       vars
  <1> QED BY <1>2, <1>3, <1>4, <1>5, <1>6, <1>7, <1>8, <1>9, <1>10 DEF Next, Poll, Mishap

LEMMA RestKept ==
  ASSUME RestTyped, RowStep, [Next]_vars
  PROVE  RestTyped'
  <1>1. overrun' \in SUBSET Events
    <2>1. \A w \in Workers, s \in Slots, e \in Events : Claim(w, s, e) => UNCHANGED overrun
      BY DEF Claim
    <2>2. UNCHANGED overrun \/ \E e \in Events : overrun' = overrun \cup {e}
      BY <2>1 DEF RowStep
    <2> QED BY <2>2 DEF RestTyped
  <1>2. moved' \in BOOLEAN
    <2>1. UNCHANGED moved \/ moved' = TRUE \/ BindingLeaseOver
      BY DEF Next, Poll, Mishap, Admin, vars, Arrive, Sync, PollCheck, PollReturns,
         PollEmpty, StoreEvent, SaveCursor, BackOff, Exit, Boot, ClaimRefused, CapacityFull, Claim,
         Attempt, NoToken, CloseTrace, StartTrace, Context, Link, Model, Persist, Store, Deliver,
         Complete, LastEvent, FailTrace, RetryOrFail, MessageLeaseOver, PollFails, Expire,
         Shutdown, Throws, CatchThrows, Unbound, QrCode, Confirmed, Redirected, Disconnect
    <2> QED BY <2>1 DEF BindingLeaseOver, RestTyped
  <1>3. faults' \in 0 .. MaxFaults
    <2>1. UNCHANGED faults \/ \E kind \in AllFaults : Strike(kind)
      BY DEF Next, Poll, Mishap, Admin, vars, Arrive, BindingLeaseOver, Sync, PollCheck, PollReturns,
         PollEmpty, StoreEvent, SaveCursor, BackOff, Exit, Boot, ClaimRefused, CapacityFull, Claim,
         Attempt, NoToken, CloseTrace, StartTrace, Context, Link, Model, Persist, Store, Deliver,
         Complete, LastEvent, FailTrace, RetryOrFail, MessageLeaseOver, PollFails, Expire, AllFaults,
         Shutdown, Throws, CatchThrows, Unbound, QrCode, Confirmed, Redirected, Disconnect
    <2> QED BY <2>1, ChannelAssumption DEF Strike, RestTyped
  <1> QED BY <1>1, <1>2, <1>3 DEF RestTyped

\* The inductive invariant that the other proofs stand on.
IInv == TypeOK /\ Wired

LEMMA TypeParts ==
  TypeOK <=> /\ BindingTyped /\ RowsTyped /\ TracesTyped /\ SentTyped /\ ProcsTyped
             /\ PollersTyped /\ TodoTyped /\ TasksTyped /\ RestTyped
  BY DEF TypeOK, BindingTyped, RowsTyped, TracesTyped, SentTyped, ProcsTyped, PollersTyped,
         TodoTyped, TasksTyped, RestTyped

\* What any step of a sound state does.
LEMMA Steps ==
  ASSUME IInv, [Next]_vars
  PROVE  RowStep /\ PollerStep /\ BindingStep /\ TraceStep
  BY RowSteps, PollerSteps, BindingSteps, TraceSteps, TypeParts DEF IInv, Wired

LEMMA Inductive == Spec => []IInv
  <1>1. Init => IInv
    <2> SUFFICES ASSUME Init PROVE IInv
      OBVIOUS
    <2>1. 0 \in 0 .. MaxEvents /\ 0 \in 0 .. MaxAttempts /\ 0 \in 0 .. MaxFaults
      BY ChannelAssumption
    <2>2. BindingTyped /\ ProcsTyped /\ TodoTyped /\ RestTyped
      BY <2>1 DEF Init, BindingTyped, BindingType, ProcsTyped, TodoTyped, RestTyped
    <2>3. NoRow \in MessageType
      BY <2>1 DEF NoRow, MessageType
    <2>4. RowsTyped /\ TracesTyped /\ SentTyped
      BY <2>3 DEF Init, RowsTyped, TracesTyped, TraceStatus, SentTyped
    <2>5. PollersTyped /\ PollersWired
      BY NoPollTyped DEF Init, PollersTyped, PollersWired
    <2>6. TasksTyped /\ TasksWired
      BY NoTaskTyped DEF Init, TasksTyped, TasksWired, Busy, NoTask
    <2> QED BY <2>2, <2>4, <2>5, <2>6, TypeParts DEF IInv, Wired
  <1>2. IInv /\ [Next]_vars => IInv'
    <2> SUFFICES ASSUME IInv, [Next]_vars PROVE IInv'
      OBVIOUS
    <2>1. /\ BindingTyped /\ RowsTyped /\ TracesTyped /\ SentTyped /\ ProcsTyped
          /\ PollersTyped /\ TodoTyped /\ TasksTyped /\ RestTyped
          /\ TasksWired /\ PollersWired
      BY TypeParts DEF IInv, Wired
    <2>2. TracesTyped'
      BY Steps DEF TraceStep, TracesTyped
    <2>3. /\ BindingTyped' /\ RowsTyped' /\ SentTyped' /\ ProcsTyped'
          /\ PollersTyped' /\ TodoTyped' /\ TasksTyped' /\ RestTyped'
          /\ TasksWired' /\ PollersWired'
      BY <2>1, Steps, BindingKept, RowsStay, SentKept, ProcsKept, PollersKept, TodoKept, TaskKept,
         RestKept
    <2>4. TypeOK'
      BY <2>2, <2>3 DEF TypeOK, BindingTyped, RowsTyped, TracesTyped, SentTyped, ProcsTyped,
                        PollersTyped, TodoTyped, TasksTyped, RestTyped
    <2> QED BY <2>3, <2>4 DEF IInv, Wired
  <1> QED BY <1>1, <1>2, PTL DEF Spec

\* Every variable has its type; in particular a message is attempted at most
\* MAX_ATTEMPTS times, whatever is retried and recovered (processStoredInbound).
THEOREM TypeCorrect == Spec => []TypeOK
  <1>1. IInv => TypeOK
    BY DEF IInv
  <1> QED BY <1>1, Inductive, PTL

-----------------------------------------------------------------------------
(* Nothing is lost: a poller stores what it has read before it saves how far  *)
(* it has read, and reads on from what is saved.                              *)

ReadStored == \A w \in Workers :
    poller[w].pc \in {"poll", "store", "cursor"} =>
        \A e \in 1 .. poller[w].from : message[e].status # "none"

LEMMA ReadKept ==
  ASSUME IInv, EventStored, ReadStored, [Next]_vars
  PROVE  ReadStored'
  <1>1. BindingTyped /\ RowsTyped /\ PollersTyped /\ PollersWired /\ TasksTyped /\ TasksWired
    BY TypeParts DEF IInv, Wired
  <1>2. \A e \in Events : message[e].status # "none" => message'[e].status # "none"
    BY <1>1, RowsStay, Steps
  <1>3. \A n \in 0 .. MaxEvents : 1 .. n \subseteq Events
    BY ChannelAssumption DEF Events
  <1>4. \A w \in Workers : poller[w].from \in 0 .. MaxEvents
    BY <1>1 DEF PollersTyped, PollType
  <1>5. binding.cursor \in 0 .. MaxEvents
    BY <1>1 DEF BindingTyped, BindingType
  <1>6. CASE UNCHANGED poller
    BY <1>2, <1>3, <1>4, <1>6 DEF ReadStored
  <1>7. ASSUME NEW w \in Workers, NEW p \in PollType, Turns(w, p),
               poller' = [poller EXCEPT ![w] = p]
        PROVE  ReadStored'
    <2>1. \A v \in Workers : poller'[v] = IF v = w THEN p ELSE poller[v]
      BY <1>1, <1>7 DEF PollersTyped
    <2>2. ASSUME p.pc \in {"poll", "store", "cursor"}, NEW e \in 1 .. p.from
          PROVE  message'[e].status # "none"
      <3>0. p.from \in 0 .. MaxEvents /\ e \in Events
        BY <1>3, <2>2 DEF PollType
      <3>1. CASE p.pc = "poll" /\ p.from = binding.cursor
        BY <1>2, <2>2, <3>0, <3>1 DEF EventStored
      <3>2. CASE p.from = poller[w].from /\ poller[w].pc \in {"poll", "store", "cursor"}
        BY <1>2, <2>2, <3>0, <3>2 DEF ReadStored
      <3>3. CASE /\ p.from = poller[w].from + 1 /\ poller[w].pc = "store"
                 /\ message'[p.from].status # "none"
        <4>1. e = p.from \/ e \in 1 .. poller[w].from
          BY <1>4, <3>0, <3>3
        <4> QED BY <1>2, <3>0, <3>3, <4>1 DEF ReadStored
      <3> QED BY <1>7, <2>2, <3>1, <3>2, <3>3 DEF Turns
    <2>3. ASSUME NEW v \in Workers, v # w, poller[v].pc \in {"poll", "store", "cursor"},
                 NEW e \in 1 .. poller[v].from
          PROVE  message'[e].status # "none"
      BY <1>2, <1>3, <1>4, <2>3 DEF ReadStored
    <2> QED BY <2>1, <2>2, <2>3 DEF ReadStored
  <1> QED BY <1>6, <1>7, Steps DEF PollerStep

LEMMA StoredKept ==
  ASSUME IInv, EventStored, ReadStored, [Next]_vars
  PROVE  EventStored'
  <1>1. BindingTyped /\ RowsTyped /\ PollersTyped /\ PollersWired /\ TasksTyped /\ TasksWired
    BY TypeParts DEF IInv, Wired
  <1>2. \A e \in Events : message[e].status # "none" => message'[e].status # "none"
    BY <1>1, RowsStay, Steps
  <1>3. \A n \in 0 .. MaxEvents : 1 .. n \subseteq Events
    BY ChannelAssumption DEF Events
  <1>4. binding.cursor \in 0 .. MaxEvents
    BY <1>1 DEF BindingTyped, BindingType
  <1>5. CASE binding'.cursor = binding.cursor
    BY <1>2, <1>3, <1>4, <1>5 DEF EventStored
  <1>6. CASE binding'.cursor = 0
    BY <1>6 DEF EventStored
  <1>7. ASSUME NEW w \in Workers, poller[w].pc = "cursor",
               binding' = [binding EXCEPT !.cursor = poller[w].got]
        PROVE  EventStored'
    <2>1. binding'.cursor = poller[w].from /\ poller[w].from \in 0 .. MaxEvents
      BY <1>1, <1>7 DEF BindingTyped, BindingType, PollersWired, PollersTyped, PollType
    <2> QED BY <1>2, <1>3, <1>7, <2>1 DEF EventStored, ReadStored
  <1> QED BY <1>5, <1>6, <1>7, Steps DEF BindingStep

\* No message is lost between WeChat and the database: what the cursor has passed
\* has a row, for any number of overlapping, dying or expiring pollers (pollBinding).
THEOREM NothingLost == Spec => []EventStored
  <1>1. Init => EventStored /\ ReadStored
    BY DEF Init, EventStored, ReadStored, NoPoll
  <1>2. IInv /\ (EventStored /\ ReadStored) /\ [Next]_vars => (EventStored /\ ReadStored)'
    BY ReadKept, StoredKept
  <1> QED BY <1>1, <1>2, Inductive, PTL DEF Spec

-----------------------------------------------------------------------------
(* One poller: who polls owns the binding, unless its lease has been moved.   *)

PollerOwns == ~moved =>
    \A w \in Workers : poller[w].pc = "poll" => binding.owner = w /\ binding.lease = "live"

LEMMA OwnsKept ==
  ASSUME IInv, PollerOwns, [Next]_vars
  PROVE  PollerOwns'
  <1>1. BindingTyped /\ PollersTyped
    BY TypeParts DEF IInv
  <1>2. binding \in BindingType
    BY <1>1 DEF BindingTyped
  <1>3. ASSUME NEW w \in Workers, NEW p, p.pc = "poll" => /\ binding'.owner = w
                                                          /\ binding'.lease = "live",
               poller' = [poller EXCEPT ![w] = p], UNCHANGED moved,
               \A v \in Workers : v # w /\ binding.owner = v /\ binding.lease = "live"
                                     => binding'.owner = v /\ binding'.lease = "live"
        PROVE  PollerOwns'
    BY <1>1, <1>3 DEF PollerOwns, PollersTyped
  <1>4. CASE UNCHANGED <<binding, moved>>
    <2>1. CASE UNCHANGED poller
      BY <1>4, <2>1 DEF PollerOwns
    <2>2. ASSUME NEW w \in Workers, NEW p \in PollType, Turns(w, p),
                 poller' = [poller EXCEPT ![w] = p]
          PROVE  PollerOwns'
      BY <1>3, <1>4, <2>2 DEF Turns
    <2> QED BY <2>1, <2>2, Steps DEF PollerStep
  <1>5. ASSUME NEW w \in Workers, Sync(w) PROVE PollerOwns'
    <2>1. CASE binding' = [binding EXCEPT !.owner = w, !.lease = "live"] /\ ForTheTaking(w)
      <3>1. binding'.owner = w /\ binding'.lease = "live"
        BY <1>2, <2>1 DEF BindingType
      <3>2. binding.owner = w \/ binding.lease # "live"
        BY <2>1 DEF ForTheTaking
      <3>3. UNCHANGED poller \/ poller' = [poller EXCEPT ![w] = [NoPoll EXCEPT !.pc = "check"]]
        BY <1>5, <2>1 DEF Sync
      <3>4. UNCHANGED moved
        BY <1>5 DEF Sync
      <3>5. CASE UNCHANGED poller
        BY <3>1, <3>2, <3>4, <3>5 DEF PollerOwns
      <3>6. CASE poller' = [poller EXCEPT ![w] = [NoPoll EXCEPT !.pc = "check"]]
        BY <1>3, <3>1, <3>2, <3>4, <3>6
      <3> QED BY <3>3, <3>5, <3>6
    <2> QED BY <1>4, <1>5, <2>1 DEF Sync
  <1>6. ASSUME NEW w \in Workers, SaveCursor(w) PROVE PollerOwns'
    <2>1. binding'.owner = binding.owner /\ binding'.lease = binding.lease /\ UNCHANGED moved
      BY <1>2, <1>6 DEF SaveCursor, BindingType
    <2>2. \A v \in Workers : poller'[v].pc = "poll" => poller[v].pc = "poll"
      BY <1>1, <1>6 DEF SaveCursor, PollersTyped, PollType
    <2> QED BY <2>1, <2>2 DEF PollerOwns
  <1>7. ASSUME NEW w \in Workers, Expire(w) \/ Exit(w) PROVE PollerOwns'
    <2>1. binding.owner # w => UNCHANGED binding
      BY <1>7 DEF Expire, Exit
    <2>2. poller' = [poller EXCEPT ![w] = NoPoll] /\ UNCHANGED moved
      BY <1>7 DEF Expire, Exit
    <2> QED BY <1>3, <2>1, <2>2, NoPollTyped
  <1>8. ASSUME NEW w \in Workers, Shutdown(w) PROVE PollerOwns'
    <2>1. binding.owner # w => UNCHANGED binding
      BY <1>8 DEF Shutdown
    <2>2. UNCHANGED moved
      BY <1>8 DEF Shutdown
    <2>3. CASE poller' = [poller EXCEPT ![w] = NoPoll]
      BY <1>3, <2>1, <2>2, <2>3, NoPollTyped
    <2>4. CASE poller[w].pc # "poll" /\ poller' = [poller EXCEPT ![w] = [@ EXCEPT !.aborted = TRUE]]
      <3> DEFINE p == [poller[w] EXCEPT !.aborted = TRUE]
      <3>1. p.pc # "poll"
        BY <1>1, <2>4 DEF PollersTyped, PollType
      <3>2. poller' = [poller EXCEPT ![w] = p]
        BY <2>4
      <3> HIDE DEF p
      <3> QED BY <1>3, <2>1, <2>2, <3>1, <3>2
    <2> QED BY <1>8, <2>3, <2>4 DEF Shutdown
  <1>9. CASE BindingLeaseOver
    BY <1>9, ChannelAssumption DEF BindingLeaseOver, PollerOwns
  <1>10. CASE Admin
    <2>1. CASE moved' = TRUE
      BY <2>1 DEF PollerOwns
    <2>2. CASE QrCode \/ Confirmed
      <3>1. binding'.owner = binding.owner /\ binding'.lease = binding.lease
        BY <1>2, <2>2 DEF QrCode, Confirmed, BindingType
      <3> QED BY <2>2, <3>1 DEF QrCode, Confirmed, PollerOwns
    <2> QED BY <1>10, <2>1, <2>2 DEF Admin, Redirected, Disconnect
  <1>11. ASSUME NEW w \in Workers,
                PollCheck(w) \/ PollReturns(w) \/ PollEmpty(w) \/ StoreEvent(w) \/ BackOff(w)
                \/ Boot(w) \/ PollFails(w)
         PROVE  UNCHANGED <<binding, moved>>
    BY <1>11 DEF PollCheck, PollReturns, PollEmpty, StoreEvent, BackOff, Boot, PollFails
  <1>12. ASSUME NEW w \in Workers, NEW e \in Events,
                \/ ClaimRefused(w, e) \/ CapacityFull(w, e)
                \/ \E s \in Slots : Claim(w, s, e)
         PROVE  UNCHANGED <<binding, moved>>
    BY <1>12 DEF ClaimRefused, CapacityFull, Claim
  <1>13. ASSUME NEW s \in Slots, Attempt(s) \/ Throws(s) \/ CatchThrows(s) \/ Unbound(s)
         PROVE  UNCHANGED <<binding, moved>>
    BY <1>13 DEF Attempt, NoToken, CloseTrace, StartTrace, Context, Link, Model, Persist, Store,
                 Deliver, Complete, LastEvent, FailTrace, RetryOrFail, Throws, CatchThrows, Unbound
  <1>14. ASSUME NEW e \in Events, MessageLeaseOver(e) PROVE UNCHANGED <<binding, moved>>
    BY <1>14 DEF MessageLeaseOver
  <1>15. CASE Arrive \/ UNCHANGED vars
    BY <1>4, <1>15 DEF Arrive, vars
  <1> QED BY <1>4, <1>5, <1>6, <1>7, <1>8, <1>9, <1>10, <1>11, <1>12, <1>13, <1>14, <1>15
          DEF Next, Poll, Mishap

\* A binding is polled by one worker at a time, for any number of workers, until a
\* live owner falls behind or an administrator moves the lease (syncWechatChannels).
THEOREM OnePollerAtATime == Spec => []OnePoller
  <1>1. Init => PollerOwns
    BY DEF Init, PollerOwns, NoPoll
  <1>2. IInv /\ PollerOwns /\ [Next]_vars => PollerOwns'
    BY OwnsKept
  <1>3. PollerOwns => OnePoller
    BY DEF PollerOwns, OnePoller
  <1> QED BY <1>1, <1>2, <1>3, Inductive, PTL DEF Spec

-----------------------------------------------------------------------------
(* One attempt at a time.  While no lease has run out under an attempt, the   *)
(* attempt is the one the row counts, and the row is leased to it, until it   *)
(* is completed.                                                              *)

Held(s) == task[s].event \notin overrun =>
    LET m == message[task[s].event] IN
    /\ task[s].attempt = m.attempts
    /\ \/ m.status = "processing" /\ m.lease = "live"
       \/ m.status = "completed" /\ task[s].pc \in {"event", "failTrace", "retry"}

AttemptsHeld == \A s \in Slots : Busy(s) => Held(s)

\* What a step is to a row ..
RowView(e) ==
    \/ message'[e] = message[e]
    \/ message[e].status = "none" /\ message'[e] = StoredRow(e)
    \/ /\ message[e].status = "processing"
       /\ message'[e] = [message[e] EXCEPT !.lease = "over"]
    \/ Claimable(e) /\ message'[e] = ClaimedRow(e)
    \/ \E s \in Slots : Busy(s) /\ task[s].event = e /\ Writes(s, message'[e])

\* .. and to an attempt: it has just been claimed, or nothing of its own changes, or it
\* writes to its row, or it goes on without.
AttemptView(x) ==
    LET e == task'[x].event IN
    \/ /\ Claimable(e) /\ message'[e] = ClaimedRow(e) /\ task'[x] = ClaimedTask(e)
       /\ ~AtWork(e) /\ \A y \in Slots : y # x => task'[y] = task[y]
    \/ /\ Busy(x) /\ task[x].event = e /\ task[x].attempt = task'[x].attempt
       /\ \/ message'[e] = message[e] /\ task'[x] = task[x]
          \/ Writes(x, message'[e])
          \/ /\ message'[e] = message[e]
             /\ \E pc \in TaskPc : Onward(x, pc) /\ Goto(x, pc)

LEMMA RowViews ==
  ASSUME IInv, [Next]_vars
  PROVE  \A e \in Events : RowView(e)
  <1>1. RowsTyped /\ TasksWired /\ RowStep
    BY TypeParts, Steps DEF IInv, Wired
  <1>2. ASSUME NEW f \in Events, NEW row, message' = [message EXCEPT ![f] = row]
        PROVE  \A e \in Events : message'[e] = IF e = f THEN row ELSE message[e]
    BY <1>1, <1>2 DEF RowsTyped
  <1>3. CASE UNCHANGED message
    BY <1>3 DEF RowView
  <1>4. ASSUME NEW f \in Events, message[f].status = "none",
               message' = [message EXCEPT ![f] = StoredRow(f)]
        PROVE  \A e \in Events : RowView(e)
    BY <1>2, <1>4 DEF RowView
  <1>5. ASSUME NEW f \in Events, message[f].status = "processing",
               message' = [message EXCEPT ![f].lease = "over"]
        PROVE  \A e \in Events : RowView(e)
    <2>1. message' = [message EXCEPT ![f] = [message[f] EXCEPT !.lease = "over"]]
      BY <1>5
    <2> QED BY <1>2, <1>5, <2>1 DEF RowView
  <1>6. ASSUME NEW w \in Workers, NEW s \in Slots, NEW f \in Events, Claim(w, s, f)
        PROVE  \A e \in Events : RowView(e)
    <2>1. Claimable(f) /\ message' = [message EXCEPT ![f] = ClaimedRow(f)]
      BY <1>6, ClaimSets
    <2>2. \A e \in Events : message'[e] = IF e = f THEN ClaimedRow(f) ELSE message[e]
      BY <1>2, <2>1
    <2> QED BY <2>1, <2>2 DEF RowView
  <1>7. ASSUME NEW s \in Slots, Busy(s), NEW row \in MessageType, SetRow(s, row), Writes(s, row)
        PROVE  \A e \in Events : RowView(e)
    <2>1. task[s].event \in Events
      BY <1>1, <1>7 DEF TasksWired
    <2>2. \A e \in Events : message'[e] = IF e = task[s].event THEN row ELSE message[e]
      BY <1>2, <1>7, <2>1 DEF SetRow
    <2> QED BY <1>7, <2>2 DEF RowView
  <1> QED BY <1>1, <1>3, <1>4, <1>5, <1>6, <1>7 DEF RowStep

LEMMA AttemptViews ==
  ASSUME IInv, OneAttempt, AttemptsHeld, [Next]_vars,
         NEW x \in Slots, Busy(x)', task'[x].event \notin overrun'
  PROVE  AttemptView(x)
  <1> DEFINE e == task'[x].event
  <1>1. RowsTyped /\ TasksTyped /\ TasksWired /\ RowStep
    BY TypeParts, Steps DEF IInv, Wired
  <1>2. task'[x].pc # "idle"
    BY DEF Busy
  <1>3. ASSUME task'[x] = task[x], e \notin overrun
        PROVE  Busy(x) /\ Held(x) /\ e \in Events
               /\ task[x].event = e /\ task[x].attempt = task'[x].attempt
    BY <1>1, <1>2, <1>3 DEF Busy, AttemptsHeld, TasksWired
  <1>4. ASSUME task'[x] = task[x], e \notin overrun, message'[e] = message[e]
        PROVE  AttemptView(x)
    BY <1>3, <1>4 DEF AttemptView
  <1>5. ASSUME NEW f \in Events, NEW row, message' = [message EXCEPT ![f] = row], e # f
        PROVE  message'[e] = message[e]
    BY <1>1, <1>5 DEF RowsTyped
  <1>6. CASE UNCHANGED <<message, task, overrun>>
    BY <1>4, <1>6
  <1>7. ASSUME NEW f \in Events, message[f].status = "none", UNCHANGED <<task, overrun>>,
               message' = [message EXCEPT ![f] = StoredRow(f)]
        PROVE  AttemptView(x)
    <2>1. message[e].status # "none"
      BY <1>1, <1>2, <1>7 DEF Busy, TasksWired
    <2> QED BY <1>4, <1>5, <1>7, <2>1
  <1>8. ASSUME NEW f \in Events, message[f].status = "processing", UNCHANGED task,
               message' = [message EXCEPT ![f].lease = "over"],
               overrun' = IF AtWork(f) THEN overrun \cup {f} ELSE overrun
        PROVE  AttemptView(x)
    <2>1. message' = [message EXCEPT ![f] = [message[f] EXCEPT !.lease = "over"]]
      BY <1>8
    <2>2. CASE e = f
      <3>1. AtWork(f)
        BY <1>2, <1>8, <2>2 DEF AtWork, Busy
      <3> QED BY <1>8, <2>2, <3>1
    <2>3. CASE e # f
      BY <1>4, <1>5, <1>8, <2>1, <2>3
    <2> QED BY <2>2, <2>3
  <1>9. ASSUME NEW w \in Workers, NEW s \in Slots, NEW f \in Events, Claim(w, s, f)
        PROVE  AttemptView(x)
    <2>1. /\ Claimable(f) /\ message' = [message EXCEPT ![f] = ClaimedRow(f)]
          /\ task' = [task EXCEPT ![s] = ClaimedTask(f)] /\ UNCHANGED overrun
      BY <1>9, ClaimSets
    <2>2. ASSUME NEW y \in Slots, Busy(y), task[y].event = f, f \notin overrun
          PROVE  FALSE
      <3>1. Held(y)
        BY <2>2 DEF AttemptsHeld
      <3> QED BY <2>1, <2>2, <3>1 DEF Held, Claimable
    <2>3. CASE x = s
      <3>1. task'[x] = ClaimedTask(f) /\ e = f /\ \A y \in Slots : y # x => task'[y] = task[y]
        BY <1>1, <2>1, <2>3 DEF TasksTyped, ClaimedTask
      <3>2. ~AtWork(f)
        BY <2>1, <2>2, <3>1 DEF AtWork
      <3>3. message'[f] = ClaimedRow(f)
        BY <1>1, <2>1 DEF RowsTyped
      <3> QED BY <2>1, <3>1, <3>2, <3>3 DEF AttemptView
    <2>4. CASE x # s
      <3>1. task'[x] = task[x]
        BY <1>1, <2>1, <2>4 DEF TasksTyped
      <3>2. e # f
        BY <1>3, <2>1, <2>2, <3>1
      <3> QED BY <1>4, <1>5, <2>1, <3>1, <3>2
    <2> QED BY <2>3, <2>4
  <1>10. ASSUME NEW s \in Slots, Busy(s), UNCHANGED overrun,
                NEW row \in MessageType, SetRow(s, row), Writes(s, row)
         PROVE  AttemptView(x)
    <2>1. task[s].event \in Events
      BY <1>1, <1>10 DEF TasksWired
    <2>2. message' = [message EXCEPT ![task[s].event] = row]
      BY <1>10 DEF SetRow
    <2>3. /\ task'[s].pc = "idle" \/ (task'[s].event = task[s].event
                                      /\ task'[s].attempt = task[s].attempt)
          /\ \A y \in Slots : y # s => task'[y] = task[y]
      <3>0. \A y \in Slots : y # s => task'[y] = task[y]
        BY <1>1, <1>10 DEF Writes, Leave, Goto, TasksTyped
      <3>1. CASE Leave(s)
        BY <1>1, <3>0, <3>1 DEF Leave, TasksTyped, NoTask
      <3>2. CASE Goto(s, "model") \/ Goto(s, "event")
        BY <1>1, <3>0, <3>2 DEF Goto, TasksTyped, TaskType
      <3>3. CASE task' = [task EXCEPT ![s] =
                   [@ EXCEPT !.pc = "deliver", !.answer = task[s].attempt]]
        BY <1>1, <3>0, <3>3 DEF TasksTyped, TaskType
      <3> QED BY <1>10, <3>1, <3>2, <3>3 DEF Writes
    <2>4. CASE x = s
      <3>1. message'[e] = row /\ task[x].event = e /\ task[x].attempt = task'[x].attempt
        BY <1>1, <1>2, <2>1, <2>2, <2>3, <2>4 DEF RowsTyped
      <3> QED BY <1>10, <2>4, <3>1 DEF AttemptView
    <2>5. CASE x # s
      <3>1. task'[x] = task[x]
        BY <2>3, <2>5
      <3>2. e # task[s].event
        BY <1>3, <1>10, <2>5, <3>1 DEF OneAttempt
      <3> QED BY <1>4, <1>5, <1>10, <2>1, <2>2, <3>1, <3>2
    <2> QED BY <2>4, <2>5
  <1>11. ASSUME NEW s \in Slots, Busy(s), UNCHANGED <<message, overrun>>,
                (\E pc \in TaskPc : Onward(s, pc) /\ Goto(s, pc)) \/ Leave(s)
         PROVE  AttemptView(x)
    <2>1. CASE x # s
      <3>1. task'[x] = task[x]
        BY <1>1, <1>11, <2>1 DEF Goto, Leave, TasksTyped
      <3> QED BY <1>4, <1>11, <3>1
    <2>2. CASE x = s /\ Leave(s)
      BY <1>1, <1>2, <2>2 DEF Leave, TasksTyped, NoTask
    <2>3. ASSUME x = s, NEW pc \in TaskPc, Onward(s, pc), Goto(s, pc)
          PROVE  AttemptView(x)
      <3>1. task'[x].event = task[x].event /\ task'[x].attempt = task[x].attempt
        BY <1>1, <2>3 DEF Goto, TasksTyped, TaskType
      <3>2. message'[e] = message[e]
        BY <1>11
      <3> QED BY <1>11, <2>3, <3>1, <3>2 DEF AttemptView
    <2> QED BY <1>11, <2>1, <2>2, <2>3
  <1>12. ASSUME NEW w \in Workers, UNCHANGED <<message, overrun>>,
                task' = [s \in Slots |-> IF Host[s] = w THEN NoTask ELSE task[s]]
         PROVE  AttemptView(x)
    <2>1. task'[x] = task[x]
      BY <1>2, <1>12 DEF NoTask
    <2> QED BY <1>4, <1>12, <2>1
  <1> QED BY <1>1, <1>6, <1>7, <1>8, <1>9, <1>10, <1>11, <1>12 DEF RowStep

LEMMA AttemptsKept ==
  ASSUME IInv, OneAttempt, AttemptsHeld, [Next]_vars
  PROVE  OneAttempt' /\ AttemptsHeld'
  <1>1. RowsTyped /\ TasksTyped /\ TasksWired /\ RestTyped
    BY TypeParts DEF IInv, Wired
  <1>2. AttemptsHeld'
    <2> SUFFICES ASSUME NEW x \in Slots, Busy(x)', task'[x].event \notin overrun' PROVE Held(x)'
      BY DEF AttemptsHeld, Held
    <2> DEFINE e == task'[x].event
    <2>0. AttemptView(x) /\ overrun \subseteq overrun'
      BY AttemptViews, Steps, <1>1 DEF RowStep, Claim, RestTyped
    <2>1. CASE message'[e] = ClaimedRow(e) /\ task'[x] = ClaimedTask(e) /\ Claimable(e)
      <3>1. e \in Events
        BY <1>1, TaskKept, Steps, RowsStay DEF TasksWired
      <3>2. message'[e].status = "processing" /\ message'[e].lease = "live"
            /\ message'[e].attempts = task'[x].attempt
        BY <1>1, <2>1, <3>1 DEF ClaimedRow, ClaimedTask, RowsTyped, MessageType
      <3> QED BY <3>2 DEF Held
    <2>2. CASE Busy(x) /\ task[x].event = e /\ task[x].attempt = task'[x].attempt
      <3>1. /\ e \in Events /\ Held(x) /\ e \notin overrun /\ message[e] \in MessageType
            /\ task[x] \in TaskType
        BY <1>1, <2>0, <2>2 DEF TasksWired, AttemptsHeld, RowsTyped, TasksTyped
      <3>2. CASE message'[e] = message[e] /\ task'[x] = task[x]
        BY <2>2, <3>1, <3>2 DEF Held
      <3>3. CASE Writes(x, message'[e])
        <4>1. ~Leave(x)
          BY <1>1 DEF Leave, Busy, NoTask, TasksTyped
        <4>2. CASE task[x].pc \in {"link", "store"}
          <5>1. message'[e].status = message[e].status /\ message'[e].lease = message[e].lease
                /\ message'[e].attempts = message[e].attempts
            BY <2>2, <3>1, <3>3, <4>1, <4>2 DEF Writes, Row, MessageType
          <5> QED BY <2>2, <3>1, <4>2, <5>1 DEF Held
        <4>3. CASE task[x].pc = "complete"
          <5>1. message'[e].status = "completed" /\ message'[e].attempts = message[e].attempts
            BY <2>2, <3>1, <3>3, <4>1, <4>3 DEF Writes, Row, MessageType
          <5>2. task'[x].pc = "event"
            BY <1>1, <3>3, <4>1, <4>3 DEF Writes, Goto, TasksTyped, TaskType
          <5> QED BY <2>2, <3>1, <5>1, <5>2 DEF Held
        <4> QED BY <3>3, <4>1, <4>2, <4>3 DEF Writes
      <3>4. ASSUME message'[e] = message[e], NEW pc \in TaskPc, Onward(x, pc), Goto(x, pc)
            PROVE  Held(x)'
        <4>1. task'[x].pc = pc
          BY <1>1, <3>4 DEF Goto, TasksTyped, TaskType
        <4>2. task[x].pc = "event" => pc = "failTrace"
          BY <3>4 DEF Onward
        <4>3. task[x].pc = "failTrace" => pc = "retry"
          BY <3>4 DEF Onward
        <4>4. task[x].pc # "retry"
          BY <3>4 DEF Onward
        <4> QED BY <2>2, <3>1, <3>4, <4>1, <4>2, <4>3, <4>4 DEF Held
      <3> QED BY <2>0, <2>1, <3>2, <3>3, <3>4 DEF AttemptView
    <2> QED BY <2>0, <2>1, <2>2 DEF AttemptView
  <1>3. OneAttempt'
    <2> SUFFICES ASSUME NEW x \in Slots, NEW y \in Slots, Busy(x)', Busy(y)',
                        task'[x].event = task'[y].event, task'[x].event \notin overrun'
                 PROVE  x = y
      BY DEF OneAttempt
    <2>1. AttemptView(x) /\ AttemptView(y) /\ overrun \subseteq overrun'
      BY AttemptViews, Steps, <1>1 DEF RowStep, Claim, RestTyped
    <2>2. ASSUME NEW u \in Slots, NEW v \in Slots, task'[u].event = task'[v].event, Busy(v)',
                 ~AtWork(task'[u].event), \A z \in Slots : z # u => task'[z] = task[z]
          PROVE  u = v
      BY <2>2 DEF AtWork, Busy
    <2>3. CASE Busy(x) /\ Busy(y) /\ task[x].event = task'[x].event /\ task[y].event = task'[y].event
      BY <2>1, <2>3 DEF OneAttempt
    <2> QED BY <2>1, <2>2, <2>3 DEF AttemptView
  <1> QED BY <1>2, <1>3

\* No two attempts at one message are ever under way together, in any number of
\* workers and slots, unless one outlives the lease of the message (processStoredInbound).
THEOREM OneAttemptAtATime == Spec => []OneAttempt
  <1>1. Init => OneAttempt /\ AttemptsHeld
    BY DEF Init, OneAttempt, AttemptsHeld, Busy, NoTask
  <1>2. IInv /\ (OneAttempt /\ AttemptsHeld) /\ [Next]_vars => (OneAttempt /\ AttemptsHeld)'
    BY AttemptsKept
  <1> QED BY <1>1, <1>2, Inductive, PTL DEF Spec

-----------------------------------------------------------------------------
(* Traces.  Every attempt has a number, and with it a trace, of its own, even *)
(* when two of them overlap.                                                  *)

Early == {"noToken", "redeliver", "recomplete", "closeTrace", "startTrace", "context", "link",
          "model", "persist"}

\* The row counts the attempts ..
Counted == \A s \in Slots : Busy(s) => task[s].attempt <= message[task[s].event].attempts
\* .. so no two have one number ..
Apart == \A s, t \in Slots :
    Busy(s) /\ Busy(t) /\ task[s].event = task[t].event /\ task[s].attempt = task[t].attempt
        => s = t
\* .. the traces of attempts to come are not there ..
Unwritten == \A e \in Events, n \in Attempts : n > message[e].attempts => trace[e][n] = "none"
\* .. and one that has not got to the end of its trace has none that is completed.
EarlyOpen == \A s \in Slots :
    task[s].pc \in Early => trace[task[s].event][task[s].attempt] # "completed"

Numbered == Counted /\ Apart /\ Unwritten /\ EarlyOpen

\* What a step is to an attempt, whether it overlaps another or not.
TaskView(x) ==
    LET e == task'[x].event IN
    \/ /\ message[e].attempts + 1 = message'[e].attempts
       /\ task'[x].attempt = message'[e].attempts
       /\ \A y \in Slots : y # x => task'[y] = task[y]
    \/ /\ Busy(x) /\ task[x].event = e /\ task[x].attempt = task'[x].attempt
       /\ task'[x].pc \in Early => task[x].pc \in Early

LEMMA Counts ==
  ASSUME IInv, [Next]_vars, NEW e \in Events
  PROVE  message[e].attempts \in Nat /\ message'[e].attempts \in Nat
         /\ message[e].attempts <= message'[e].attempts
  <1>1. RowsTyped /\ RowView(e) /\ message[e] \in MessageType
    BY TypeParts, RowViews DEF IInv, RowsTyped
  <1>2. message[e].attempts \in Nat
    BY <1>1, ChannelAssumption DEF MessageType
  <1>3. \/ message'[e].attempts = message[e].attempts
        \/ message'[e].attempts = message[e].attempts + 1
    <2>1. CASE message'[e] = message[e]
      BY <2>1
    <2>2. CASE message'[e] \in {StoredRow(e), ClaimedRow(e), [message[e] EXCEPT !.lease = "over"]}
      BY <1>1, <2>2 DEF StoredRow, ClaimedRow, MessageType
    <2>3. ASSUME NEW s \in Slots, task[s].event = e, Writes(s, message'[e])
          PROVE  message'[e].attempts = message[e].attempts
      BY <1>1, <2>3 DEF Writes, Row, MessageType
    <2> QED BY <1>1, <2>1, <2>2, <2>3 DEF RowView
  <1> QED BY <1>2, <1>3

LEMMA TaskViews ==
  ASSUME IInv, [Next]_vars, NEW x \in Slots, Busy(x)'
  PROVE  TaskView(x)
  <1>1. RowsTyped /\ TasksTyped /\ TasksWired /\ RowStep
    BY TypeParts, Steps DEF IInv, Wired
  <1>2. task'[x].pc # "idle"
    BY DEF Busy
  <1>3. ASSUME task'[x] = task[x] PROVE TaskView(x)
    BY <1>2, <1>3 DEF TaskView, Busy
  <1>4. ASSUME NEW w \in Workers, NEW s \in Slots, NEW f \in Events, Claim(w, s, f)
        PROVE  TaskView(x)
    <2>1. /\ Claimable(f) /\ message' = [message EXCEPT ![f] = ClaimedRow(f)]
          /\ task' = [task EXCEPT ![s] = ClaimedTask(f)]
      BY <1>4, ClaimSets
    <2>2. CASE x # s
      BY <1>1, <1>3, <2>1, <2>2 DEF TasksTyped
    <2>3. CASE x = s
      <3>1. task'[x] = ClaimedTask(f) /\ \A y \in Slots : y # x => task'[y] = task[y]
        BY <1>1, <2>1, <2>3 DEF TasksTyped
      <3>2. message'[f] = ClaimedRow(f)
        BY <1>1, <2>1 DEF RowsTyped
      <3>3. message'[f].attempts = message[f].attempts + 1
        BY <1>1, <3>2 DEF ClaimedRow, RowsTyped, MessageType
      <3> QED BY <3>1, <3>3 DEF TaskView, ClaimedTask
    <2> QED BY <2>2, <2>3
  <1>5. ASSUME NEW s \in Slots, Busy(s), NEW row, Writes(s, row) PROVE TaskView(x)
    <2>1. CASE x # s
      <3>1. task'[x] = task[x]
        BY <1>1, <1>5, <2>1 DEF Writes, Leave, Goto, TasksTyped
      <3> QED BY <1>3, <3>1
    <2>2. CASE x = s
      <3>1. ~Leave(s)
        BY <1>1, <1>2, <2>2 DEF Leave, TasksTyped, NoTask
      <3>2. CASE task[s].pc = "link" /\ Goto(s, "model")
        BY <1>1, <1>5, <2>2, <3>2 DEF Goto, TasksTyped, TaskType, TaskView, Early
      <3>3. CASE Goto(s, "event")
        BY <1>1, <1>5, <2>2, <3>3 DEF Goto, TasksTyped, TaskType, TaskView, Early
      <3>4. CASE task' = [task EXCEPT ![s] =
                   [@ EXCEPT !.pc = "deliver", !.answer = task[s].attempt]]
        BY <1>1, <1>5, <2>2, <3>4 DEF TasksTyped, TaskType, TaskView, Early
      <3> QED BY <1>5, <3>1, <3>2, <3>3, <3>4 DEF Writes
    <2> QED BY <2>1, <2>2
  <1>6. ASSUME NEW s \in Slots, Busy(s),
               (\E pc \in TaskPc : Onward(s, pc) /\ Goto(s, pc)) \/ Leave(s)
        PROVE  TaskView(x)
    <2>1. CASE x # s
      <3>1. task'[x] = task[x]
        BY <1>1, <1>6, <2>1 DEF Leave, Goto, TasksTyped
      <3> QED BY <1>3, <3>1
    <2>2. CASE x = s
      <3>1. ~Leave(s)
        BY <1>1, <1>2, <2>2 DEF Leave, TasksTyped, NoTask
      <3>2. PICK pc \in TaskPc : Onward(s, pc) /\ Goto(s, pc)
        BY <1>6, <3>1
      <3>3. task'[x].event = task[x].event /\ task'[x].attempt = task[x].attempt
            /\ task'[x].pc = pc
        BY <1>1, <2>2, <3>2 DEF Goto, TasksTyped, TaskType
      <3>4. pc \in Early => task[x].pc \in Early
        BY <2>2, <3>2 DEF Onward, Early
      <3> QED BY <1>6, <2>2, <3>3, <3>4 DEF TaskView
    <2> QED BY <2>1, <2>2
  <1>7. ASSUME NEW w \in Workers,
               task' = [s \in Slots |-> IF Host[s] = w THEN NoTask ELSE task[s]]
        PROVE  TaskView(x)
    <2>1. task'[x] = task[x]
      BY <1>2, <1>7 DEF NoTask
    <2> QED BY <1>3, <2>1
  <1> QED BY <1>1, <1>3, <1>4, <1>5, <1>6, <1>7 DEF RowStep

LEMMA NumberedKept ==
  ASSUME IInv, Numbered, [Next]_vars
  PROVE  Numbered'
  <1>1. /\ RowsTyped /\ TasksTyped /\ TasksWired /\ TraceStep
        /\ TasksTyped' /\ TasksWired' /\ TracesTyped
    BY TypeParts, Steps, TaskKept DEF IInv, Wired
  <1>2. \A x \in Slots : Busy(x)' => TaskView(x) /\ task'[x].event \in Events
                                     /\ task'[x].attempt \in Attempts
    BY <1>1, TaskViews DEF TasksWired
  <1>3. \A x \in Slots : Busy(x) => task[x].event \in Events /\ task[x].attempt \in Attempts
    BY <1>1 DEF TasksWired
  <1>4. Attempts \subseteq Nat
    BY DEF Attempts
  <1>5. Counted'
    <2> SUFFICES ASSUME NEW x \in Slots, Busy(x)'
                 PROVE  task'[x].attempt <= message'[task'[x].event].attempts
      BY DEF Counted
    <2>1. TaskView(x) /\ task'[x].event \in Events /\ task'[x].attempt \in Nat
      BY <1>2, <1>4
    <2>2. CASE task'[x].attempt = message'[task'[x].event].attempts
      BY <2>1, <2>2
    <2>3. CASE Busy(x) /\ task[x].event = task'[x].event /\ task[x].attempt = task'[x].attempt
      BY <2>1, <2>3, Counts DEF Numbered, Counted
    <2> QED BY <2>1, <2>2, <2>3 DEF TaskView
  <1>6. Apart'
    <2>1. ASSUME NEW x \in Slots, NEW y \in Slots, Busy(x)', Busy(y)', x # y,
                 task'[x].event = task'[y].event, task'[x].attempt = task'[y].attempt,
                 message[task'[x].event].attempts + 1 = message'[task'[x].event].attempts,
                 task'[x].attempt = message'[task'[x].event].attempts,
                 \A z \in Slots : z # x => task'[z] = task[z]
          PROVE  FALSE
      <3>1. Busy(y) /\ task[y].event = task'[x].event /\ task[y].attempt = task'[x].attempt
        BY <2>1 DEF Busy
      <3>2. task[y].attempt <= message[task'[x].event].attempts
        BY <3>1 DEF Numbered, Counted
      <3>3. message[task'[x].event].attempts \in Nat
        BY <1>2, <2>1, Counts
      <3> QED BY <2>1, <3>1, <3>2, <3>3
    <2> SUFFICES ASSUME NEW x \in Slots, NEW y \in Slots, Busy(x)', Busy(y)',
                        task'[x].event = task'[y].event, task'[x].attempt = task'[y].attempt
                 PROVE  x = y
      BY DEF Apart
    <2>2. TaskView(x) /\ TaskView(y)
      BY <1>2
    <2>3. CASE /\ Busy(x) /\ task[x].event = task'[x].event /\ task[x].attempt = task'[x].attempt
               /\ Busy(y) /\ task[y].event = task'[y].event /\ task[y].attempt = task'[y].attempt
      BY <2>3 DEF Numbered, Apart
    <2> QED BY <2>1, <2>2, <2>3 DEF TaskView
  <1>7. ASSUME NEW e \in Events, NEW n \in Attempts, n > message[e].attempts
        PROVE  trace'[e][n] = "none"
    <2>1. \A s \in Slots : ~Recorded(s, e, n, trace'[e][n])
      <3>1. ASSUME NEW s \in Slots, Busy(s), task[s].event = e, task[s].attempt = n PROVE FALSE
        BY <1>4, <1>7, <3>1, Counts DEF Numbered, Counted
      <3> QED BY <3>1 DEF Recorded
    <2>2. trace[e][n] = "none"
      BY <1>7 DEF Numbered, Unwritten
    <2> QED BY <1>1, <2>1, <2>2 DEF TraceStep
  <1>8. Unwritten'
    <2> SUFFICES ASSUME NEW e \in Events, NEW n \in Attempts, n > message'[e].attempts
                 PROVE  trace'[e][n] = "none"
      BY DEF Unwritten
    <2>1. n > message[e].attempts
      BY <1>4, Counts
    <2> QED BY <1>7, <2>1
  <1>9. EarlyOpen'
    <2> SUFFICES ASSUME NEW x \in Slots, task'[x].pc \in Early
                 PROVE  trace'[task'[x].event][task'[x].attempt] # "completed"
      BY DEF EarlyOpen
    <2> DEFINE e == task'[x].event
               n == task'[x].attempt
    <2>0. Busy(x)'
      BY DEF Busy, Early
    <2>1. TaskView(x) /\ e \in Events /\ n \in Attempts
      BY <1>2, <2>0
    <2>2. CASE message[e].attempts + 1 = message'[e].attempts /\ n = message'[e].attempts
      <3>1. n > message[e].attempts
        BY <2>1, <2>2, Counts
      <3> QED BY <1>7, <2>1, <3>1
    <2>3. CASE Busy(x) /\ task[x].event = e /\ task[x].attempt = n /\ task[x].pc \in Early
      <3>1. trace[e][n] # "completed"
        BY <2>3 DEF Numbered, EarlyOpen
      <3>2. ASSUME NEW s \in Slots, Recorded(s, e, n, "completed") PROVE FALSE
        <4>1. s = x
          BY <2>3, <3>2 DEF Recorded, Numbered, Apart
        <4>2. task'[x].pc = "store"
          BY <1>1, <3>2, <4>1 DEF Recorded, Goto, TasksTyped, TaskType
        <4> QED BY <4>2 DEF Early
      <3> QED BY <1>1, <2>1, <3>1, <3>2 DEF TraceStep
    <2> QED BY <2>1, <2>2, <2>3 DEF TaskView
  <1> QED BY <1>5, <1>6, <1>8, <1>9 DEF Numbered

LEMMA NumberedAlways == Spec => []Numbered
  <1>1. Init => Numbered
    BY DEF Init, Numbered, Counted, Apart, Unwritten, EarlyOpen, Early, Busy, NoTask
  <1>2. IInv /\ Numbered /\ [Next]_vars => Numbered'
    BY NumberedKept
  <1> QED BY <1>1, <1>2, Inductive, PTL DEF Spec

\* A completed trace is failed by the catch block of its own attempt alone: neither a
\* recovery, nor a worker that starts, nor another attempt does it.
THEOREM VerdictStands == Spec => TraceVerdict
  <1>1. ASSUME IInv, Numbered, [Next]_vars, NEW e \in Events, NEW n \in Attempts,
               trace[e][n] = "completed", trace'[e][n] # "completed"
        PROVE  \E s \in Slots : /\ task[s].pc = "failTrace" /\ task[s].event = e
                               /\ task[s].attempt = n
    <2>1. PICK s \in Slots : Recorded(s, e, n, trace'[e][n])
      BY <1>1, Steps DEF TraceStep
    <2>2. task[s].pc \notin Early
      BY <1>1, <2>1 DEF Recorded, Numbered, EarlyOpen
    <2>3. task[s].pc = "failTrace"
      BY <1>1, <2>1, <2>2 DEF Recorded, Early
    <2> QED BY <2>1, <2>3 DEF Recorded
  <1>2. IInv /\ Numbered /\ [Next]_vars =>
          [\A e \in Events, n \in Attempts :
             trace[e][n] = "completed" /\ trace'[e][n] # "completed" =>
               \E s \in Slots : task[s].pc = "failTrace" /\ task[s].event = e
                               /\ task[s].attempt = n]_vars
    BY <1>1
  <1> QED BY <1>2, Inductive, NumberedAlways, PTL DEF Spec, TraceVerdict

-----------------------------------------------------------------------------
(* What is completed stays so.                                                *)

\* An attempt that is about to write 'received' or 'failed' over its own 'completed'
\* has failed its trace before.
RetryFailed == \A s \in Slots :
    task[s].pc = "retry" /\ task[s].event \notin overrun
      /\ message[task[s].event].status = "completed"
        => trace[task[s].event][task[s].attempt] = "failed"

Sole == OneAttempt /\ AttemptsHeld

LEMMA SoleAlways == Spec => []Sole
  <1>1. Init => Sole
    BY DEF Init, Sole, OneAttempt, AttemptsHeld, Busy, NoTask
  <1>2. IInv /\ Sole /\ [Next]_vars => Sole'
    BY AttemptsKept DEF Sole
  <1> QED BY <1>1, <1>2, Inductive, PTL DEF Spec

LEMMA RetryKept ==
  ASSUME IInv, Sole, Numbered, RetryFailed, [Next]_vars
  PROVE  RetryFailed'
  <1> SUFFICES ASSUME NEW x \in Slots, task'[x].pc = "retry", task'[x].event \notin overrun',
                      message'[task'[x].event].status = "completed"
               PROVE  trace'[task'[x].event][task'[x].attempt] = "failed"
    BY DEF RetryFailed
  <1> DEFINE e == task'[x].event
             n == task'[x].attempt
  <1>1. /\ RowsTyped /\ TasksTyped /\ TasksWired /\ TracesTyped /\ RestTyped /\ TraceStep
        /\ TasksWired' /\ overrun \subseteq overrun'
    BY TypeParts, Steps, TaskKept DEF IInv, Wired, RowStep, Claim, RestTyped
  <1>2. Busy(x)'
    BY DEF Busy
  <1>3. AttemptView(x)
    BY <1>2, AttemptViews DEF Sole
  <1>4. e \in Events /\ n \in Attempts
    BY <1>1, <1>2 DEF TasksWired
  <1>5. task'[x] # ClaimedTask(e)
    BY DEF ClaimedTask
  <1>6. ~Writes(x, message'[e])
    <2>1. ~Leave(x)
      BY <1>1, <1>2 DEF Leave, Busy, NoTask, TasksTyped
    <2>2. ~Goto(x, "model") /\ ~Goto(x, "event")
      BY <1>1 DEF Goto, TasksTyped, TaskType
    <2>3. task' # [task EXCEPT ![x] = [@ EXCEPT !.pc = "deliver", !.answer = task[x].attempt]]
      BY <1>1 DEF TasksTyped, TaskType
    <2> QED BY <2>1, <2>2, <2>3 DEF Writes
  <1>7. Busy(x) /\ task[x].event = e /\ task[x].attempt = n /\ message'[e] = message[e]
    BY <1>3, <1>5, <1>6 DEF AttemptView
  <1>8. Held(x) /\ e \notin overrun
    BY <1>1, <1>7 DEF Sole, AttemptsHeld
  <1>9. CASE task'[x] = task[x]
    <2>1. trace[e][n] = "failed"
      BY <1>7, <1>8, <1>9 DEF RetryFailed
    <2>2. ASSUME NEW s \in Slots, Recorded(s, e, n, trace'[e][n]) PROVE FALSE
      <3>1. s = x
        BY <1>7, <2>2 DEF Recorded, Numbered, Apart
      <3> QED BY <1>9, <2>2, <3>1 DEF Recorded
    <2> QED BY <1>1, <1>4, <2>1, <2>2 DEF TraceStep
  <1>10. ASSUME NEW pc \in TaskPc, Onward(x, pc), Goto(x, pc)
         PROVE  trace'[e][n] = "failed"
    <2>1. pc = "retry"
      BY <1>1, <1>10 DEF Goto, TasksTyped, TaskType
    <2>2. task[x].pc \in {"event", "failTrace", "retry"}
      BY <1>7, <1>8 DEF Held
    <2>3. SetTrace(x, "failed")
      BY <1>10, <2>1, <2>2 DEF Onward
    <2>4. trace' = [trace EXCEPT ![e][n] = "failed"]
      BY <1>7, <2>3 DEF SetTrace
    <2>5. "failed" \in TraceStatus
      BY DEF TraceStatus
    <2> HIDE DEF e, n
    <2> QED BY <1>1, <1>4, <2>4, <2>5, SetTracePoint
  <1> QED BY <1>3, <1>5, <1>6, <1>9, <1>10 DEF AttemptView

LEMMA RetryAlways == Spec => []RetryFailed
  <1>1. Init => RetryFailed
    <2>1. Init => \A s \in Slots : task[s].pc # "retry"
      BY DEF Init, NoTask
    <2> QED BY <2>1 DEF RetryFailed
  <1>2. IInv /\ Sole /\ Numbered /\ RetryFailed /\ [Next]_vars => RetryFailed'
    BY RetryKept
  <1> QED BY <1>1, <1>2, Inductive, SoleAlways, NumberedAlways, PTL DEF Spec

\* What has been completed is only opened again by the attempt that completed it, once
\* it has failed its own trace, or by one that has outlived its lease.
THEOREM CompletedStaysSo == Spec => CompletedStays
  <1>1. ASSUME IInv, Sole, RetryFailed, [Next]_vars, NEW e \in Events,
               message[e].status = "completed", message'[e].status # "completed",
               e \notin overrun
        PROVE  \E s \in Slots : /\ task[s].pc = "retry" /\ task[s].event = e
                               /\ task[s].attempt = message[e].attempts
                               /\ trace[e][task[s].attempt] = "failed"
    <2>1. RowsTyped /\ RowView(e)
      BY <1>1, TypeParts, RowViews DEF IInv
    <2>2. PICK s \in Slots : Busy(s) /\ task[s].event = e /\ Writes(s, message'[e])
      BY <1>1, <2>1 DEF RowView, Claimable
    <2>3. Held(s)
      BY <1>1, <2>2 DEF Sole, AttemptsHeld
    <2>4. task[s].attempt = message[e].attempts /\ task[s].pc \in {"event", "failTrace", "retry"}
      BY <1>1, <2>2, <2>3 DEF Held
    <2>5. task[s].pc = "retry"
      BY <2>2, <2>4 DEF Writes
    <2> QED BY <1>1, <2>2, <2>4, <2>5 DEF RetryFailed
  <1>2. IInv /\ Sole /\ RetryFailed /\ [Next]_vars =>
          [\A e \in Events :
             message[e].status = "completed" /\ message'[e].status # "completed" =>
               \/ e \in overrun
               \/ \E s \in Slots : /\ task[s].pc = "retry" /\ task[s].event = e
                                  /\ task[s].attempt = message[e].attempts
                                  /\ trace[e][task[s].attempt] = "failed"]_vars
    BY <1>1
  <1> QED BY <1>2, Inductive, SoleAlways, RetryAlways, PTL DEF Spec, CompletedStays

-----------------------------------------------------------------------------
(* The answers.  An answer is kept in the row before it is sent, and dropped  *)
(* only with the context token that any other answer would need.              *)

Fresh    == {"closeTrace", "startTrace", "context", "link", "model", "persist", "store"}
Handing  == {"deliver", "redeliver", "complete", "recomplete"}

\* A row that is not there has sent nothing, and one that is completed has.
RowsSent == \A e \in Events :
    /\ message[e].status = "none" => sent[e] = {} /\ message[e].answer = 0
    /\ message[e].status = "completed" => sent[e] # {}

\* An attempt that goes to write 'completed' has sent its answer.
AttemptsSent == \A s \in Slots :
    task[s].pc \in {"complete", "recomplete"} => sent[task[s].event] # {}

\* Of what may still be answered, only the answer that is kept has been sent.
AnswerKept == \A e \in Events : e \notin overrun =>
    \/ ~message[e].token /\ message[e].answer = 0
    \/ message[e].token /\ sent[e] = {}
    \/ message[e].token /\ message[e].answer # 0 /\ sent[e] = {message[e].answer}

\* While no attempts overlap, one that has yet to get its answer finds none in the row,
\* and one that hands its answer over finds that one.
AttemptsAnswer == \A s \in Slots : task[s].event \notin overrun =>
    /\ task[s].pc \in Fresh => /\ message[task[s].event].token
                               /\ message[task[s].event].answer = 0
    /\ task[s].pc \in Handing => /\ message[task[s].event].token
                                 /\ message[task[s].event].answer = task[s].answer

Answered == RowsSent /\ AttemptsSent /\ AnswerKept /\ AttemptsAnswer

\* Sending adds to what has been sent, of a message that has a row.
LEMMA SentGrows ==
  ASSUME IInv, [Next]_vars
  PROVE  \A e \in Events :
           \/ sent'[e] = sent[e]
           \/ \E s \in Slots : /\ Sends(s) /\ task[s].event = e
                               /\ sent'[e] = sent[e] \cup {task[s].answer}
                               /\ message[e].status # "none"
  <1>1. SentTyped /\ TasksWired
    BY TypeParts DEF IInv, Wired
  <1>2. ASSUME NEW s \in Slots, Sends(s), NEW e \in Events
        PROVE  \/ sent'[e] = sent[e]
               \/ /\ task[s].event = e /\ message[e].status # "none"
                  /\ sent'[e] = sent[e] \cup {task[s].answer}
    BY <1>1, <1>2 DEF Sends, Replies, SentTyped, TasksWired
  <1> QED BY <1>2, SentSteps

LEMMA RowsSentKept ==
  ASSUME IInv, RowsSent, AttemptsSent, [Next]_vars
  PROVE  RowsSent'
  <1> SUFFICES ASSUME NEW e \in Events
               PROVE  /\ message'[e].status = "none" => sent'[e] = {} /\ message'[e].answer = 0
                      /\ message'[e].status = "completed" => sent'[e] # {}
    BY DEF RowsSent
  <1>1. RowsTyped /\ TasksTyped /\ TasksWired /\ RowView(e) /\ message[e] \in MessageType
    BY TypeParts, RowViews DEF IInv, Wired, RowsTyped
  <1>2. message[e].status # "none" => message'[e].status # "none"
    BY <1>1, Steps, RowsStay
  <1>3. /\ sent[e] # {} => sent'[e] # {}
        /\ message[e].status = "none" => sent'[e] = sent[e]
    BY SentGrows
  <1>4. CASE message'[e] = message[e]
    BY <1>2, <1>3, <1>4 DEF RowsSent
  <1>5. CASE message'[e] \in {StoredRow(e), ClaimedRow(e), [message[e] EXCEPT !.lease = "over"]}
             /\ message'[e].status \in {"received", "processing"}
    BY <1>5
  <1>6. ASSUME NEW s \in Slots, Busy(s), task[s].event = e, Writes(s, message'[e])
        PROVE  /\ message'[e].status # "none"
               /\ message'[e].status = "completed" => sent'[e] # {}
    <2>1. message[e].status # "none"
      BY <1>1, <1>6 DEF TasksWired
    <2>2. CASE task[s].pc \in {"complete", "recomplete"}
      BY <1>2, <1>3, <1>6, <2>1, <2>2 DEF AttemptsSent
    <2>3. CASE message'[e].status \in {"failed", "received", message[e].status}
      BY <1>2, <1>3, <2>1, <2>3 DEF RowsSent
    <2>4. task[s].pc \notin {"complete", "recomplete"} =>
             message'[e].status \in {"failed", "received", message[e].status}
      BY <1>1, <1>6 DEF Writes, Row, MessageType
    <2> QED BY <2>2, <2>3, <2>4
  <1>7. ClaimedRow(e).status = "processing" /\ StoredRow(e).status = "received"
        /\ [message[e] EXCEPT !.lease = "over"].status = message[e].status
    BY <1>1 DEF ClaimedRow, StoredRow, MessageType
  <1> QED BY <1>1, <1>4, <1>5, <1>6, <1>7 DEF RowView

LEMMA AttemptsSentKept ==
  ASSUME IInv, AttemptsSent, [Next]_vars
  PROVE  AttemptsSent'
  <1> SUFFICES ASSUME NEW x \in Slots, task'[x].pc \in {"complete", "recomplete"}
               PROVE  sent'[task'[x].event] # {}
    BY DEF AttemptsSent
  <1>1. /\ RowsTyped /\ TasksTyped /\ TasksWired /\ RowStep /\ TasksWired' /\ SentTyped
    BY TypeParts, Steps, TaskKept DEF IInv, Wired
  <1>2. task'[x].event \in Events
    BY <1>1 DEF TasksWired, Busy
  <1>3. \A e \in Events : sent[e] # {} => sent'[e] # {}
    BY SentGrows
  <1>4. CASE task'[x] = task[x]
    BY <1>2, <1>3, <1>4 DEF AttemptsSent
  <1>5. ASSUME NEW s \in Slots, NEW f \in Events, task' = [task EXCEPT ![s] = ClaimedTask(f)]
        PROVE  task'[x] = task[x]
    BY <1>1, <1>5 DEF TasksTyped, ClaimedTask
  <1>6. ASSUME NEW s \in Slots, NEW row, Writes(s, row)
        PROVE  task'[x] = task[x]
    <2>1. CASE Leave(s) \/ Goto(s, "model") \/ Goto(s, "event")
      BY <1>1, <2>1 DEF Leave, Goto, NoTask, TasksTyped, TaskType
    <2>2. CASE task' = [task EXCEPT ![s] =
                 [@ EXCEPT !.pc = "deliver", !.answer = task[s].attempt]]
      BY <1>1, <2>2 DEF TasksTyped, TaskType
    <2> QED BY <1>6, <2>1, <2>2 DEF Writes
  <1>7. ASSUME NEW s \in Slots, Busy(s), NEW pc \in TaskPc, Onward(s, pc), Goto(s, pc)
        PROVE  sent'[task'[x].event] # {}
    <2>1. CASE x # s
      BY <1>1, <1>4, <1>7, <2>1 DEF Goto, TasksTyped
    <2>2. CASE x = s
      <3>1. pc = task'[x].pc /\ task'[x].event = task[x].event
        BY <1>1, <1>7, <2>2 DEF Goto, TasksTyped, TaskType
      <3>2. Replies(s)
        BY <1>7, <3>1 DEF Onward
      <3> QED BY <1>1, <1>2, <2>2, <3>1, <3>2 DEF Replies, SentTyped
    <2> QED BY <2>1, <2>2
  <1>8. ASSUME NEW s \in Slots, Leave(s) PROVE task'[x] = task[x]
    BY <1>1, <1>8 DEF Leave, NoTask, TasksTyped
  <1>9. ASSUME NEW w \in Workers,
               task' = [s \in Slots |-> IF Host[s] = w THEN NoTask ELSE task[s]]
        PROVE  task'[x] = task[x]
    BY <1>9 DEF NoTask
  <1> QED BY <1>1, <1>4, <1>5, <1>6, <1>7, <1>8, <1>9, ClaimSets DEF RowStep

LEMMA AnswerKeptKept ==
  ASSUME IInv, RowsSent, AnswerKept, AttemptsAnswer, [Next]_vars
  PROVE  AnswerKept'
  <1> SUFFICES ASSUME NEW e \in Events, e \notin overrun'
               PROVE  \/ ~message'[e].token /\ message'[e].answer = 0
                      \/ message'[e].token /\ sent'[e] = {}
                      \/ message'[e].token /\ message'[e].answer # 0
                         /\ sent'[e] = {message'[e].answer}
    BY DEF AnswerKept
  <1>1. /\ RowsTyped /\ TasksTyped /\ TasksWired /\ SentTyped /\ RestTyped
        /\ RowView(e) /\ message[e] \in MessageType
    BY TypeParts, RowViews DEF IInv, Wired, RowsTyped
  <1>2. e \notin overrun
    BY <1>1, Steps DEF RowStep, Claim, RestTyped
  <1>3. ASSUME NEW s \in Slots, Busy(s), task[s].pc \in {"deliver", "redeliver", "store"}
        PROVE  /\ task[s].pc # "store" => task[s].answer # 0
               /\ task[s].attempt # 0
    BY <1>1, <1>3 DEF TasksWired, Attempts
  <1>4. ASSUME NEW s \in Slots, Sends(s), task[s].event = e, sent'[e] = sent[e] \cup {task[s].answer}
        PROVE  message'[e].token /\ message'[e].answer # 0 /\ sent'[e] = {message'[e].answer}
    <2>1. message[e].token /\ message[e].answer = task[s].answer
      BY <1>2, <1>4 DEF Sends, AttemptsAnswer, Handing
    <2>2. task[s].answer # 0
      BY <1>3, <1>4 DEF Sends
    <2>3. sent[e] = {} \/ sent[e] = {task[s].answer}
      BY <1>2, <2>1, <2>2 DEF AnswerKept
    <2> QED BY <1>4, <2>1, <2>2, <2>3 DEF Sends
  <1>5. CASE sent'[e] = sent[e]
    <2>1. CASE message'[e].token = message[e].token /\ message'[e].answer = message[e].answer
      BY <1>2, <1>5, <2>1 DEF AnswerKept
    <2>2. CASE message[e].status = "none" /\ message'[e] = StoredRow(e)
      BY <1>1, <1>5, <2>2 DEF RowsSent, StoredRow, MessageType
    <2>3. CASE message'[e] \in {ClaimedRow(e), [message[e] EXCEPT !.lease = "over"]}
      BY <1>1, <2>1, <2>3 DEF ClaimedRow, MessageType
    <2>4. ASSUME NEW s \in Slots, Busy(s), task[s].event = e, Writes(s, message'[e])
          PROVE  \/ ~message'[e].token /\ message'[e].answer = 0
                 \/ message'[e].token /\ sent'[e] = {}
                 \/ message'[e].token = message[e].token /\ message'[e].answer = message[e].answer
      <3>1. CASE task[s].pc = "store"
        <4>1. message[e].token /\ message[e].answer = 0
          BY <1>2, <2>4, <3>1 DEF AttemptsAnswer, Fresh
        <4>2. sent[e] = {}
          BY <1>2, <4>1 DEF AnswerKept
        <4>3. message'[e] = [message[e] EXCEPT !.answer = task[s].attempt]
          BY <2>4, <3>1 DEF Writes, Row
        <4>4. message'[e].token
          BY <1>1, <4>1, <4>3 DEF MessageType
        <4> QED BY <1>5, <4>2, <4>4
      <3>2. CASE task[s].pc \in {"complete", "recomplete"}
        BY <1>1, <2>4, <3>2 DEF Writes, Row, MessageType
      <3>3. CASE task[s].pc \notin {"store", "complete", "recomplete"}
        BY <1>1, <2>4, <3>3 DEF Writes, Row, MessageType
      <3> QED BY <3>1, <3>2, <3>3
    <2> QED BY <1>1, <2>1, <2>2, <2>3, <2>4 DEF RowView
  <1> QED BY <1>4, <1>5, SentGrows

LEMMA AttemptsAnswerKept ==
  ASSUME IInv, Sole, AttemptsAnswer, [Next]_vars
  PROVE  AttemptsAnswer'
  <1> SUFFICES ASSUME NEW x \in Slots, task'[x].event \notin overrun',
                      task'[x].pc \in Fresh \cup Handing
               PROVE  /\ message'[task'[x].event].token
                      /\ task'[x].pc \in Fresh => message'[task'[x].event].answer = 0
                      /\ task'[x].pc \in Handing =>
                            message'[task'[x].event].answer = task'[x].answer
    BY DEF AttemptsAnswer
  <1> DEFINE e == task'[x].event
  <1>1. /\ RowsTyped /\ TasksTyped /\ TasksWired /\ RestTyped /\ TasksWired'
        /\ overrun \subseteq overrun'
    BY TypeParts, Steps, TaskKept DEF IInv, Wired, RowStep, Claim, RestTyped
  <1>2. Busy(x)'
    BY DEF Busy, Fresh, Handing
  <1>3. AttemptView(x) /\ e \in Events
    BY <1>1, <1>2, AttemptViews DEF Sole, TasksWired
  <1>4. message[e] \in MessageType /\ task[x] \in TaskType
    BY <1>1, <1>3 DEF RowsTyped, TasksTyped
  <1>5. CASE message'[e] = ClaimedRow(e) /\ task'[x] = ClaimedTask(e)
    <2>1. message'[e].token = message[e].token /\ message'[e].answer = message[e].answer
      BY <1>4, <1>5 DEF ClaimedRow, MessageType
    <2>2. task'[x].pc # "noToken" /\ message[e].token \in BOOLEAN
      BY <1>4 DEF Fresh, Handing, MessageType
    <2> QED BY <1>5, <2>1, <2>2 DEF ClaimedTask, Fresh, Handing
  <1>6. ASSUME Busy(x), task[x].event = e
        PROVE  /\ task[x].pc \in Fresh => message[e].token /\ message[e].answer = 0
               /\ task[x].pc \in Handing => message[e].token /\ message[e].answer = task[x].answer
    BY <1>1, <1>6 DEF AttemptsAnswer
  <1>7. CASE Busy(x) /\ task[x].event = e /\ message'[e] = message[e] /\ task'[x] = task[x]
    BY <1>6, <1>7
  <1>8. CASE Busy(x) /\ task[x].event = e /\ Writes(x, message'[e])
    <2>1. ~Leave(x)
      BY <1>1, <1>2 DEF Leave, Busy, NoTask, TasksTyped
    <2>2. ~Goto(x, "event")
      BY <1>1 DEF Goto, TasksTyped, TaskType, Fresh, Handing
    <2>3. CASE task[x].pc = "link" /\ Goto(x, "model")
      <3>1. message'[e] = [message[e] EXCEPT !.trace = task[x].attempt]
        BY <1>8, <2>3 DEF Writes, Row
      <3>2. message'[e].token = message[e].token /\ message'[e].answer = message[e].answer
        BY <1>4, <3>1 DEF MessageType
      <3>3. task'[x].pc = "model"
        BY <1>1, <2>3 DEF Goto, TasksTyped, TaskType
      <3> QED BY <1>6, <1>8, <2>3, <3>2, <3>3 DEF Fresh, Handing
    <2>4. CASE task[x].pc = "store"
      <3>1. message'[e] = [message[e] EXCEPT !.answer = task[x].attempt]
        BY <1>8, <2>4 DEF Writes, Row
      <3>2. message'[e].token = message[e].token /\ message'[e].answer = task[x].attempt
        BY <1>4, <3>1 DEF MessageType
      <3>3. task' = [task EXCEPT ![x] = [@ EXCEPT !.pc = "deliver", !.answer = task[x].attempt]]
        BY <1>8, <2>4 DEF Writes
      <3>4. task'[x].pc = "deliver" /\ task'[x].answer = task[x].attempt
        BY <1>1, <3>3 DEF TasksTyped, TaskType
      <3> QED BY <1>6, <1>8, <2>4, <3>2, <3>4 DEF Fresh, Handing
    <2> QED BY <1>8, <2>1, <2>2, <2>3, <2>4 DEF Writes
  <1>9. ASSUME Busy(x), task[x].event = e, message'[e] = message[e],
               NEW pc \in TaskPc, Onward(x, pc), Goto(x, pc)
        PROVE  /\ message'[e].token
               /\ pc \in Fresh => message'[e].answer = 0
               /\ pc \in Handing => message'[e].answer = task'[x].answer
    <2>1. task'[x].pc = pc /\ task'[x].answer = task[x].answer
      BY <1>1, <1>9 DEF Goto, TasksTyped, TaskType
    <2>2. CASE pc \in Fresh
      <3>1. task[x].pc \in Fresh
        BY <1>9, <2>2 DEF Onward, Fresh
      <3> QED BY <1>6, <1>9, <2>2, <3>1 DEF Fresh, Handing
    <2>3. CASE pc \in Handing
      <3>1. task[x].pc \in Handing
        BY <1>9, <2>3 DEF Onward, Handing
      <3> QED BY <1>6, <1>9, <2>1, <2>3, <3>1 DEF Fresh, Handing
    <2> QED BY <2>1, <2>2, <2>3
  <1>10. ASSUME NEW pc, Goto(x, pc) PROVE task'[x].pc = pc
    BY <1>1, <1>10 DEF Goto, TasksTyped, TaskType
  <1> QED BY <1>3, <1>5, <1>7, <1>8, <1>9, <1>10 DEF AttemptView

LEMMA AnsweredAlways == Spec => []Answered
  <1>1. Init => Answered
    <2> SUFFICES ASSUME Init PROVE Answered
      OBVIOUS
    <2>1. \A s \in Slots : task[s].pc = "idle"
      BY DEF Init, NoTask
    <2>2. \A e \in Events : /\ message[e].status = "none" /\ ~message[e].token
                            /\ message[e].answer = 0 /\ sent[e] = {}
      BY DEF Init, NoRow
    <2>3. RowsSent /\ AnswerKept
      BY <2>2 DEF RowsSent, AnswerKept
    <2>4. AttemptsSent /\ AttemptsAnswer
      BY <2>1 DEF AttemptsSent, AttemptsAnswer, Fresh, Handing
    <2> QED BY <2>3, <2>4 DEF Answered
  <1>2. IInv /\ Sole /\ Answered /\ [Next]_vars => Answered'
    BY RowsSentKept, AttemptsSentKept, AnswerKeptKept, AttemptsAnswerKept DEF Answered
  <1> QED BY <1>1, <1>2, Inductive, SoleAlways, PTL DEF Spec

\* A message that is recorded as completed has reached its user, and the answer that
\* waits for a redelivery has its context token, for any interleaving of attempts.
THEOREM CompletedReached == Spec => []CompletedWasSent
  <1>1. Answered => CompletedWasSent
    BY DEF Answered, RowsSent, AnswerKept, CompletedWasSent
  <1> QED BY <1>1, AnsweredAlways, PTL

\* The channel implements the Inbox: for any number of workers, messages, attempts and
\* faults a user is sent one answer, except where two attempts have overlapped.
THEOREM ImplementsInbox == Spec => AnswersOnce
  <1> DEFINE known == {e \in Events : message[e].status # "none"}
  <1>1. Init => Promised!Init
    BY DEF Init, Promised!Init, NoRow
  <1>2. IInv /\ Sole /\ Answered /\ [Next]_vars => [Promised!Next]_(Promised!vars)
    <2> SUFFICES ASSUME IInv, Sole, Answered, [Next]_vars
                 PROVE  Promised!Next \/ UNCHANGED <<known, overrun, sent>>
      BY DEF Promised!vars
    <2>1. /\ RowsTyped /\ TasksTyped /\ TasksWired /\ SentTyped /\ RestTyped /\ RowStep
      BY TypeParts, Steps DEF IInv, Wired
    <2>2. ASSUME NEW s \in Slots, Sends(s) PROVE Promised!Next \/ UNCHANGED <<known, overrun, sent>>
      <3> DEFINE e == task[s].event
                 a == task[s].answer
      <3>1. /\ e \in Events /\ a \in Attempts /\ message[e].status # "none"
            /\ sent' = [sent EXCEPT ![e] = @ \cup {a}]
            /\ UNCHANGED <<known, overrun>>
        BY <2>1, <2>2 DEF Sends, Replies, TasksWired
      <3>2. CASE sent[e] = {} \/ e \in overrun
        BY <3>1, <3>2 DEF Promised!Next, Promised!Reply
      <3>3. CASE sent[e] # {} /\ e \notin overrun
        <4>1. message[e].token /\ message[e].answer = a
          BY <2>2, <3>3 DEF Sends, Answered, AttemptsAnswer, Handing
        <4>2. sent[e] = {a}
          BY <3>1, <3>3, <4>1 DEF Answered, AnswerKept
        <4>3. sent' = sent
          BY <2>1, <3>1, <4>2 DEF SentTyped
        <4> QED BY <3>1, <4>3
      <3> QED BY <3>2, <3>3
    <2>3. CASE UNCHANGED sent
      <3>1. ASSUME NEW f \in Events, NEW row, row.status # "none", UNCHANGED overrun,
                   message' = [message EXCEPT ![f] = row]
            PROVE  Promised!Next
        <4>1. \A e \in Events : message'[e] = IF e = f THEN row ELSE message[e]
          BY <2>1, <3>1 DEF RowsTyped
        <4>2. known' = known \cup {f}
          BY <3>1, <4>1
        <4> QED BY <2>3, <3>1, <4>2 DEF Promised!Next, Promised!TakeIn
      <3>2. ASSUME NEW f \in Events, message[f].status = "processing",
                   message' = [message EXCEPT ![f].lease = "over"],
                   overrun' = IF AtWork(f) THEN overrun \cup {f} ELSE overrun
            PROVE  Promised!Next \/ UNCHANGED <<known, overrun, sent>>
        <4>1. \A e \in Events : message'[e].status = message[e].status
          BY <2>1, <3>2 DEF RowsTyped, MessageType
        <4>2. UNCHANGED known /\ f \in known
          BY <3>2, <4>1
        <4> QED BY <2>3, <3>2, <4>2 DEF Promised!Next, Promised!Dispute
      <3>3. CASE UNCHANGED <<message, overrun>>
        BY <2>3, <3>3
      <3>4. CASE UNCHANGED overrun
        BY <2>1, <3>1, <3>3, <3>4, RowChanges
      <3>5. ASSUME NEW w \in Workers, NEW s \in Slots, NEW e \in Events, Claim(w, s, e)
            PROVE  UNCHANGED overrun
        BY <3>5 DEF Claim
      <3> QED BY <2>1, <3>2, <3>4, <3>5 DEF RowStep
    <2> QED BY <2>2, <2>3, SentSteps
  <1> QED BY <1>1, <1>2, Inductive, SoleAlways, AnsweredAlways, PTL
          DEF Spec, AnswersOnce, Promised!Spec

-----------------------------------------------------------------------------
(* No message is forgotten: the safety half of EveryEventEnds.                 *)

\* what strands a message: the end of its attempt, in its process or in its catch
\* block, and a lease that runs out under it
Fatal == {"crash", "shutdown", "db", "slow"}

\* no fault of these kinds has struck, or none can
Spared(kinds) == faults = 0 \/ kinds \cap Faults = {}

\* A row is leased exactly while it is being processed.
RowsLeased == \A e \in Events :
    /\ message[e].status = "processing" <=> message[e].lease # "none"
    /\ message[e].status = "none" => message[e].attempts = 0

\* A message that has come in and has not ended is one that recoverBinding selects,
\* or will be when its lease runs out, or is being answered; the rest has used up
\* its attempts. No status falls between the conditions of the two queries.
NothingForgotten == \A e \in Events :
    message[e].status \in {"received", "processing"} =>
        Claimable(e) \/ message[e].lease = "live" \/ AtWork(e) \/ Stranded(e)

\* an attempt that will write to the row of e again
Answering(e) == \E s \in Slots : Busy(s) /\ task[s].event = e /\ task[s].pc # "event"

\* What is being processed is being answered, and what waits has an attempt left.
InHand == \A e \in Events :
    /\ message[e].status = "processing" => Answering(e)
    /\ message[e].status = "received" => message[e].attempts < MaxAttempts

NoneLeaving == \A w \in Workers : proc[w] # "leaving"

\* inductive with the other invariants
HandInv == Spared(Fatal) => NoneLeaving /\ overrun = {} /\ InHand

LEMMA FaultsGrow ==
  ASSUME IInv, [Next]_vars PROVE faults' = faults \/ \E kind \in AllFaults : Strike(kind)
  BY DEF Next, Poll, Mishap, Admin, vars, Arrive, BindingLeaseOver, Sync, PollCheck, PollReturns,
         PollEmpty, StoreEvent, SaveCursor, BackOff, Exit, Boot, ClaimRefused, CapacityFull, Claim,
         Attempt, NoToken, CloseTrace, StartTrace, Context, Link, Model, Persist, Store, Deliver,
         Complete, LastEvent, FailTrace, RetryOrFail, MessageLeaseOver, PollFails, Expire, AllFaults,
         Shutdown, Throws, CatchThrows, Unbound, QrCode, Confirmed, Redirected, Disconnect

\* Who is spared after a step was spared before, and not struck by it.
LEMMA SparedBefore ==
  ASSUME IInv, [Next]_vars, NEW kinds, Spared(kinds)'
  PROVE  Spared(kinds) /\ \A kind \in kinds : ~Strike(kind)
  <1>1. faults \in Nat
    BY TypeParts, ChannelAssumption DEF IInv, RestTyped
  <1>2. \A kind : Strike(kind) => faults' = faults + 1 /\ kind \in Faults
    BY DEF Strike
  <1>3. faults' = faults \/ faults' = faults + 1
    BY FaultsGrow, <1>2
  <1>4. faults' = 0 \/ kinds \cap Faults = {}
    BY DEF Spared
  <1>5. faults' = 0 => faults = 0 /\ faults' # faults + 1
    BY <1>1, <1>3
  <1> QED BY <1>2, <1>4, <1>5 DEF Spared

LEMMA LeasesKept ==
  ASSUME IInv, RowsLeased, [Next]_vars PROVE RowsLeased'
  <1> SUFFICES ASSUME NEW e \in Events
               PROVE  /\ message'[e].status = "processing" <=> message'[e].lease # "none"
                      /\ message'[e].status = "none" => message'[e].attempts = 0
    BY DEF RowsLeased
  <1>1. message[e] \in MessageType /\ RowView(e) /\ TasksWired
    BY TypeParts, RowViews DEF IInv, Wired, RowsTyped
  <1>2. /\ message[e].status = "processing" <=> message[e].lease # "none"
        /\ message[e].status = "none" => message[e].attempts = 0
    BY DEF RowsLeased
  <1>3. CASE message'[e] = message[e]
    BY <1>2, <1>3
  <1>4. CASE message[e].status = "none" /\ message'[e] = StoredRow(e)
    BY <1>1, <1>2, <1>4 DEF StoredRow, MessageType
  <1>5. CASE message[e].status = "processing" /\ message'[e] = [message[e] EXCEPT !.lease = "over"]
    BY <1>1, <1>5 DEF MessageType
  <1>6. CASE Claimable(e) /\ message'[e] = ClaimedRow(e)
    <2>1. message'[e].status = "processing" /\ message'[e].lease = "live"
      BY <1>1, <1>6 DEF ClaimedRow, MessageType
    <2> QED BY <2>1
  <1>7. ASSUME NEW s \in Slots, Busy(s), task[s].event = e, Writes(s, message'[e])
        PROVE  /\ message'[e].status = "processing" <=> message'[e].lease # "none"
               /\ message'[e].status = "none" => message'[e].attempts = 0
    <2>1. Row(s) = message[e] /\ message[e].status # "none"
      BY <1>7 DEF Row, TasksWired, IInv, Wired
    <2>2. \/ /\ message'[e].status \in {"failed", "completed", "received"}
             /\ message'[e].lease = "none"
          \/ message'[e].status = message[e].status /\ message'[e].lease = message[e].lease
      BY <1>1, <1>7, <2>1 DEF Writes, MessageType
    <2> QED BY <1>2, <2>1, <2>2
  <1> QED BY <1>1, <1>3, <1>4, <1>5, <1>6, <1>7 DEF RowView

\* A spared step takes no attempt away but one that has written all it had to.
LEMMA HandKept ==
  ASSUME IInv, AttemptsHeld, RowsLeased, HandInv, [Next]_vars PROVE HandInv'
  <1> SUFFICES ASSUME Spared(Fatal)' PROVE (NoneLeaving /\ overrun = {} /\ InHand)'
    BY DEF HandInv
  <1>1. /\ Spared(Fatal) /\ ~Strike("crash") /\ ~Strike("shutdown")
        /\ ~Strike("db") /\ ~Strike("slow")
    BY SparedBefore DEF Fatal
  <1>2. NoneLeaving /\ overrun = {} /\ InHand
    BY <1>1 DEF HandInv
  <1>3. RowsTyped /\ TasksTyped /\ TasksWired /\ RowStep /\ ProcsTyped
    BY TypeParts, Steps DEF IInv, Wired
  <1>4. NoneLeaving'
    <2>1. ASSUME NEW w \in Workers, Exit(w) \/ Boot(w) PROVE NoneLeaving'
      BY <1>2, <1>3, <2>1 DEF Exit, Boot, ProcsTyped, NoneLeaving
    <2>2. CASE \A w \in Workers : ~(Exit(w) \/ Boot(w))
      <3>1. UNCHANGED proc
        BY <1>1, <2>2 DEF Next, Poll, Mishap, Admin, vars, BindingLeaseOver, Arrive, Sync, PollCheck,
           PollReturns, PollEmpty, StoreEvent, SaveCursor, BackOff, ClaimRefused,
           CapacityFull, Claim, Attempt, NoToken, CloseTrace, StartTrace, Context, Link, Model, Persist,
           Store, Deliver, Complete, LastEvent, FailTrace, RetryOrFail, MessageLeaseOver, PollFails,
           Expire, Throws, CatchThrows, Unbound, QrCode, Confirmed, Redirected, Disconnect, Shutdown
      <3> QED BY <1>2, <3>1 DEF NoneLeaving
    <2> QED BY <2>1, <2>2
  <1>5. overrun' = {}
    BY <1>1, <1>2, <1>3, ClaimSets DEF RowStep
  <1>6. ASSUME NEW f \in Events, NEW row, message' = [message EXCEPT ![f] = row]
        PROVE  \A e \in Events : message'[e] = IF e = f THEN row ELSE message[e]
    BY <1>3, <1>6 DEF RowsTyped
  <1>7. ASSUME NEW s \in Slots, NEW t, task' = [task EXCEPT ![s] = t]
        PROVE  task'[s] = t /\ \A x \in Slots : x # s => task'[x] = task[x]
    BY <1>3, <1>7 DEF TasksTyped
  <1>8. ASSUME NEW e \in Events, Answering(e), UNCHANGED task PROVE Answering(e)'
    BY <1>8 DEF Answering, Busy
  <1>9. ASSUME NEW e \in Events, Answering(e), NEW s \in Slots, task[s].pc = "event" \/ ~Busy(s) \/ task[s].event # e,
               \A x \in Slots : x # s => task'[x] = task[x]
        PROVE  Answering(e)'
    BY <1>9 DEF Answering, Busy
  <1>10. ASSUME NEW s \in Slots, Busy(s), NEW pc, Goto(s, pc), pc \notin {"idle", "event"}
         PROVE  /\ \A e \in Events : task[s].event = e => Answering(e)'
                /\ \A x \in Slots : x # s => task'[x] = task[x]
    <2>1. task[s] \in TaskType
      BY <1>3 DEF TasksTyped
    <2>2. task'[s].pc = pc /\ task'[s].event = task[s].event
      BY <1>10, <1>3, <2>1 DEF Goto, TaskType, TasksTyped
    <2> QED BY <1>3, <1>10, <2>2 DEF Answering, Busy, Goto, TasksTyped
  <1>11. ASSUME NEW e \in Events, message'[e].status = "processing" PROVE Answering(e)'
    <2>1. ASSUME message'[e] = message[e] PROVE Answering(e)
      BY <1>2, <1>11, <2>1 DEF InHand
    <2>2. CASE UNCHANGED <<message, task, overrun>>
      BY <1>8, <2>1, <2>2
    <2>3. ASSUME NEW f \in Events, message[f].status = "none", UNCHANGED <<task, overrun>>,
                 message' = [message EXCEPT ![f] = StoredRow(f)]
          PROVE  Answering(e)'
      <3>1. StoredRow(f).status = "received"
        BY <1>3 DEF StoredRow, RowsTyped, MessageType
      <3>2. e # f
        BY <1>6, <1>11, <2>3, <3>1
      <3> QED BY <1>6, <1>8, <2>1, <2>3, <3>2
    <2>4. ASSUME NEW f \in Events, message[f].status = "processing", UNCHANGED task,
                 message' = [message EXCEPT ![f].lease = "over"]
          PROVE  Answering(e)'
      <3>1. message' = [message EXCEPT ![f] = [message[f] EXCEPT !.lease = "over"]]
        BY <2>4
      <3>2. message[e].status = "processing"
        BY <1>6, <1>11, <2>4, <3>1
      <3> QED BY <1>2, <1>8, <2>4, <3>2 DEF InHand
    <2>5. ASSUME NEW w \in Workers, NEW s \in Slots, NEW f \in Events, Claim(w, s, f)
          PROVE  Answering(e)'
      <3>1. /\ Claimable(f) /\ ~Busy(s) /\ message' = [message EXCEPT ![f] = ClaimedRow(f)]
            /\ task' = [task EXCEPT ![s] = ClaimedTask(f)]
        BY <2>5, ClaimSets
      <3>2. task'[s] = ClaimedTask(f) /\ \A x \in Slots : x # s => task'[x] = task[x]
        BY <1>7, <3>1
      <3>3. CASE e = f
        <4>1. /\ ClaimedTask(f).event = f
              /\ ClaimedTask(f).pc \in {"noToken", "redeliver", "closeTrace", "startTrace"}
          BY <1>3, <3>1, ClaimedTyped
        <4> QED BY <3>2, <3>3, <4>1 DEF Answering, Busy
      <3>4. CASE e # f
        BY <1>6, <1>9, <2>1, <3>1, <3>2, <3>4
      <3> QED BY <3>3, <3>4
    <2>6. ASSUME NEW s \in Slots, Busy(s), NEW row \in MessageType, SetRow(s, row), Writes(s, row)
          PROVE  Answering(e)'
      <3> DEFINE f == task[s].event
      <3>1. f \in Events /\ Row(s) \in MessageType
        BY <1>3, <2>6 DEF TasksWired, Row, RowsTyped
      <3>2. message'[e] = IF e = f THEN row ELSE message[e]
        BY <1>6, <2>6, <3>1 DEF SetRow
      <3>3. \A x \in Slots : x # s => task'[x] = task[x]
        BY <1>3, <2>6 DEF Writes, Leave, Goto, TasksTyped
      <3>4. CASE e # f
        BY <1>9, <2>1, <3>2, <3>3, <3>4
      <3>5. CASE e = f
        <4>1. row.status = "processing"
          BY <1>11, <3>2, <3>5
        <4>2. task[s].pc \in {"link", "store"}
          BY <2>6, <3>1, <4>1 DEF Writes, MessageType
        <4>3. CASE task[s].pc = "link"
          <5>1. Goto(s, "model")
            BY <2>6, <4>3 DEF Writes
          <5>2. \A x \in Events : task[s].event = x => Answering(x)'
            BY <1>10, <2>6, <5>1
          <5> QED BY <3>5, <5>2
        <4>4. CASE task[s].pc = "store"
          <5> DEFINE t == [task[s] EXCEPT !.pc = "deliver", !.answer = task[s].attempt]
          <5>1. task' = [task EXCEPT ![s] = t]
            BY <2>6, <4>4 DEF Writes
          <5>2. t.pc = "deliver" /\ t.event = f
            BY <1>3 DEF TasksTyped, TaskType
          <5> HIDE DEF t
          <5>3. task'[s] = t
            BY <1>7, <5>1
          <5> QED BY <3>5, <5>2, <5>3 DEF Answering, Busy
        <4> QED BY <4>2, <4>3, <4>4
      <3> QED BY <3>4, <3>5
    <2>7. ASSUME NEW s \in Slots, Busy(s), UNCHANGED <<message, overrun>>,
                 NEW pc \in TaskPc, Onward(s, pc), Goto(s, pc)
          PROVE  Answering(e)'
      <3>1. pc \notin {"idle", "event"}
        BY <2>7 DEF Onward
      <3>2. CASE task[s].event = e
        BY <1>10, <2>7, <3>1, <3>2
      <3>3. CASE task[s].event # e
        BY <1>9, <1>10, <2>1, <2>7, <3>1, <3>3
      <3> QED BY <3>2, <3>3
    <2>8. ASSUME NEW s \in Slots, UNCHANGED <<message, overrun>>, Leave(s),
                 task[s].pc = "event" \/ Strike("db")
          PROVE  Answering(e)'
      BY <1>1, <1>7, <1>9, <2>1, <2>8 DEF Leave
    <2>9. ASSUME NEW w \in Workers, proc[w] = "leaving" \/ Strike("crash")
          PROVE  FALSE
      BY <1>1, <1>2, <2>9 DEF NoneLeaving
    <2> QED BY <1>3, <2>2, <2>3, <2>4, <2>5, <2>6, <2>7, <2>8, <2>9 DEF RowStep
  <1>12. ASSUME NEW e \in Events, message'[e].status = "received"
         PROVE  message'[e].attempts < MaxAttempts
    <2>1. message[e] \in MessageType /\ RowView(e)
      BY <1>3, RowViews DEF RowsTyped
    <2>2. CASE message'[e] = message[e]
      BY <1>2, <1>12, <2>2 DEF InHand
    <2>3. CASE message[e].status = "none" /\ message'[e] = StoredRow(e)
      <3>1. message'[e].attempts = 0
        BY <2>1, <2>3 DEF StoredRow, MessageType, RowsLeased
      <3> QED BY <3>1, ChannelAssumption
    <2>4. CASE message[e].status = "processing" /\ message'[e] = [message[e] EXCEPT !.lease = "over"]
      BY <1>12, <2>1, <2>4 DEF MessageType
    <2>5. CASE Claimable(e) /\ message'[e] = ClaimedRow(e)
      BY <1>12, <2>1, <2>5 DEF ClaimedRow, MessageType
    <2>6. ASSUME NEW s \in Slots, Busy(s), task[s].event = e, Writes(s, message'[e])
          PROVE  message'[e].attempts < MaxAttempts
      <3>1. Row(s) = message[e] /\ task[s].attempt = message[e].attempts
        BY <1>2, <2>6 DEF Row, AttemptsHeld, Held
      <3>2. message'[e].attempts = message[e].attempts
        <4>1. ASSUME NEW st, message'[e] = [message[e] EXCEPT !.lease = "none", !.status = st]
              PROVE  message'[e].attempts = message[e].attempts
          BY <2>1, <4>1 DEF MessageType
        <4>2. ASSUME NEW n, \/ message'[e] = [message[e] EXCEPT !.trace = n]
                            \/ message'[e] = [message[e] EXCEPT !.answer = n]
                            \/ message'[e] = [message[e] EXCEPT !.status = "completed",
                                                !.lease = "none", !.token = FALSE, !.answer = 0]
              PROVE  message'[e].attempts = message[e].attempts
          BY <2>1, <4>2 DEF MessageType
        <4>3. CASE task[s].pc \in {"retry"}
          BY <2>6, <3>1, <4>1, <4>3 DEF Writes
        <4>4. CASE task[s].pc \in {"noToken", "startTrace"}
          <5>1. message'[e] = [message[e] EXCEPT !.status = "failed", !.lease = "none"]
            BY <2>6, <3>1, <4>4 DEF Writes
          <5> QED BY <2>1, <5>1 DEF MessageType
        <4>5. CASE task[s].pc \in {"link", "store", "complete", "recomplete"}
          BY <2>6, <3>1, <4>2, <4>5 DEF Writes
        <4> QED BY <2>6, <4>3, <4>4, <4>5 DEF Writes
      <3>3. \/ message[e].status = "received"
            \/ task[s].attempt < MaxAttempts
        BY <1>12, <2>1, <2>6, <3>1 DEF Writes, MessageType
      <3> QED BY <1>2, <3>1, <3>2, <3>3 DEF InHand
    <2> QED BY <2>1, <2>2, <2>3, <2>4, <2>5, <2>6 DEF RowView
  <1>13. InHand'
    BY <1>11, <1>12 DEF InHand
  <1> QED BY <1>4, <1>5, <1>13

LEMMA HandAlways == Spec => [](IInv /\ RowsLeased /\ HandInv)
  <1>1. Init => RowsLeased /\ HandInv
    BY DEF Init, NoRow, RowsLeased, HandInv, NoneLeaving, InHand
  <1>2. IInv /\ AttemptsHeld /\ (RowsLeased /\ HandInv) /\ [Next]_vars => (RowsLeased /\ HandInv)'
    BY LeasesKept, HandKept
  <1>3. Sole => AttemptsHeld
    BY DEF Sole
  <1> QED BY <1>1, <1>2, <1>3, Inductive, SoleAlways, PTL DEF Spec

\* Whatever dies, is late or fails, a message that was taken in and has not ended
\* is claimable, leased or under way, until its attempts are used up: the query of
\* recoverBinding leaves none out.
THEOREM NothingIsForgotten == Spec => []NothingForgotten
  <1>1. IInv /\ RowsLeased => NothingForgotten
    <2> SUFFICES ASSUME IInv, RowsLeased, NEW e \in Events,
                        message[e].status \in {"received", "processing"}
                 PROVE  Claimable(e) \/ message[e].lease = "live" \/ AtWork(e) \/ Stranded(e)
      BY DEF NothingForgotten
    <2>1. message[e] \in MessageType
      BY TypeParts DEF IInv, RowsTyped
    <2>2. message[e].attempts < MaxAttempts \/ message[e].attempts = MaxAttempts
      BY <2>1, ChannelAssumption DEF MessageType
    <2>3. message[e].status = "processing" => message[e].lease \in {"live", "over"}
      BY <2>1 DEF RowsLeased, MessageType
    <2> QED BY <2>2, <2>3 DEF Claimable, Stranded
  <1> QED BY <1>1, HandAlways, PTL

\* And none is stranded in its last attempt, unless a worker dies or is shut down,
\* the catch block of an attempt fails, or an attempt outlives its lease: without
\* these, every message that is being processed is being answered, and every one
\* that waits has an attempt left.
THEOREM NoneIsStranded ==
  Spec => [](Spared(Fatal) => InHand /\ \A e \in Events : ~Stranded(e))
  <1>1. IInv /\ HandInv => (Spared(Fatal) => InHand /\ \A e \in Events : ~Stranded(e))
    <2> SUFFICES ASSUME IInv, InHand, NEW e \in Events PROVE ~Stranded(e)
      BY DEF HandInv
    <2>1. message[e] \in MessageType
      BY TypeParts DEF IInv, RowsTyped
    <2>2. message[e].status = "processing" => AtWork(e)
      BY DEF InHand, Answering, AtWork
    <2>3. message[e].status = "received" => message[e].attempts # MaxAttempts
      BY <2>1, ChannelAssumption DEF InHand, MessageType
    <2> QED BY <2>2, <2>3 DEF Stranded
  <1> QED BY <1>1, HandAlways, PTL
=============================================================================

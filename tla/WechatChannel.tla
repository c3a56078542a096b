--------------------------- MODULE WechatChannel ---------------------------
(***************************************************************************)
(* One WeChat binding: workers that take its lease and poll it, the inbox  *)
(* of messages they share, the attempts to answer a message, each with a   *)
(* trace of its own, and the answers that reach the user.                  *)
(*                                                                         *)
(* WeChat's updates are numbered; the cursor says how far a poller has     *)
(* read. An attempt is named by its number: so are its trace and the       *)
(* answer it generates.                                                    *)
(***************************************************************************)
EXTENDS Naturals, FiniteSets

CONSTANTS
    Workers,      \* worker processes
    Slots,        \* the places of the workers' inboundCapacity bulkheads
    Host,         \* Host[s] is the worker that has slot s
    Nobody,       \* no worker
    Departed,     \* a worker process that is gone: each has an id of its own
    MaxEvents,    \* bound: messages that ever arrive
    MaxAttempts,  \* MAX_ATTEMPTS
    MaxFaults,    \* bound: number of injected faults
    Faults        \* the kinds of fault that may strike

AllFaults == {"crash", "shutdown", "db", "poll", "expire", "lag", "slow", "rebind"}

ASSUME ChannelAssumption ==
    /\ Nobody # Departed
    /\ Nobody \notin Workers
    /\ Departed \notin Workers
    /\ Host \in [Slots -> Workers]
    /\ MaxEvents \in Nat
    /\ MaxAttempts \in Nat \ {0}
    /\ MaxFaults \in Nat
    /\ Faults \subseteq AllFaults

VARIABLES
    binding,   \* the row of channel_bindings
    arrived,   \* how many messages WeChat has for us
    message,   \* inbound rows of channel_messages
    trace,     \* rows of qa_traces, by message and attempt
    sent,      \* the different answers sent under a message's stable keys
    proc,      \* whether a worker process is up, leaving or down
    poller,    \* pollBinding of each worker
    todo,      \* messages a worker holds a queued processStoredInbound for
    task,      \* processStoredInbound under way
    overrun,   \* messages whose lease has run out under an attempt (history)
    moved,     \* the lease was taken from a live worker (history)
    faults     \* faults injected so far

vars == <<binding, arrived, message, trace, sent, proc, poller, todo, task,
          overrun, moved, faults>>

inbox    == <<message, trace, sent>>
attempts == <<todo, task>>
history  == <<overrun, moved>>

Events   == 1 .. MaxEvents
Attempts == 1 .. MaxAttempts

TaskPc == {"idle", "noToken", "redeliver", "recomplete", "closeTrace", "startTrace",
           "context", "link", "model", "persist", "store", "deliver", "complete",
           "event", "failTrace", "retry"}

NoTask  == [pc |-> "idle", event |-> 0, attempt |-> 0, answer |-> 0, trace |-> 0]
NoPoll  == [pc |-> "off", aborted |-> FALSE, from |-> 0, got |-> 0]
NoRow   == [status |-> "none", attempts |-> 0, lease |-> "none", token |-> FALSE,
            answer |-> 0, trace |-> 0]

BindingType == [status : {"active", "pending", "expired", "disabled"},
                owner : Workers \cup {Nobody, Departed}, lease : {"none", "live", "over"},
                cursor : 0 .. MaxEvents, bound : BOOLEAN]
MessageType == [status : {"none", "received", "processing", "completed", "failed"},
                attempts : 0 .. MaxAttempts, lease : {"none", "live", "over"},
                token : BOOLEAN, answer : 0 .. MaxAttempts, trace : 0 .. MaxAttempts]
TraceStatus == {"none", "running", "completed", "failed"}
TaskType    == [pc : TaskPc, event : 0 .. MaxEvents, attempt : 0 .. MaxAttempts,
                answer : 0 .. MaxAttempts, trace : 0 .. MaxAttempts]
PollType    == [pc : {"off", "check", "poll", "store", "cursor", "report"},
                aborted : BOOLEAN, from : 0 .. MaxEvents, got : 0 .. MaxEvents]

\* Every variable has its type; in particular nothing is attempted more than
\* MAX_ATTEMPTS times, redeliveries and recoveries included.
TypeOK ==
    /\ binding \in BindingType
    /\ arrived \in 0 .. MaxEvents
    /\ message \in [Events -> MessageType]
    /\ trace \in [Events -> [Attempts -> TraceStatus]]
    /\ sent \in [Events -> SUBSET Attempts]
    /\ proc \in [Workers -> {"up", "leaving", "down"}]
    /\ poller \in [Workers -> PollType]
    /\ todo \in [Workers -> SUBSET Events]
    /\ task \in [Slots -> TaskType]
    /\ overrun \in SUBSET Events
    /\ moved \in BOOLEAN
    /\ faults \in 0 .. MaxFaults

\* A bound account, read up to the start, and workers that have just started.
Init ==
    /\ binding = [status |-> "active", owner |-> Nobody, lease |-> "none",
                  cursor |-> 0, bound |-> TRUE]
    /\ arrived = 0
    /\ message = [e \in Events |-> NoRow]
    /\ trace = [e \in Events |-> [n \in Attempts |-> "none"]]
    /\ sent = [e \in Events |-> {}]
    /\ proc = [w \in Workers |-> "up"]
    /\ poller = [w \in Workers |-> NoPoll]
    /\ todo = [w \in Workers |-> {}]
    /\ task = [s \in Slots |-> NoTask]
    /\ overrun = {}
    /\ moved = FALSE
    /\ faults = 0

-----------------------------------------------------------------------------
(* Shared vocabulary *)

Strike(kind) == /\ kind \in Faults
                /\ faults < MaxFaults
                /\ faults' = faults + 1

Busy(s)      == task[s].pc # "idle"
SlotsOf(w)   == {s \in Slots : Host[s] = w}
AtWork(e)    == \E s \in Slots : Busy(s) /\ task[s].event = e
Traced(e, n) == \E s \in Slots : Busy(s) /\ task[s].event = e /\ task[s].attempt = n
                                 /\ task[s].pc # "startTrace"

\* Mutant of Claimable: attempts are not limited.
ClaimableForever(e) ==
    \/ message[e].status = "received"
    \/ message[e].status = "processing" /\ message[e].lease = "over"
    \/ message[e].status = "failed" /\ message[e].attempts = 0

\* Mutant of Claimable: a message under way is claimed although its lease runs.
ClaimableWhileLeased(e) ==
    /\ message[e].attempts < MaxAttempts
    /\ message[e].status \in {"received", "processing"}

\* the condition under which recoverBinding selects, and processStoredInbound
\* claims, a message
Claimable(e) ==
    /\ message[e].attempts < MaxAttempts
    /\ \/ message[e].status = "received"
       \/ message[e].status = "processing" /\ message[e].lease = "over"
       \/ message[e].status = "failed" /\ message[e].attempts = 0

-----------------------------------------------------------------------------
(* The lease of the binding and the pollers *)

\* A message is sent to the account.
Arrive ==
    /\ arrived < MaxEvents
    /\ arrived' = arrived + 1
    /\ UNCHANGED <<binding, inbox, proc, poller, attempts, faults, history>>

\* Mutant of ForTheTaking: the lease of another worker is not respected.
ForTheTakingAnyway(w) == binding.status = "active" /\ binding.bound

ForTheTaking(w) == /\ binding.status = "active"
                   /\ binding.bound
                   /\ binding.owner = w \/ binding.lease \in {"none", "over"}

\* syncWechatChannels, every 15 seconds: claim or renew, start the poller and
\* recoverBinding, whose select is taken as part of it (the claim of each message
\* checks the condition again); or stop a poller whose binding was not claimed.
Sync(w) ==
    /\ proc[w] = "up"
    /\ \/ /\ ForTheTaking(w)
          /\ binding' = [binding EXCEPT !.owner = w, !.lease = "live"]
          /\ poller' = IF poller[w].pc = "off"
                       THEN [poller EXCEPT ![w] = [NoPoll EXCEPT !.pc = "check"]]
                       ELSE poller
          /\ todo' = [todo EXCEPT ![w] = @ \cup {e \in Events : Claimable(e)}]
       \/ /\ ~ForTheTaking(w)
          /\ poller[w].pc # "off"
          /\ poller' = [poller EXCEPT ![w] = IF @.pc \in {"check", "poll"}
                                             THEN NoPoll ELSE [@ EXCEPT !.aborted = TRUE]]
          /\ UNCHANGED <<binding, todo>>
    /\ UNCHANGED <<arrived, inbox, proc, task, faults, history>>

\* The top of pollBinding's loop: go on while the binding is ours.
PollCheck(w) ==
    /\ poller[w].pc = "check"
    /\ poller' = [poller EXCEPT ![w] =
         IF /\ ~poller[w].aborted
            /\ binding.status = "active"
            /\ binding.bound
            /\ binding.owner = w
            /\ binding.lease = "live"
         THEN [@ EXCEPT !.pc = "poll", !.from = binding.cursor, !.got = binding.cursor]
         ELSE NoPoll]
    /\ UNCHANGED <<binding, arrived, inbox, proc, attempts, faults, history>>

\* Mutant of PollReturns: the cursor is saved before the messages are stored.
PollReturnsSaving(w) ==
    /\ poller[w].pc = "poll"
    /\ poller[w].from < arrived
    /\ binding' = [binding EXCEPT !.cursor = arrived]
    /\ poller' = [poller EXCEPT ![w] = [@ EXCEPT !.pc = "store", !.got = arrived]]
    /\ UNCHANGED <<arrived, inbox, proc, attempts, faults, history>>

\* The long poll returns what there is after the cursor.
PollReturns(w) ==
    /\ poller[w].pc = "poll"
    /\ poller[w].from < arrived
    /\ poller' = [poller EXCEPT ![w] = [@ EXCEPT !.pc = "store", !.got = arrived]]
    /\ UNCHANGED <<binding, arrived, inbox, proc, attempts, faults, history>>

\* It times out empty-handed.
PollEmpty(w) ==
    /\ poller[w].pc = "poll"
    /\ poller[w].from >= arrived
    /\ poller' = [poller EXCEPT ![w].pc = "check"]
    /\ UNCHANGED <<binding, arrived, inbox, proc, attempts, faults, history>>

\* Mutant of StoreEvent: on conflict, the message is received again.
StoreEventAgain(w) ==
    /\ poller[w].pc = "store"
    /\ LET e == poller[w].from + 1 IN
       /\ poller' = [poller EXCEPT ![w] =
            [@ EXCEPT !.from = e, !.pc = IF e = poller[w].got THEN "cursor" ELSE "store"]]
       /\ message' = [message EXCEPT ![e] = [@ EXCEPT !.status = "received", !.token = TRUE]]
       /\ todo' = [todo EXCEPT ![w] = @ \cup {e}]
    /\ UNCHANGED <<binding, arrived, trace, sent, proc, task, faults, history>>

\* processInbound of the next message: insert on conflict do nothing, and
\* queue its processing when the row is new.
StoreEvent(w) ==
    /\ poller[w].pc = "store"
    /\ LET e == poller[w].from + 1 IN
       /\ poller' = [poller EXCEPT ![w] =
            [@ EXCEPT !.from = e, !.pc = IF e = poller[w].got THEN "cursor" ELSE "store"]]
       /\ IF message[e].status = "none"
          THEN /\ message' = [message EXCEPT ![e] = [@ EXCEPT !.status = "received", !.token = TRUE]]
               /\ todo' = [todo EXCEPT ![w] = @ \cup {e}]
          ELSE UNCHANGED <<message, todo>>
    /\ UNCHANGED <<binding, arrived, trace, sent, proc, task, faults, history>>

\* The cursor is written where the binding is active and leased by this worker.
SaveCursor(w) ==
    /\ poller[w].pc = "cursor"
    /\ binding' = IF binding.status = "active" /\ binding.owner = w
                  THEN [binding EXCEPT !.cursor = poller[w].got] ELSE binding
    /\ poller' = [poller EXCEPT ![w].pc = "check"]
    /\ UNCHANGED <<arrived, inbox, proc, attempts, faults, history>>

\* The poll, or a statement after it, throws.
PollFails(w) ==
    /\ poller[w].pc \in {"poll", "store", "cursor"}
    /\ Strike("poll")
    /\ poller' = [poller EXCEPT ![w] = IF @.aborted THEN NoPoll ELSE [@ EXCEPT !.pc = "report"]]
    /\ UNCHANGED <<binding, arrived, inbox, proc, attempts, history>>

\* lastError is written and the poller backs off ..
BackOff(w) ==
    /\ poller[w].pc = "report"
    /\ poller' = [poller EXCEPT ![w].pc = "check"]
    /\ UNCHANGED <<binding, arrived, inbox, proc, attempts, faults, history>>

\* .. or the fifth failure says that the login is void: the binding expires,
\* where the lease is ours.
Expire(w) ==
    /\ poller[w].pc = "report"
    /\ "expire" \in Faults
    /\ binding' = IF binding.owner = w
                  THEN [binding EXCEPT !.status = "expired", !.owner = Nobody, !.lease = "none"]
                  ELSE binding
    /\ poller' = [poller EXCEPT ![w] = NoPoll]
    /\ UNCHANGED <<arrived, inbox, proc, attempts, faults, history>>

\* Nobody has renewed the binding for its 120 seconds: its worker is gone, or
\* ("lag") has not come to its sync for that long.
BindingLeaseOver ==
    /\ binding.lease = "live"
    /\ IF binding.owner = Departed THEN UNCHANGED faults ELSE Strike("lag")
    /\ binding' = [binding EXCEPT !.lease = "over"]
    /\ moved' = (moved \/ binding.owner # Departed)
    /\ UNCHANGED <<arrived, inbox, proc, poller, attempts, overrun>>

-----------------------------------------------------------------------------
(* An attempt at a message: processStoredInbound *)

\* what a task does to its slot, and nothing else
Goto(s, pc) == task' = [task EXCEPT ![s].pc = pc]
Leave(s)    == task' = [task EXCEPT ![s] = NoTask]

\* "where id = $1": the row of the message of s gets these fields
Row(s) == message[task[s].event]
SetRow(s, row) == message' = [message EXCEPT ![task[s].event] = row]
SetTrace(s, status) == trace' = [trace EXCEPT ![task[s].event][task[s].attempt] = status]

outside == <<binding, arrived, proc, poller, todo, history, faults>>

\* Mutant of Claim: an answer that is kept is generated again.
ClaimForgetful(w, s, e) ==
    /\ proc[w] # "down"
    /\ Host[s] = w
    /\ ~Busy(s)
    /\ e \in todo[w]
    /\ Claimable(e)
    /\ todo' = [todo EXCEPT ![w] = @ \ {e}]
    /\ message' = [message EXCEPT ![e] = [@ EXCEPT !.status = "processing",
                                           !.attempts = message[e].attempts + 1, !.lease = "live"]]
    /\ task' = [task EXCEPT ![s] = [NoTask EXCEPT !.pc = "startTrace", !.event = e,
                                                  !.attempt = message[e].attempts + 1]]
    /\ UNCHANGED <<binding, arrived, trace, sent, proc, poller, faults, history>>

\* inboundCapacity lets the queued operation in and the message is claimed.
\* What comes next depends on the metadata the claim returns.
Claim(w, s, e) ==
    /\ proc[w] # "down"
    /\ Host[s] = w
    /\ ~Busy(s)
    /\ e \in todo[w]
    /\ Claimable(e)
    /\ todo' = [todo EXCEPT ![w] = @ \ {e}]
    /\ message' = [message EXCEPT ![e] = [@ EXCEPT !.status = "processing",
                                           !.attempts = message[e].attempts + 1, !.lease = "live"]]
    /\ task' = [task EXCEPT ![s] =
         [pc |-> IF ~message[e].token THEN "noToken"
                 ELSE IF message[e].answer # 0 THEN "redeliver"
                 ELSE IF message[e].trace # 0 THEN "closeTrace"
                 ELSE "startTrace",
          event |-> e, attempt |-> message[e].attempts + 1,
          answer |-> IF message[e].token THEN message[e].answer ELSE 0,
          trace |-> message[e].trace]]
    /\ UNCHANGED <<binding, arrived, trace, sent, proc, poller, faults, history>>

\* Somebody else has the message, or it is done.
ClaimRefused(w, e) ==
    /\ proc[w] # "down"
    /\ e \in todo[w]
    /\ ~Claimable(e)
    /\ \E s \in SlotsOf(w) : ~Busy(s)
    /\ todo' = [todo EXCEPT ![w] = @ \ {e}]
    /\ UNCHANGED <<binding, arrived, inbox, proc, poller, task, faults, history>>

\* The bulkhead's queue is full: the operation is dropped and the message waits
\* for the next sync. A rejected recovery drops the rest of its list as well.
CapacityFull(w, e) ==
    /\ e \in todo[w]
    /\ \A s \in SlotsOf(w) : Busy(s)
    /\ \E rest \in SUBSET todo[w] : /\ e \in rest
                                    /\ todo' = [todo EXCEPT ![w] = @ \ rest]
    /\ UNCHANGED <<binding, arrived, inbox, proc, poller, task, faults, history>>

\* The context token is gone: markInboundFailed.
NoToken(s) ==
    /\ task[s].pc = "noToken"
    /\ SetRow(s, [Row(s) EXCEPT !.status = "failed", !.lease = "none"])
    /\ Leave(s)
    /\ UNCHANGED <<outside, trace, sent>>

\* Mutant of CloseTrace: whether the trace is still running is not asked.
CloseTraceAnyway(s) ==
    /\ task[s].pc = "closeTrace"
    /\ trace' = [trace EXCEPT ![task[s].event][task[s].trace] = "failed"]
    /\ Goto(s, "startTrace")
    /\ UNCHANGED <<outside, message, sent>>

\* The trace of the attempt before is closed, where it is still running.
CloseTrace(s) ==
    /\ task[s].pc = "closeTrace"
    /\ LET e == task[s].event
           n == task[s].trace
       IN trace' = IF trace[e][n] = "running"
                   THEN [trace EXCEPT ![e][n] = "failed"] ELSE trace
    /\ Goto(s, "startTrace")
    /\ UNCHANGED <<outside, message, sent>>

\* No active user or no workspace is bound to the channel: markInboundFailed.
Unbound(s) ==
    /\ task[s].pc = "startTrace"
    /\ "rebind" \in Faults
    /\ SetRow(s, [Row(s) EXCEPT !.status = "failed", !.lease = "none"])
    /\ Leave(s)
    /\ UNCHANGED <<outside, trace, sent>>

\* prepareQa: a trace is started ..
StartTrace(s) ==
    /\ task[s].pc = "startTrace"
    /\ SetTrace(s, "running")
    /\ Goto(s, "context")
    /\ UNCHANGED <<outside, message, sent>>

\* .. knowledge is retrieved and the question stored; if that fails, the trace
\* is failed by prepareQa itself.
Context(s) ==
    /\ task[s].pc = "context"
    /\ \/ Goto(s, "link") /\ UNCHANGED trace
       \/ SetTrace(s, "failed") /\ Goto(s, "retry")
    /\ UNCHANGED <<outside, message, sent>>

\* The message gets the id of its trace.
Link(s) ==
    /\ task[s].pc = "link"
    /\ SetRow(s, [Row(s) EXCEPT !.trace = task[s].attempt])
    /\ Goto(s, "model")
    /\ UNCHANGED <<outside, trace, sent>>

\* The model answers within 55 seconds, or not.
Model(s) ==
    /\ task[s].pc = "model"
    /\ Goto(s, "persist") \/ Goto(s, "failTrace")
    /\ UNCHANGED <<outside, inbox>>

\* persistQaAnswer: the answer and the end of the trace, in one transaction.
Persist(s) ==
    /\ task[s].pc = "persist"
    /\ SetTrace(s, "completed")
    /\ Goto(s, "store")
    /\ UNCHANGED <<outside, message, sent>>

\* The answer is kept in the message's metadata, for a redelivery.
Store(s) ==
    /\ task[s].pc = "store"
    /\ SetRow(s, [Row(s) EXCEPT !.answer = task[s].attempt])
    /\ task' = [task EXCEPT ![s] = [@ EXCEPT !.pc = "deliver", !.answer = task[s].attempt]]
    /\ UNCHANGED <<outside, trace, sent>>

\* Mutant of Deliver: a delivery that fails is taken for one that succeeds.
DeliverUnchecked(s) ==
    /\ task[s].pc \in {"deliver", "redeliver"}
    /\ Goto(s, IF task[s].pc = "deliver" THEN "complete" ELSE "recomplete")
    /\ \/ sent' = [sent EXCEPT ![task[s].event] = @ \cup {task[s].answer}]
       \/ UNCHANGED sent
    /\ UNCHANGED <<outside, message, trace>>

\* deliverReply sends the answer under the message's stable keys; it may fail
\* before the user has got anything, or after.
Deliver(s) ==
    /\ task[s].pc \in {"deliver", "redeliver"}
    /\ LET fresh == task[s].pc = "deliver"
           sends == sent' = [sent EXCEPT ![task[s].event] = @ \cup {task[s].answer}]
       IN \/ sends /\ Goto(s, IF fresh THEN "complete" ELSE "recomplete")
          \/ (sends \/ UNCHANGED sent) /\ Goto(s, IF fresh THEN "failTrace" ELSE "retry")
    /\ UNCHANGED <<outside, message, trace>>

\* markInboundCompleted drops the answer and the context token.
Complete(s) ==
    /\ task[s].pc \in {"complete", "recomplete"}
    /\ SetRow(s, [Row(s) EXCEPT !.status = "completed", !.lease = "none",
                                !.token = FALSE, !.answer = 0])
    /\ IF task[s].pc = "complete" THEN Goto(s, "event") ELSE Leave(s)
    /\ UNCHANGED <<outside, trace, sent>>

\* The last event of the trace is written.
LastEvent(s) ==
    /\ task[s].pc = "event"
    /\ Leave(s)
    /\ UNCHANGED <<outside, inbox>>

\* A statement of the attempt throws into the catch block; a redelivery has a
\* catch block of its own, without a trace, and what precedes prepareQa has none.
Throws(s) ==
    /\ task[s].pc \in {"closeTrace", "startTrace", "context", "link", "model", "persist",
                       "store", "complete", "recomplete", "event"}
    /\ Strike("db")
    /\ CASE task[s].pc = "closeTrace" -> Leave(s)
         [] task[s].pc = "startTrace" -> Leave(s) \/ Goto(s, "retry")
         [] task[s].pc \in {"context", "recomplete"} -> Goto(s, "retry")
         [] OTHER -> Goto(s, "failTrace")
    /\ UNCHANGED <<binding, arrived, inbox, proc, poller, todo, history>>

\* failTrace writes by id, whatever the trace's status.
FailTrace(s) ==
    /\ task[s].pc = "failTrace"
    /\ SetTrace(s, "failed")
    /\ Goto(s, "retry")
    /\ UNCHANGED <<outside, message, sent>>

\* Mutant of RetryOrFail: the message stays 'processing', without a lease.
RetryForgotten(s) ==
    /\ task[s].pc = "retry"
    /\ SetRow(s, [Row(s) EXCEPT !.lease = "none"])
    /\ Leave(s)
    /\ UNCHANGED <<outside, trace, sent>>

\* retryOrFailInbound writes by id, whatever the message's status.
RetryOrFail(s) ==
    /\ task[s].pc = "retry"
    /\ SetRow(s, [Row(s) EXCEPT !.lease = "none",
                  !.status = IF task[s].attempt < MaxAttempts THEN "received" ELSE "failed"])
    /\ Leave(s)
    /\ UNCHANGED <<outside, trace, sent>>

\* The catch block throws as well: the attempt ends where it is.
CatchThrows(s) ==
    /\ task[s].pc \in {"failTrace", "retry", "noToken"}
    /\ Strike("db")
    /\ Leave(s)
    /\ UNCHANGED <<binding, arrived, inbox, proc, poller, todo, history>>

\* 180 seconds after the claim: the attempt is gone, or ("slow") takes longer.
MessageLeaseOver(e) ==
    /\ message[e].status = "processing"
    /\ message[e].lease = "live"
    /\ AtWork(e) => Strike("slow")
    /\ ~AtWork(e) => UNCHANGED faults
    /\ message' = [message EXCEPT ![e].lease = "over"]
    /\ overrun' = IF AtWork(e) THEN overrun \cup {e} ELSE overrun
    /\ UNCHANGED <<binding, arrived, trace, sent, proc, poller, attempts, moved>>

-----------------------------------------------------------------------------
(* Worker processes *)

\* stopWechatChannels: pollers are aborted, leases given back; what is under way goes on.
Shutdown(w) ==
    /\ proc[w] = "up"
    /\ Strike("shutdown")
    /\ proc' = [proc EXCEPT ![w] = "leaving"]
    /\ poller' = [poller EXCEPT ![w] = IF @.pc \in {"off", "check", "poll"}
                                       THEN NoPoll ELSE [@ EXCEPT !.aborted = TRUE]]
    /\ binding' = IF binding.owner = w
                  THEN [binding EXCEPT !.owner = Nobody, !.lease = "none"] ELSE binding
    /\ UNCHANGED <<arrived, inbox, attempts, history>>

\* The process ends, after a shutdown or by a crash.
Exit(w) ==
    /\ \/ proc[w] = "leaving" /\ UNCHANGED faults
       \/ proc[w] = "up" /\ Strike("crash")
    /\ proc' = [proc EXCEPT ![w] = "down"]
    /\ poller' = [poller EXCEPT ![w] = NoPoll]
    /\ todo' = [todo EXCEPT ![w] = {}]
    /\ task' = [s \in Slots |-> IF Host[s] = w THEN NoTask ELSE task[s]]
    /\ binding' = IF binding.owner = w THEN [binding EXCEPT !.owner = Departed] ELSE binding
    /\ UNCHANGED <<arrived, inbox, history>>

\* startWechatChannels closes running traces that nothing has touched for two
\* minutes: those nobody works on, if the start comes late enough for them.
Boot(w) ==
    /\ proc[w] = "down"
    /\ proc' = [proc EXCEPT ![w] = "up"]
    /\ \E old \in SUBSET {p \in Events \X Attempts : "slow" \in Faults \/ ~Traced(p[1], p[2])} :
          trace' = [e \in Events |-> [n \in Attempts |->
                     IF <<e, n>> \in old /\ trace[e][n] = "running"
                     THEN "failed" ELSE trace[e][n]]]
    /\ UNCHANGED <<binding, arrived, message, sent, poller, attempts, faults, history>>

-----------------------------------------------------------------------------
(* An administrator at the binding: modules/channels/routes.ts *)

\* A QR code is asked for: the binding is pending until it is scanned.
QrCode ==
    /\ Strike("rebind")
    /\ binding' = [binding EXCEPT !.status = "pending"]
    /\ UNCHANGED <<arrived, inbox, proc, poller, attempts, history>>

\* It is scanned: new credentials, the cursor starts again, the lease stays.
Confirmed ==
    /\ binding.status = "pending"
    /\ binding' = [binding EXCEPT !.status = "active", !.cursor = 0, !.bound = TRUE]
    /\ UNCHANGED <<arrived, inbox, proc, poller, attempts, faults, history>>

\* The account was bound already: active again, and anybody may take the lease.
Redirected ==
    /\ binding.status = "pending"
    /\ binding.bound
    /\ binding' = [binding EXCEPT !.status = "active", !.owner = Nobody, !.lease = "none"]
    /\ moved' = TRUE
    /\ UNCHANGED <<arrived, inbox, proc, poller, attempts, faults, overrun>>

\* The binding is disconnected: no credentials, no lease, no cursor.
Disconnect ==
    /\ Strike("rebind")
    /\ binding' = [binding EXCEPT !.status = "disabled", !.owner = Nobody, !.lease = "none",
                                  !.bound = FALSE, !.cursor = 0]
    /\ moved' = TRUE
    /\ UNCHANGED <<arrived, inbox, proc, poller, attempts, overrun>>

-----------------------------------------------------------------------------
Poll(w) == PollCheck(w) \/ PollReturns(w) \/ PollEmpty(w) \/ StoreEvent(w)
           \/ SaveCursor(w) \/ BackOff(w)

Attempt(s) == \/ NoToken(s) \/ CloseTrace(s) \/ StartTrace(s) \/ Context(s) \/ Link(s)
              \/ Model(s) \/ Persist(s) \/ Store(s) \/ Deliver(s) \/ Complete(s)
              \/ LastEvent(s) \/ FailTrace(s) \/ RetryOrFail(s)

Mishap == \/ \E w \in Workers : PollFails(w) \/ Expire(w) \/ Shutdown(w)
          \/ \E s \in Slots : Throws(s) \/ CatchThrows(s) \/ Unbound(s)

Admin == QrCode \/ Confirmed \/ Redirected \/ Disconnect

Next ==
    \/ Arrive
    \/ BindingLeaseOver
    \/ \E w \in Workers : Sync(w) \/ Poll(w) \/ Exit(w) \/ Boot(w)
    \/ \E w \in Workers, e \in Events : \/ ClaimRefused(w, e) \/ CapacityFull(w, e)
                                        \/ \E s \in Slots : Claim(w, s, e)
    \/ \E s \in Slots : Attempt(s)
    \/ \E e \in Events : MessageLeaseOver(e)
    \/ Mishap
    \/ Admin

Spec == Init /\ [][Next]_vars

\* What a live process does in the end: its timers fire, its awaits settle. Leases
\* run out once nobody renews them, and a supervisor restarts a dead worker.
Fairness ==
    /\ WF_vars(BindingLeaseOver /\ UNCHANGED faults)
    /\ \A w \in Workers : /\ WF_vars(Sync(w))
                          /\ WF_vars(Poll(w))
                          /\ WF_vars(proc[w] = "leaving" /\ Exit(w))
                          /\ WF_vars(Boot(w))
    /\ \A w \in Workers, e \in Events :
          WF_vars(ClaimRefused(w, e) \/ \E s \in Slots : Claim(w, s, e))
    /\ \A s \in Slots : WF_vars(Attempt(s))
    /\ \A e \in Events : WF_vars(MessageLeaseOver(e) /\ UNCHANGED faults)

LiveSpec == Spec /\ Fairness

-----------------------------------------------------------------------------
(* Properties *)

\* No message is lost between WeChat and the database: what the cursor has
\* passed has a row, although pollers die, overlap, and lose their lease
\* (pollBinding stores before it saves the cursor).
EventStored == \A e \in 1 .. binding.cursor : message[e].status # "none"

\* One worker at a time polls the binding, unless its owner falls 120 seconds
\* behind or an administrator gives its lease away (syncWechatChannels).
OnePoller ==
    ~moved =>
        \A v, w \in Workers : poller[v].pc = "poll" /\ poller[w].pc = "poll" => v = w

\* No two attempts at one message are under way together, in one process or in
\* two, unless one is slower than the message's lease (processStoredInbound).
OneAttempt ==
    \A s, t \in Slots :
        Busy(s) /\ Busy(t) /\ task[s].event = task[t].event /\ task[s].event \notin overrun
            => s = t

\* A message that is recorded as completed has reached the user; and one whose
\* answer may still have to be redelivered has kept its context token, unless two
\* attempts have overlapped.
CompletedWasSent ==
    \A e \in Events :
        /\ message[e].status = "completed" => sent[e] # {}
        /\ message[e].answer # 0 => message[e].token \/ e \in overrun

\* The channel implements the Inbox: whatever is retried, recovered or
\* redelivered, the user gets one answer, because it is kept before it is sent;
\* only a message whose lease has run out under an attempt may get another.
Promised == INSTANCE Inbox WITH Answers <- Attempts, replies <- sent, disputed <- overrun,
                                known <- {e \in Events : message[e].status # "none"}
AnswersOnce == Promised!Spec

\* A trace that has been completed is only failed by the catch block of its own
\* attempt, never by a recovery or by a worker that starts.
TraceVerdict ==
    [][\A e \in Events, n \in Attempts :
         trace[e][n] = "completed" /\ trace'[e][n] # "completed" =>
            \E s \in Slots : task[s].pc = "failTrace" /\ task[s].event = e
                            /\ task[s].attempt = n]_vars

\* A completed message is only opened again by the attempt that completed it,
\* after the last event of its trace could not be written, or by one whose
\* lease has run out: retryOrFailInbound names the message by its id alone.
CompletedStays ==
    [][\A e \in Events :
         message[e].status = "completed" /\ message'[e].status # "completed" =>
            \/ e \in overrun
            \/ \E s \in Slots : /\ task[s].pc = "retry" /\ task[s].event = e
                               /\ task[s].attempt = message[e].attempts
                               /\ trace[e][task[s].attempt] = "failed"]_vars

\* the last attempt has died, or an earlier one has put its 'received' over it:
\* neither query takes such a message
Stranded(e) == /\ message[e].status \in {"processing", "received"}
               /\ message[e].attempts = MaxAttempts
               /\ ~AtWork(e)

\* Every message that arrives is taken in and comes to an end, completed or
\* failed, through crashes, shutdowns and moves of the lease, while the binding is
\* active, except that it may be stranded in its last attempt.
EveryEventEnds ==
    \A e \in Events : (arrived >= e) ~> \/ message[e].status \in {"completed", "failed"}
                                        \/ Stranded(e)
                                        \/ binding.status # "active"
=============================================================================

----------------------------- MODULE BullQueue -----------------------------
(***************************************************************************)
(* What the application relies on of BullMQ, an external library: one      *)
(* ticket per job id.  Adding an id that Redis still knows in any state    *)
(* is a no-op, a worker holds a ticket under a renewed lock, a thrown      *)
(* error costs an attempt, a lock that ran out costs a stall, and finished *)
(* tickets are retained (removeOnComplete, removeOnFail).  Time spent in   *)
(* a backoff delay is part of the state "wait".                            *)
(***************************************************************************)
EXTENDS Naturals

CONSTANTS
    Nobody,       \* the holder of a ticket no live worker has locked
    MaxAttempts,  \* defaultJobOptions.attempts of the queue
    MaxStalled    \* maxStalledCount of the worker

ASSUME BullAssumption ==
    /\ MaxAttempts \in Nat \ {0}
    /\ MaxStalled \in Nat

TicketStates == {"absent", "wait", "active", "completed", "failed"}

TicketType(workers) ==
    [state  : TicketStates,
     made   : 0 .. MaxAttempts,      \* job.attemptsMade
     stalls : 0 .. MaxStalled + 1,   \* job.stalledCounter
     by     : workers \cup {Nobody}]

NoTicket == [state |-> "absent", made |-> 0, stalls |-> 0, by |-> Nobody]

HeldBy(t, w) == t.state = "active" /\ t.by = w

\* queue.add(name, data, {jobId}): ignored while the id is retained
Added(t) == IF t.state = "absent" THEN [NoTicket EXCEPT !.state = "wait"] ELSE t

Taken(t, w) == [t EXCEPT !.state = "active", !.by = w]

\* The processor returned; a worker that lost the ticket changes nothing.
Completed(t, w) ==
    IF HeldBy(t, w) THEN [t EXCEPT !.state = "completed", !.by = Nobody] ELSE t

\* Mutant of Thrown: a failing ticket is retried for ever.
ThrownForever(t, w) ==
    IF HeldBy(t, w) THEN [t EXCEPT !.state = "wait", !.made = @ + 1, !.by = Nobody] ELSE t

\* The processor threw: retried after a backoff until attempts run out.
Thrown(t, w) ==
    IF ~HeldBy(t, w) THEN t
    ELSE [t EXCEPT !.state = IF t.made + 1 < MaxAttempts THEN "wait" ELSE "failed",
                   !.made  = IF t.made < MaxAttempts THEN t.made + 1 ELSE t.made,
                   !.by    = Nobody]

\* The process of w died: its lock is no longer renewed.
Abandoned(t, w) == IF HeldBy(t, w) THEN [t EXCEPT !.by = Nobody] ELSE t

LockRunsOut(t) == t.state = "active" /\ t.by = Nobody

\* The stalled checker finds an active ticket without a lock.
Stalled(t) ==
    [t EXCEPT !.state  = IF t.stalls < MaxStalled THEN "wait" ELSE "failed",
              !.stalls = IF t.stalls =< MaxStalled THEN t.stalls + 1 ELSE t.stalls]
=============================================================================

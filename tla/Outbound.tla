------------------------------ MODULE Outbound ------------------------------
(***************************************************************************)
(* resilientFetch (services/outbound.ts): the calls of one scope share a   *)
(* Bulkhead and a CircuitBreaker (utils/resilience.ts).  A call takes a    *)
(* slot, asks the breaker, and fetches up to MaxTries times with a pause   *)
(* between; its signal (the caller's, or its time limit) may fire wherever *)
(* it waits.                                                               *)
(***************************************************************************)
EXTENDS Naturals, FiniteSets, SequencesExt

CONSTANTS
    Callers, Concurrency, MaxQueue,  \* of the bulkhead
    Threshold,                       \* failureThreshold of the breaker
    MaxTries,                        \* policy.maxAttempts
    Aborts,                          \* where signals fire
    MaxAborts                        \* bound: how many do

Waits == {"waiting", "fetching", "pausing", "recovering"}

VARIABLES
    active, waiting, caller, \* guard.bulkhead
    breaker, \* guard.breaker: openedAt is "no" (0), "hot" or, when the cooldown is over, "cooled"
    request, \* where resilientFetch is inside bulkhead.run, and its attempt
    up,      \* the dependency answers
    aborts   \* how many signals have fired

slots == <<active, waiting, caller>>
vars == <<active, waiting, caller, breaker, request, up, aborts>>

B == INSTANCE Bulkhead

ASSUME OutboundAssumption ==
    /\ B!BulkheadAssumption
    /\ Threshold \in Nat \ {0}
    /\ MaxTries \in Nat \ {0}
    /\ Aborts \subseteq Waits
    /\ MaxAborts \in Nat

BreakerType == [failures : 0 .. Threshold, open : {"no", "hot", "cooled"}, probe : BOOLEAN]
RequestType == [at : {"out", "fetching", "pausing", "recovering"}, attempt : 0 .. MaxTries]

TypeOK ==
    /\ B!TypeOK
    /\ breaker \in BreakerType
    /\ request \in [Callers -> RequestType]
    /\ up \in BOOLEAN
    /\ aborts \in 0 .. MaxAborts

Out == [at |-> "out", attempt |-> 0]

Init ==
    /\ B!Init
    /\ breaker = [failures |-> 0, open |-> "no", probe |-> FALSE]
    /\ request = [c \in Callers |-> Out]
    /\ up = TRUE
    /\ aborts = 0

-----------------------------------------------------------------------------
(* Mutants of the definitions below *)

SucceededStillCounting == [breaker EXCEPT !.open = "no", !.probe = FALSE]

SucceededStillOpen == [breaker EXCEPT !.failures = 0, !.probe = FALSE]

RetryUncounted(c) ==
    /\ request[c].at \in {"pausing", "recovering"}
    /\ request' = [request EXCEPT ![c].at = "fetching"]
    /\ UNCHANGED <<slots, breaker, up, aborts>>

AbortFetchUnreported(c) ==
    /\ request[c].at \in Aborts \cap {"fetching", "pausing"}
    /\ aborts < MaxAborts /\ aborts' = aborts + 1
    /\ request' = [request EXCEPT ![c] = Out]
    /\ B!Release(c)
    /\ UNCHANGED <<breaker, up>>

-----------------------------------------------------------------------------
(* CircuitBreaker.  failures is counted up to Threshold: beyond it nothing *)
(* depends on the number.                                                  *)

Closed == [failures |-> 0, open |-> "no", probe |-> FALSE]

\* success()
Succeeded == Closed

\* failure()
Failed ==
    IF breaker.failures + 1 >= Threshold
    THEN [failures |-> Threshold, open |-> "hot", probe |-> FALSE]
    ELSE [failures |-> breaker.failures + 1, open |-> breaker.open, probe |-> FALSE]

\* beforeRequest() throws CircuitOpenError
Refuses == breaker.open = "hot" \/ (breaker.open = "cooled" /\ breaker.probe)

\* beforeRequest() returns
LetThrough == [breaker EXCEPT !.probe = (breaker.open = "cooled")]

-----------------------------------------------------------------------------
\* bulkhead.run: the call gets a slot, or a place in the queue
Start(c) == (B!Admit(c) \/ B!Enqueue(c)) /\ UNCHANGED <<breaker, request, up, aborts>>

\* A signal fires, one of at most MaxAborts.
Fires(place) == place \in Aborts /\ aborts < MaxAborts /\ aborts' = aborts + 1

AbortWaiting(c) ==
    /\ Fires("waiting")
    /\ B!Abort(c)
    /\ UNCHANGED <<breaker, request, up>>

HasSlot(c) == caller[c] = "running" /\ request[c].at = "out"

Refused(c) ==
    /\ HasSlot(c) /\ Refuses
    /\ B!Release(c)
    /\ UNCHANGED <<breaker, request, up, aborts>>

Passed(c) ==
    /\ HasSlot(c) /\ ~Refuses
    /\ breaker' = LetThrough
    /\ request' = [request EXCEPT ![c] = [at |-> "fetching", attempt |-> 1]]
    /\ UNCHANGED <<slots, up, aborts>>

\* The call ends with this verdict for the breaker, and its slot is released.
Ends(c, verdict) ==
    /\ breaker' = verdict
    /\ request' = [request EXCEPT ![c] = Out]
    /\ B!Release(c)
    /\ UNCHANGED up

Answered(c) ==
    /\ request[c].at = "fetching" /\ up
    /\ Ends(c, Succeeded)
    /\ UNCHANGED aborts

\* The last attempt fails, or one fails with an error that is not retried.
GivesUp(c) ==
    /\ request[c].at = "fetching" /\ ~up
    /\ Ends(c, Failed)
    /\ UNCHANGED aborts

\* A 429 or 5xx answer: a pause inside the try block
TransientAnswer(c) ==
    /\ request[c].at = "fetching" /\ request[c].attempt < MaxTries /\ ~up
    /\ request' = [request EXCEPT ![c] = [at |-> "pausing", attempt |-> @.attempt]]
    /\ UNCHANGED <<slots, breaker, up, aborts>>

\* A lost connection: a pause inside the catch block
NetworkError(c) ==
    /\ request[c].at = "fetching" /\ request[c].attempt < MaxTries /\ ~up
    /\ request' = [request EXCEPT ![c] = [at |-> "recovering", attempt |-> @.attempt]]
    /\ UNCHANGED <<slots, breaker, up, aborts>>

Retry(c) ==
    /\ request[c].at \in {"pausing", "recovering"}
    /\ request' = [request EXCEPT ![c] = [at |-> "fetching", attempt |-> @.attempt + 1]]
    /\ UNCHANGED <<slots, breaker, up, aborts>>

\* The signal ends the fetch, or the pause in the try block: not retryable.
AbortFetch(c) ==
    /\ request[c].at \in {"fetching", "pausing"} /\ Fires(request[c].at)
    /\ Ends(c, Failed)

\* The signal ends the pause in the catch block: the rejection leaves the
\* function with no word to the breaker.
AbortBackoff(c) ==
    /\ request[c].at = "recovering" /\ Fires("recovering")
    /\ Ends(c, breaker)

\* cooldownMs have passed since openedAt.
Cool ==
    /\ breaker.open = "hot"
    /\ breaker' = [breaker EXCEPT !.open = "cooled"]
    /\ UNCHANGED <<slots, request, up, aborts>>

\* The dependency goes down or comes back.
Toggle == up' = ~up /\ UNCHANGED <<slots, breaker, request, aborts>>

Proceed(c) ==
    \/ Refused(c) \/ Passed(c)
    \/ Answered(c) \/ GivesUp(c)
    \/ TransientAnswer(c) \/ NetworkError(c) \/ Retry(c)

Next ==
    \/ \E c \in Callers :
          Start(c) \/ Proceed(c) \/ AbortWaiting(c) \/ AbortFetch(c) \/ AbortBackoff(c)
    \/ Cool
    \/ Toggle

Spec == Init /\ [][Next]_vars

\* Timers fire; a fetch settles, its time limit at the latest; and callers
\* keep coming, without which nothing would ever probe.
LiveSpec ==
    /\ Spec
    /\ WF_vars(Cool)
    /\ \A c \in Callers : WF_vars(Start(c)) /\ WF_vars(Proceed(c))

-----------------------------------------------------------------------------
(* Properties *)

\* The breaker is open exactly when it has counted Threshold failures, and
\* probes only after a cooldown.
BreakerConsistent ==
    /\ breaker.open # "no" <=> breaker.failures = Threshold
    /\ breaker.probe => breaker.open = "cooled"

InFlight(c) == request[c].at # "out"

\* A probe that is marked as running is a call in flight, which will report.
ProbeInFlight == breaker.probe => \E c \in Callers : InFlight(c)

\* Only a call whose signal fires in the pause of the catch block can leave a
\* probe marked as running with nobody to report.
ProbeLostInBackoff ==
    [][ProbeInFlight /\ ~ProbeInFlight' =>
         \E c \in Callers : request[c].at = "recovering" /\ request'[c].at = "out"]_vars

\* Never more than Concurrency calls of a scope are on their way, those that
\* pause before a retry included.
FlightsBounded == Cardinality({c \in Callers : InFlight(c)}) =< Concurrency

\* Retries are bounded: a call that got a slot gives it back.
EveryCallEnds == \A c \in Callers : caller[c] = "running" ~> caller[c] # "running"

\* Once the dependency is back the breaker probes and closes by itself
\* (docs/11-reliability-runbook.md:39), unless a probe is lost: failures that are
\* reported, however late and in whatever order, never keep the breaker open.
RecoversIfReported == <>[](up /\ ProbeInFlight) => []<>(breaker.open = "no")
=============================================================================

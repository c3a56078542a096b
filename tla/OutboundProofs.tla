--------------------------- MODULE OutboundProofs ---------------------------
(* Theorems about Outbound for any callers, threshold and number of tries. *)
EXTENDS Outbound, FiniteSetTheorems, TLAPS

-----------------------------------------------------------------------------
(* The breaker by itself: the two verdicts and the question before a call. *)

Sound(b) == b \in BreakerType /\ (b.open # "no" <=> b.failures = Threshold)
                              /\ (b.probe => b.open = "cooled")

\* failure() counts up to the threshold, opens the breaker there, and ends the
\* probe.
LEMMA FailedSound == ASSUME Sound(breaker) PROVE Sound(Failed) /\ ~Failed.probe
  <1>1. breaker.failures \in 0 .. Threshold /\ breaker.open \in {"no", "hot", "cooled"}
    BY DEF Sound, BreakerType
  <1>2. CASE breaker.failures + 1 >= Threshold
    <2>1. Failed = [failures |-> Threshold, open |-> "hot", probe |-> FALSE]
      BY <1>2 DEF Failed
    <2> QED BY <2>1, OutboundAssumption DEF Sound, BreakerType
  <1>3. CASE ~(breaker.failures + 1 >= Threshold)
    <2>1. Failed = [failures |-> breaker.failures + 1, open |-> breaker.open, probe |-> FALSE]
      BY <1>3 DEF Failed
    <2>2. breaker.failures + 1 \in 0 .. Threshold /\ breaker.failures + 1 # Threshold
          /\ breaker.failures # Threshold
      BY <1>1, <1>3, OutboundAssumption
    <2> QED BY <1>1, <2>1, <2>2 DEF Sound, BreakerType
  <1> QED BY <1>2, <1>3

\* success() closes it.
LEMMA SucceededSound == Sound(Succeeded) /\ ~Succeeded.probe
  BY OutboundAssumption DEF Succeeded, Closed, Sound, BreakerType

\* beforeRequest() marks a probe only on a breaker that has cooled down.
LEMMA LetThroughSound == ASSUME Sound(breaker) PROVE Sound(LetThrough)
  BY DEF LetThrough, Sound, BreakerType

\* Time passing turns a hot breaker into one that may be probed.
LEMMA CoolSound == ASSUME Sound(breaker), Cool PROVE Sound(breaker')
  <1>1. breaker' = [breaker EXCEPT !.open = "cooled"] /\ breaker.open = "hot"
    BY DEF Cool
  <1> QED BY <1>1 DEF Sound, BreakerType

\* What each step does to the breaker: nothing, or one of the above.
LEMMA BreakerSteps ==
  ASSUME [Next]_vars
  PROVE  \/ UNCHANGED breaker
         \/ breaker' \in {Succeeded, Failed, LetThrough}
         \/ Cool
  <1>1. CASE UNCHANGED vars
    BY <1>1 DEF vars
  <1>2. ASSUME NEW c \in Callers, Start(c) \/ AbortWaiting(c) \/ Refused(c)
               \/ TransientAnswer(c) \/ NetworkError(c) \/ Retry(c) \/ AbortBackoff(c) \/ Toggle
        PROVE  UNCHANGED breaker
    BY <1>2 DEF Start, AbortWaiting, Refused, TransientAnswer, NetworkError, Retry, AbortBackoff,
                Ends, Toggle
  <1>3. ASSUME NEW c \in Callers, Passed(c) \/ Answered(c) \/ GivesUp(c) \/ AbortFetch(c)
        PROVE  breaker' \in {Succeeded, Failed, LetThrough}
    BY <1>3 DEF Passed, Answered, GivesUp, AbortFetch, Ends
  <1>4. CASE Toggle
    BY <1>4 DEF Toggle
  <1> QED BY <1>1, <1>2, <1>3, <1>4 DEF Next, Proceed

\* The breaker is sound in every state.
LEMMA SoundKept == Spec => []Sound(breaker)
  <1>1. Init => Sound(breaker)
    BY OutboundAssumption DEF Init, Sound, BreakerType
  <1>2. Sound(breaker) /\ [Next]_vars => Sound(breaker)'
    <2> SUFFICES ASSUME Sound(breaker), [Next]_vars PROVE Sound(breaker')
      BY DEF Sound
    <2>1. CASE UNCHANGED breaker
      BY <2>1
    <2>2. CASE breaker' \in {Succeeded, Failed, LetThrough}
      BY <2>2, FailedSound, SucceededSound, LetThroughSound
    <2> QED BY <2>1, <2>2, CoolSound, BreakerSteps
  <1> QED BY <1>1, <1>2, PTL DEF Spec

\* The breaker stays consistent through any mix of calls, late verdicts,
\* aborts and outages: open exactly at the threshold, probing only when cooled.
THEOREM BreakerStaysConsistent == Spec => []BreakerConsistent
  <1>1. Sound(breaker) => BreakerConsistent
    BY DEF Sound, BreakerConsistent
  <1> QED BY <1>1, SoundKept, PTL

-----------------------------------------------------------------------------
(* The bulkhead inside.  What is proved of it alone holds here, because a  *)
(* call does nothing to its variables but the bulkhead's own actions.      *)

BP == INSTANCE BulkheadProofs

\* Every step of an outbound call is a step of the bulkhead, or leaves it alone.
LEMMA StepOfBulkhead ==
  ASSUME [Next]_vars
  PROVE  [BP!Next]_slots
  <1>1. CASE UNCHANGED vars
    BY <1>1 DEF vars, slots
  <1>2. ASSUME NEW c \in Callers, Start(c) \/ AbortWaiting(c) \/ B!Release(c)
        PROVE  BP!Next
    <2>1. B!Admit(c) => BP!Admit(c)
      BY DEF B!Admit, BP!Admit
    <2>2. B!Enqueue(c) => BP!Enqueue(c)
      BY DEF B!Enqueue, BP!Enqueue
    <2>3. B!Abort(c) => BP!Abort(c)
      BY DEF B!Abort, BP!Abort, B!RemoveAt, BP!RemoveAt
    <2>4. B!Release(c) => BP!Release(c)
      BY DEF B!Release, BP!Release, B!PassOn, BP!PassOn, B!GiveBack, BP!GiveBack
    <2> QED BY <1>2, <2>1, <2>2, <2>3, <2>4 DEF Start, AbortWaiting, BP!Next
  <1>3. ASSUME NEW c \in Callers, Passed(c) \/ TransientAnswer(c) \/ NetworkError(c) \/ Retry(c)
        PROVE  UNCHANGED slots
    BY <1>3 DEF Passed, TransientAnswer, NetworkError, Retry
  <1>4. CASE Cool \/ Toggle
    BY <1>4 DEF Cool, Toggle
  <1>5. ASSUME NEW c \in Callers,
               Refused(c) \/ Answered(c) \/ GivesUp(c) \/ AbortFetch(c) \/ AbortBackoff(c)
        PROVE  B!Release(c)
    BY <1>5 DEF Refused, Answered, GivesUp, AbortFetch, AbortBackoff, Ends
  <1> QED BY <1>1, <1>2, <1>3, <1>4, <1>5 DEF Next, Proceed

\* So the slots of a scope are a bulkhead.
LEMMA SlotsAreBulkhead == Spec => BP!Spec
  <1>1. Init => BP!Init
    BY DEF Init, B!Init, BP!Init
  <1>2. [Next]_vars => [BP!Next]_(BP!vars)
    BY StepOfBulkhead DEF slots, BP!vars
  <1> QED BY <1>1, <1>2, PTL DEF Spec, BP!Spec

\* Its inductive invariant holds in every state of the composed system.
LEMMA BulkheadKept == Spec => []BP!IInv
  <1>0. BP!BulkheadAssumption
    BY OutboundAssumption DEF B!BulkheadAssumption, BP!BulkheadAssumption,
                              B!IsFiniteSet, BP!IsFiniteSet
  <1>1. BP!Spec => []BP!IInv
    BY <1>0, BP!Inductive
  <1> QED BY SlotsAreBulkhead, <1>1, PTL

\* What a bulkhead promises each scope therefore keeps, whatever its calls meet in
\* the breaker, in their retries and in their pauses: the books of slots and queue
\* balance, nobody waits beside a free slot, slots are given in turn, and the
\* calls that hold one are the holders of a counting semaphore.
THEOREM ScopeKeepsPromises ==
  Spec => [](BP!Bookkeeping /\ BP!NoIdleSlot) /\ BP!NoOvertaking /\ BP!IsSemaphore
  <1>0. BP!BulkheadAssumption
    BY OutboundAssumption DEF B!BulkheadAssumption, BP!BulkheadAssumption,
                              B!IsFiniteSet, BP!IsFiniteSet
  <1>1. BP!Spec => []BP!Bookkeeping
    BY <1>0, BP!BooksBalance
  <1>2. BP!Spec => []BP!NoIdleSlot
    BY <1>0, BP!SlotsUsed
  <1>3. BP!Spec => BP!NoOvertaking
    BY <1>0, BP!FirstComeFirstServed
  <1>4. BP!Spec => BP!IsSemaphore
    BY <1>0, BP!ImplementsSemaphore
  <1> QED BY SlotsAreBulkhead, <1>1, <1>2, <1>3, <1>4, PTL

-----------------------------------------------------------------------------
(* The calls in flight.                                                    *)

Requests ==
    /\ request \in [Callers -> RequestType]
    /\ \A c \in Callers :
          request[c].at \in {"pausing", "recovering"} => request[c].attempt < MaxTries

\* The steps of a call inside bulkhead.run: what each leaves in its record.
Moves(c) ==
    \/ Passed(c) /\ request'[c] = [at |-> "fetching", attempt |-> 1]
    \/ /\ TransientAnswer(c) \/ NetworkError(c) \/ Retry(c)
       /\ InFlight(c) /\ request'[c].at # "out"
       /\ UNCHANGED breaker
    \/ (Answered(c) \/ GivesUp(c) \/ AbortFetch(c) \/ AbortBackoff(c)) /\ request'[c] = Out

\* A step changes the record of one call at most, and keeps its attempts in
\* bounds: a pause is entered only with a try left, and only a pause is left by
\* another try.
LEMMA RequestSteps ==
  ASSUME Requests, [Next]_vars
  PROVE  /\ Requests'
         /\ \/ UNCHANGED request
            \/ \E c \in Callers :
                  /\ Moves(c)
                  /\ \A d \in Callers : d # c => request'[d] = request[d]
  <1> USE DEF Requests
  <1>1. CASE UNCHANGED vars
    BY <1>1 DEF vars
  <1>2. ASSUME NEW c \in Callers, Start(c) \/ AbortWaiting(c) \/ Refused(c) PROVE UNCHANGED request
    BY <1>2 DEF Start, AbortWaiting, Refused
  <1>3. CASE Cool \/ Toggle
    BY <1>3 DEF Cool, Toggle
  <1>4. ASSUME NEW c \in Callers, Passed(c)
        PROVE  Requests' /\ Moves(c) /\ \A d \in Callers : d # c => request'[d] = request[d]
    <2> DEFINE r == [at |-> "fetching", attempt |-> 1]
    <2>1. r \in RequestType /\ r.at = "fetching"
      BY OutboundAssumption DEF RequestType
    <2>2. request' = [request EXCEPT ![c] = r]
      BY <1>4 DEF Passed
    <2> HIDE DEF r
    <2>3. request'[c] = r /\ Requests' /\ \A d \in Callers : d # c => request'[d] = request[d]
      BY <2>1, <2>2
    <2> QED BY <1>4, <2>3 DEF Moves, r
  <1>5. ASSUME NEW c \in Callers, TransientAnswer(c) \/ NetworkError(c)
        PROVE  Requests' /\ Moves(c) /\ \A d \in Callers : d # c => request'[d] = request[d]
    <2>1. PICK place \in {"pausing", "recovering"} :
            request' = [request EXCEPT ![c] = [at |-> place, attempt |-> @.attempt]]
      BY <1>5 DEF TransientAnswer, NetworkError
    <2> DEFINE r == [at |-> place, attempt |-> request[c].attempt]
    <2>2. r \in RequestType /\ r.at = place /\ r.attempt < MaxTries
      BY <1>5 DEF RequestType, TransientAnswer, NetworkError
    <2>3. request' = [request EXCEPT ![c] = r]
      BY <2>1
    <2> HIDE DEF r
    <2>4. request'[c] = r /\ Requests' /\ \A d \in Callers : d # c => request'[d] = request[d]
      BY <2>2, <2>3
    <2>5. InFlight(c) /\ UNCHANGED breaker
      BY <1>5 DEF InFlight, TransientAnswer, NetworkError
    <2> QED BY <1>5, <2>2, <2>4, <2>5 DEF Moves
  <1>6. ASSUME NEW c \in Callers, Retry(c)
        PROVE  Requests' /\ Moves(c) /\ \A d \in Callers : d # c => request'[d] = request[d]
    <2> DEFINE r == [at |-> "fetching", attempt |-> request[c].attempt + 1]
    <2>1. request[c].attempt \in Nat /\ request[c].attempt < MaxTries
      BY <1>6 DEF RequestType, Retry
    <2>2. r \in RequestType /\ r.at = "fetching"
      BY <2>1, OutboundAssumption DEF RequestType
    <2>3. request' = [request EXCEPT ![c] = r]
      BY <1>6 DEF Retry
    <2> HIDE DEF r
    <2>4. request'[c] = r /\ Requests' /\ \A d \in Callers : d # c => request'[d] = request[d]
      BY <2>2, <2>3
    <2>5. InFlight(c) /\ UNCHANGED breaker
      BY <1>6 DEF InFlight, Retry
    <2> QED BY <1>6, <2>2, <2>4, <2>5 DEF Moves
  <1>7. ASSUME NEW c \in Callers, Answered(c) \/ GivesUp(c) \/ AbortFetch(c) \/ AbortBackoff(c)
        PROVE  Requests' /\ Moves(c) /\ \A d \in Callers : d # c => request'[d] = request[d]
    <2>1. request' = [request EXCEPT ![c] = Out]
      BY <1>7 DEF Answered, GivesUp, AbortFetch, AbortBackoff, Ends
    <2>2. Out \in RequestType /\ Out.at = "out"
      BY OutboundAssumption DEF Out, RequestType
    <2>3. request'[c] = Out /\ Requests' /\ \A d \in Callers : d # c => request'[d] = request[d]
      BY <2>1, <2>2
    <2> QED BY <1>7, <2>3 DEF Moves
  <1>8. CASE UNCHANGED request
    BY <1>8
  <1> QED
    BY <1>1, <1>2, <1>3, <1>4, <1>5, <1>6, <1>7, <1>8 DEF Next, Proceed

\* The records of the calls are in order in every state.
LEMMA RequestsKept == Spec => []Requests
  <1>1. Init => Requests
    BY OutboundAssumption DEF Init, Out, Requests, RequestType
  <1>2. Requests /\ [Next]_vars => Requests'
    BY RequestSteps
  <1> QED BY <1>1, <1>2, PTL DEF Spec

-----------------------------------------------------------------------------
\* A probe in flight stays so, or is left by a signal in the pause of the catch
\* block: every other end of a call reports to the breaker, and only a call that
\* begins to fetch marks a probe.
LEMMA ProbeKept ==
  ASSUME Sound(breaker), Requests, ProbeInFlight, [Next]_vars
  PROVE  ProbeInFlight' \/ \E c \in Callers : AbortBackoff(c) /\ request'[c].at = "out"
  <1>1. CASE UNCHANGED request
    <2>1. \A c \in Callers : InFlight(c)' <=> InFlight(c)
      BY <1>1 DEF InFlight
    <2>2. ASSUME NEW c \in Callers, Passed(c) PROVE FALSE
      <3>1. request' = [request EXCEPT ![c] = [at |-> "fetching", attempt |-> 1]]
            /\ request[c].at = "out"
        BY <2>2 DEF Passed, HasSlot
      <3> QED BY <1>1, <3>1 DEF Requests
    <2>3. breaker'.probe = breaker.probe \/ ~breaker'.probe
      BY <2>2, FailedSound, SucceededSound
         DEF Next, Proceed, vars, Start, AbortWaiting, Refused, Answered, GivesUp, TransientAnswer,
             NetworkError, Retry, AbortFetch, AbortBackoff, Ends, Cool, Toggle, Sound, BreakerType
    <2> QED BY <2>1, <2>3 DEF ProbeInFlight
  <1>2. ASSUME NEW c \in Callers, Moves(c), \A d \in Callers : d # c => request'[d] = request[d]
        PROVE  ProbeInFlight' \/ (AbortBackoff(c) /\ request'[c].at = "out")
    <2>1. CASE request'[c].at # "out"
      BY <2>1 DEF ProbeInFlight, InFlight
    <2>2. CASE request'[c].at = "out"
      <3> SUFFICES ASSUME ~AbortBackoff(c) PROVE ProbeInFlight'
        BY <2>2
      <3>1. Answered(c) \/ GivesUp(c) \/ AbortFetch(c)
        BY <1>2, <2>2 DEF Moves
      <3>2. breaker' \in {Succeeded, Failed}
        BY <3>1 DEF Answered, GivesUp, AbortFetch, Ends
      <3>3. ~breaker'.probe
        BY <3>2, FailedSound, SucceededSound
      <3> QED BY <3>3 DEF ProbeInFlight
    <2> QED BY <2>1, <2>2
  <1> QED BY <1>1, <1>2, RequestSteps

\* outbound.ts:67 is the only place where a probe can be lost: a step after which
\* the breaker waits for a probe that nobody runs is a signal in the pause of the
\* catch block.
THEOREM OnlyBackoffLosesProbes == Spec => ProbeLostInBackoff
  <1>1. Sound(breaker) /\ Requests /\ [Next]_vars
        => [ProbeInFlight /\ ~ProbeInFlight' =>
              \E c \in Callers : request[c].at = "recovering" /\ request'[c].at = "out"]_vars
    BY ProbeKept DEF AbortBackoff
  <1> QED BY <1>1, SoundKept, RequestsKept, PTL DEF Spec, ProbeLostInBackoff

\* If no signal can fire in that pause, a probe marked as running is always one
\* that will report.
THEOREM ProbesReport ==
  ASSUME "recovering" \notin Aborts
  PROVE  Spec => []ProbeInFlight
  <1>1. Init => ProbeInFlight
    BY DEF Init, ProbeInFlight
  <1>2. Sound(breaker) /\ Requests /\ ProbeInFlight /\ [Next]_vars => ProbeInFlight'
    BY ProbeKept DEF AbortBackoff, Fires
  <1> QED BY <1>1, <1>2, SoundKept, RequestsKept, PTL DEF Spec

-----------------------------------------------------------------------------
(* Calls in flight and slots.                                              *)

FlightsHoldSlots == \A c \in Callers : InFlight(c) => caller[c] = "running"

\* A release takes the slot of nobody else.
LEMMA ReleaseSparesOthers ==
  ASSUME B!TypeOK, NEW c \in Callers, B!Release(c), NEW d \in Callers, d # c, caller[d] = "running"
  PROVE  caller'[d] = "running"
  <1>1. CASE B!PassOn(c)
    BY <1>1 DEF B!PassOn, B!TypeOK
  <1>2. CASE B!GiveBack(c)
    BY <1>2 DEF B!GiveBack, B!TypeOK
  <1> QED BY <1>1, <1>2 DEF B!Release

\* A call in flight keeps its slot: only its own end releases it, for neither an
\* arrival nor a waiter that gives up is in flight.
LEMMA SlotsHeld ==
  ASSUME BP!IInv, Requests, FlightsHoldSlots, [Next]_vars
  PROVE  FlightsHoldSlots'
  <1>0. B!TypeOK /\ BP!QueueIsWaiters
    BY DEF BP!IInv, BP!TypeOK, B!TypeOK
  <1>1. CASE UNCHANGED vars
    BY <1>1 DEF vars, FlightsHoldSlots, InFlight
  <1>2. ASSUME NEW c \in Callers, Start(c) \/ AbortWaiting(c) PROVE FlightsHoldSlots'
    <2>1. caller[c] # "running" /\ UNCHANGED request
      BY <1>0, <1>2 DEF Start, AbortWaiting, B!Admit, B!Enqueue, B!Abort, BP!QueueIsWaiters
    <2>2. \A d \in Callers : d # c => caller'[d] = caller[d]
      BY <1>0, <1>2 DEF Start, AbortWaiting, B!Admit, B!Enqueue, B!Abort, B!TypeOK
    <2> QED BY <2>1, <2>2 DEF FlightsHoldSlots, InFlight
  <1>3. ASSUME NEW c \in Callers, Refused(c) PROVE FlightsHoldSlots'
    <2>1. request[c].at = "out" /\ UNCHANGED request /\ B!Release(c)
      BY <1>3 DEF Refused, HasSlot
    <2> QED BY <1>0, <2>1, ReleaseSparesOthers DEF FlightsHoldSlots, InFlight
  <1>4. ASSUME NEW c \in Callers, Answered(c) \/ GivesUp(c) \/ AbortFetch(c) \/ AbortBackoff(c)
        PROVE  FlightsHoldSlots'
    <2>1. request' = [request EXCEPT ![c] = Out] /\ B!Release(c)
      BY <1>4 DEF Answered, GivesUp, AbortFetch, AbortBackoff, Ends
    <2>2. request'[c].at = "out" /\ \A d \in Callers : d # c => request'[d] = request[d]
      BY <2>1 DEF Requests, Out
    <2> QED BY <1>0, <2>1, <2>2, ReleaseSparesOthers DEF FlightsHoldSlots, InFlight
  <1>5. ASSUME NEW c \in Callers, Passed(c) \/ TransientAnswer(c) \/ NetworkError(c) \/ Retry(c)
        PROVE  FlightsHoldSlots'
    <2>1. caller[c] = "running" /\ UNCHANGED caller
      BY <1>5 DEF Passed, TransientAnswer, NetworkError, Retry, HasSlot, slots, FlightsHoldSlots,
                  InFlight
    <2>2. \A d \in Callers : d # c => request'[d] = request[d]
      BY <1>5 DEF Passed, TransientAnswer, NetworkError, Retry, Requests
    <2> QED BY <2>1, <2>2 DEF FlightsHoldSlots, InFlight
  <1>6. CASE Cool \/ Toggle
    BY <1>6 DEF Cool, Toggle, slots, FlightsHoldSlots, InFlight
  <1> QED BY <1>1, <1>2, <1>3, <1>4, <1>5, <1>6 DEF Next, Proceed

\* Whatever fails, retries or is aborted, a scope never has more than
\* Concurrency calls on their way.
THEOREM FlightsStayBounded == Spec => []FlightsBounded
  <1>1. Init => FlightsHoldSlots
    BY DEF Init, FlightsHoldSlots, InFlight, Out
  <1>2. BP!IInv /\ Requests /\ FlightsHoldSlots /\ [Next]_vars => FlightsHoldSlots'
    BY SlotsHeld
  <1>3. BP!IInv /\ FlightsHoldSlots => FlightsBounded
    <2> SUFFICES ASSUME BP!IInv, FlightsHoldSlots PROVE FlightsBounded
      OBVIOUS
    <2> DEFINE flights == {c \in Callers : InFlight(c)}
               holders == {c \in Callers : caller[c] = "running"}
    <2>1. IsFiniteSet(holders) /\ flights \subseteq holders
      BY OutboundAssumption, FS_Subset
         DEF B!BulkheadAssumption, B!IsFiniteSet, IsFiniteSet, FlightsHoldSlots
    <2>2. Cardinality(flights) =< Cardinality(holders)
      BY <2>1, FS_Subset
    <2>3. Cardinality(holders) = active
      BY DEF BP!IInv, BP!SlotsCounted, BP!Holders, BP!Cardinality, Cardinality
    <2>4. active \in 0 .. Concurrency /\ Concurrency \in Nat
      BY OutboundAssumption DEF BP!IInv, BP!TypeOK, B!BulkheadAssumption
    <2>5. Cardinality(flights) \in Nat
      BY <2>1, FS_Subset, FS_CardinalityType
    <2> QED BY <2>2, <2>3, <2>4, <2>5 DEF FlightsBounded
  <1> QED BY <1>1, <1>2, <1>3, BulkheadKept, RequestsKept, PTL DEF Spec

\* Type correctness: the attempts never exceed policy.maxAttempts, and the
\* bulkhead keeps its types inside the composed system.
THEOREM TypeCorrect == Spec => []TypeOK
  <1> DEFINE Rest == up \in BOOLEAN /\ aborts \in 0 .. MaxAborts
  <1>1. Init => Rest
    BY OutboundAssumption DEF Init
  <1>2. Rest /\ [Next]_vars => Rest'
    <2> SUFFICES ASSUME Rest, [Next]_vars PROVE Rest'
      OBVIOUS
    <2>1. \/ Toggle
          \/ UNCHANGED <<up, aborts>>
          \/ UNCHANGED up /\ \E place \in Waits : Fires(place)
      BY DEF Next, Proceed, vars, Start, AbortWaiting, Refused, Passed, Answered, GivesUp,
             TransientAnswer, NetworkError, Retry, AbortFetch, AbortBackoff, Ends, Cool, Waits
    <2>2. CASE Toggle
      BY <2>2 DEF Toggle
    <2>3. ASSUME NEW place, Fires(place) PROVE aborts' \in 0 .. MaxAborts
      BY <2>3, OutboundAssumption DEF Fires
    <2> QED BY <2>1, <2>2, <2>3
  <1>3. Rest /\ Requests /\ Sound(breaker) /\ BP!IInv => TypeOK
    BY DEF TypeOK, Requests, Sound, BP!IInv, BP!TypeOK, B!TypeOK
  <1> HIDE DEF Rest
  <1> QED BY <1>1, <1>2, <1>3, BulkheadKept, RequestsKept, SoundKept, PTL DEF Spec
=============================================================================

-------------------------- MODULE BullQueueProofs --------------------------
(* What the operators of BullQueue preserve of a ticket. *)
EXTENDS BullQueue, TLAPS

\* A ticket that still has to be worked on has an attempt left.
HasAttempt(t) == t.state \in {"wait", "active"} => t.made < MaxAttempts

Sound(workers) == {t \in TicketType(workers) : HasAttempt(t)}

\* An id BullMQ does not know has spent no attempt.
LEMMA NoTicketSound == ASSUME NEW workers PROVE NoTicket \in Sound(workers)
  BY BullAssumption DEF NoTicket, Sound, TicketType, TicketStates, HasAttempt

\* Adding an id keeps tickets sound: a new one has all its attempts.
LEMMA AddedSound ==
  ASSUME NEW workers, NEW t \in Sound(workers)
  PROVE  Added(t) \in Sound(workers)
  BY BullAssumption DEF Added, NoTicket, Sound, TicketType, TicketStates, HasAttempt

\* Handing a waiting ticket to a slot spends no attempt.
LEMMA TakenSound ==
  ASSUME NEW workers, NEW t \in Sound(workers), NEW w \in workers, t.state = "wait"
  PROVE  Taken(t, w) \in Sound(workers)
  <1>1. Taken(t, w) \in TicketType(workers)
    BY DEF Sound, Taken, TicketType, TicketStates
  <1>2. Taken(t, w).made = t.made
    BY DEF Sound, Taken, TicketType, TicketStates
  <1> QED BY <1>1, <1>2 DEF HasAttempt, Sound

\* A ticket that completes is not worked on any more.
LEMMA CompletedSound ==
  ASSUME NEW workers, NEW t \in Sound(workers), NEW w
  PROVE  Completed(t, w) \in Sound(workers)
  <1>1. CASE HeldBy(t, w)
    <2>1. Completed(t, w) \in TicketType(workers)
      BY <1>1 DEF Sound, Completed, TicketType, TicketStates
    <2>2. Completed(t, w).state = "completed"
      BY <1>1 DEF Sound, Completed, TicketType, TicketStates
    <2> QED BY <2>1, <2>2 DEF HasAttempt, Sound
  <1>2. CASE ~HeldBy(t, w)
    BY <1>2 DEF Completed
  <1> QED BY <1>1, <1>2

\* A thrown error counts an attempt, and the ticket waits for a retry only when
\* an attempt is left.
LEMMA ThrownSound ==
  ASSUME NEW workers, NEW t \in Sound(workers), NEW w
  PROVE  Thrown(t, w) \in Sound(workers)
  <1>1. CASE ~HeldBy(t, w)
    BY <1>1 DEF Thrown
  <1>2. CASE HeldBy(t, w)
    <2> DEFINE s == IF t.made + 1 < MaxAttempts THEN "wait" ELSE "failed"
               m == IF t.made < MaxAttempts THEN t.made + 1 ELSE t.made
               r == [t EXCEPT !.state = s, !.made = m, !.by = Nobody]
    <2>1. t \in TicketType(workers) /\ t.made \in 0 .. MaxAttempts /\ t.made < MaxAttempts
      BY <1>2 DEF Sound, HeldBy, HasAttempt, TicketType
    <2>2. s \in TicketStates /\ m = t.made + 1 /\ m \in 0 .. MaxAttempts
      BY <2>1, BullAssumption DEF TicketStates
    <2>3. (s = "wait" => m < MaxAttempts) /\ s # "active"
      BY <2>2
    <2>4. Thrown(t, w) = r
      BY <1>2 DEF Thrown
    <2> HIDE DEF s, m
    <2>5. r \in TicketType(workers)
      BY <2>1, <2>2 DEF TicketType
    <2>6. r.state = s /\ r.made = m
      BY <2>1, <2>2 DEF TicketType
    <2> HIDE DEF r
    <2> QED BY <2>3, <2>4, <2>5, <2>6 DEF HasAttempt, Sound
  <1> QED BY <1>1, <1>2

\* A lost lock leaves the attempt count alone.
LEMMA AbandonedSound ==
  ASSUME NEW workers, NEW t \in Sound(workers), NEW w
  PROVE  Abandoned(t, w) \in Sound(workers)
  BY BullAssumption DEF Abandoned, HeldBy, Sound, TicketType, TicketStates, HasAttempt

\* The stalled checker counts a stall, not an attempt.
LEMMA StalledSound ==
  ASSUME NEW workers, NEW t \in Sound(workers), LockRunsOut(t)
  PROVE  Stalled(t) \in Sound(workers)
  <1> DEFINE s == IF t.stalls < MaxStalled THEN "wait" ELSE "failed"
             n == IF t.stalls =< MaxStalled THEN t.stalls + 1 ELSE t.stalls
             r == [t EXCEPT !.state = s, !.stalls = n]
  <1>1. /\ t \in TicketType(workers) /\ t.stalls \in 0 .. MaxStalled + 1
        /\ t.made < MaxAttempts
    BY DEF Sound, LockRunsOut, HasAttempt, TicketType
  <1>2. s \in TicketStates /\ n \in 0 .. MaxStalled + 1
    BY <1>1, BullAssumption DEF TicketStates
  <1>3. Stalled(t) = r
    BY DEF Stalled
  <1> HIDE DEF s, n
  <1>4. r \in TicketType(workers) /\ r.made = t.made
    BY <1>1, <1>2 DEF TicketType
  <1> HIDE DEF r
  <1> QED BY <1>1, <1>3, <1>4 DEF HasAttempt, Sound

\* What the fields of a ticket are after it was let go, taken or found stalled.
LEMMA TicketFields ==
  ASSUME NEW workers, NEW t \in TicketType(workers), NEW w \in workers
  PROVE  /\ Taken(t, w).state = "active" /\ Taken(t, w).by = w
         /\ Added(t).state = (IF t.state = "absent" THEN "wait" ELSE t.state)
         /\ t.state # "absent" => Added(t) = t
         /\ HeldBy(t, w) => Completed(t, w).state = "completed"
         /\ HeldBy(t, w) => Thrown(t, w).state \in {"wait", "failed"}
         /\ HeldBy(t, w) => Abandoned(t, w).state = "active" /\ Abandoned(t, w).by = Nobody
         /\ ~HeldBy(t, w) => Abandoned(t, w) = t
  BY DEF Taken, Added, NoTicket, HeldBy, Completed, Thrown, Abandoned, TicketType, TicketStates

\* A stalled ticket waits again, or fails because it has stalled too often.
LEMMA StalledFields ==
  ASSUME NEW workers, NEW t \in TicketType(workers)
  PROVE  \/ Stalled(t).state = "wait"
         \/ Stalled(t).state = "failed" /\ Stalled(t).stalls > MaxStalled
  <1> DEFINE s == IF t.stalls < MaxStalled THEN "wait" ELSE "failed"
             n == IF t.stalls =< MaxStalled THEN t.stalls + 1 ELSE t.stalls
             r == [t EXCEPT !.state = s, !.stalls = n]
  <1>1. t.stalls \in 0 .. MaxStalled + 1
    BY DEF TicketType
  <1>2. s = "wait" \/ (s = "failed" /\ n > MaxStalled)
    BY <1>1, BullAssumption
  <1>3. Stalled(t) = r
    BY DEF Stalled
  <1> HIDE DEF s, n
  <1>4. r.state = s /\ r.stalls = n
    BY DEF TicketType
  <1> HIDE DEF r
  <1> QED BY <1>2, <1>3, <1>4
=============================================================================

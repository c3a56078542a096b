--------------------------- MODULE BulkheadProofs ---------------------------
(* Theorems about Bulkhead for any callers, any concurrency and any queue. *)
EXTENDS Bulkhead, SequenceTheorems, FiniteSetTheorems, TLAPS

\* Splicing one element out of a sequence keeps the others in order.
LEMMA RemoveAtProperties ==
  ASSUME NEW S, NEW s \in Seq(S), NEW i \in 1 .. Len(s)
  PROVE  /\ RemoveAt(s, i) \in Seq(S)
         /\ Len(RemoveAt(s, i)) = Len(s) - 1
         /\ \A j \in 1 .. Len(s) - 1 :
               RemoveAt(s, i)[j] = IF j < i THEN s[j] ELSE s[j + 1]
  <1> DEFINE a == SubSeq(s, 1, i - 1)
             b == SubSeq(s, i + 1, Len(s))
  <1>0. Len(s) \in Nat /\ \A j \in 1 .. Len(s) : s[j] \in S
    BY LenProperties, ElementOfSeq
  <1>1. /\ a \in Seq(S) /\ Len(a) = i - 1
        /\ \A j \in 1 .. i - 1 : a[j] = s[j]
    BY <1>0, SubSeqProperties
  <1>2. /\ b \in Seq(S) /\ Len(b) = Len(s) - i
        /\ \A j \in 1 .. Len(s) - i : b[j] = s[i + j]
    <2>1. i + 1 \in Int /\ Len(s) \in Int /\ \A j \in i + 1 .. Len(s) : s[j] \in S
      BY <1>0
    <2> HIDE DEF b
    <2>2. /\ b \in Seq(S) /\ Len(b) = IF i + 1 <= Len(s) THEN Len(s) - (i + 1) + 1 ELSE 0
          /\ \A j \in 1 .. Len(s) - (i + 1) + 1 : b[j] = s[i + 1 + j - 1]
      BY <2>1, SubSeqProperties DEF b
    <2> QED BY <2>2, <1>0
  <1> HIDE DEF a, b
  <1>3. RemoveAt(s, i) = a \o b
    BY DEF RemoveAt, a, b
  <1>4. /\ a \o b \in Seq(S) /\ Len(a \o b) = Len(a) + Len(b)
        /\ \A j \in 1 .. Len(a) + Len(b) : (a \o b)[j] = IF j <= Len(a) THEN a[j] ELSE b[j - Len(a)]
    BY <1>1, <1>2, ConcatProperties
  <1> QED BY <1>0, <1>1, <1>2, <1>3, <1>4

-----------------------------------------------------------------------------
(* The inductive invariant: the counter, the queue and the callers agree.  *)

IInv == TypeOK /\ SlotsCounted /\ QueueIsWaiters /\ NoIdleSlot

\* The caller at the head of the queue waits, and appears nowhere else in it.
LEMMA HeadWaits ==
  ASSUME TypeOK, QueueIsWaiters, waiting # <<>>
  PROVE  /\ Head(waiting) \in Callers /\ Head(waiting) = waiting[1]
         /\ caller[Head(waiting)] = "waiting"
         /\ \A i \in DOMAIN Tail(waiting) : Tail(waiting)[i] # Head(waiting)
  <1>1. waiting \in Seq(Callers) /\ Len(waiting) \in Nat /\ DOMAIN waiting = 1 .. Len(waiting)
    BY LenProperties DEF TypeOK
  <1>2. Len(waiting) >= 1 /\ 1 \in DOMAIN waiting
    BY <1>1, EmptySeq
  <1>3. /\ Head(waiting) \in Callers /\ Tail(waiting) \in Seq(Callers)
        /\ Len(Tail(waiting)) = Len(waiting) - 1
        /\ \A i \in 1 .. Len(Tail(waiting)) : Tail(waiting)[i] = waiting[i + 1]
    BY <1>1, HeadTailProperties
  <1>4. Head(waiting) = waiting[1]
    OBVIOUS
  <1>5. DOMAIN Tail(waiting) = 1 .. Len(Tail(waiting))
    BY <1>3, LenProperties
  <1>6. caller[Head(waiting)] = "waiting"
    BY <1>2, <1>3, <1>4 DEF QueueIsWaiters
  <1>7. ASSUME NEW i \in DOMAIN Tail(waiting) PROVE Tail(waiting)[i] # Head(waiting)
    <2>1. i + 1 \in DOMAIN waiting /\ i + 1 # 1 /\ Tail(waiting)[i] = waiting[i + 1]
      BY <1>1, <1>3, <1>5
    <2> QED BY <2>1, <1>2, <1>4 DEF QueueIsWaiters
  <1> QED BY <1>3, <1>4, <1>6, <1>7

\* Initially nothing runs and nobody waits.
LEMMA InitIInv == ASSUME Init PROVE IInv
  <1>1. TypeOK
    BY BulkheadAssumption, EmptySeq DEF Init, TypeOK
  <1>2. Holders = {}
    BY DEF Init, Holders
  <1>3. SlotsCounted
    BY <1>2, FS_EmptySet DEF Init, SlotsCounted
  <1>4. QueueIsWaiters /\ NoIdleSlot
    BY EmptySeq DEF Init, QueueIsWaiters, NoIdleSlot
  <1> QED BY <1>1, <1>3, <1>4 DEF IInv

\* The holders are a finite set, so adding or removing one moves the count by one.
LEMMA HoldersFinite == ASSUME TypeOK PROVE IsFiniteSet(Holders) /\ Cardinality(Holders) \in Nat
  BY BulkheadAssumption, FS_Subset, FS_CardinalityType DEF Holders

\* Admit takes a free slot; with a free slot nobody waits.
LEMMA AdmitIInv == ASSUME IInv, NEW c \in Callers, Admit(c) PROVE IInv'
  <1>1. TypeOK'
    BY BulkheadAssumption DEF IInv, TypeOK, Admit
  <1>2. Holders' = Holders \cup {c} /\ c \notin Holders
    BY DEF IInv, TypeOK, Admit, Holders
  <1>3. Cardinality(Holders') = Cardinality(Holders) + 1
    BY <1>2, HoldersFinite, FS_AddElement DEF IInv
  <1>4. SlotsCounted'
    BY <1>3 DEF IInv, Admit, SlotsCounted
  <1>5. QueueIsWaiters' /\ NoIdleSlot'
    BY BulkheadAssumption DEF IInv, TypeOK, Admit, QueueIsWaiters, NoIdleSlot
  <1> QED BY <1>1, <1>4, <1>5 DEF IInv

\* Enqueue appends a caller that was not in the queue, when every slot is taken.
LEMMA EnqueueIInv == ASSUME IInv, NEW c \in Callers, Enqueue(c) PROVE IInv'
  <1> USE DEF IInv
  <1>0. /\ waiting \in Seq(Callers) /\ Len(waiting) \in Nat /\ DOMAIN waiting = 1 .. Len(waiting)
        /\ waiting' \in Seq(Callers) /\ Len(waiting') = Len(waiting) + 1
        /\ DOMAIN waiting' = 1 .. Len(waiting) + 1
        /\ \A i \in 1 .. Len(waiting) : waiting'[i] = waiting[i]
        /\ waiting'[Len(waiting) + 1] = c
    <2>1. waiting \in Seq(Callers) /\ waiting' = Append(waiting, c)
      BY DEF TypeOK, Enqueue
    <2> QED BY <2>1, LenProperties, AppendProperties
  <1>1. TypeOK'
    BY <1>0, BulkheadAssumption DEF TypeOK, Enqueue
  <1>2. Holders' = Holders
    BY DEF TypeOK, Enqueue, Holders
  <1>3. SlotsCounted'
    BY <1>2 DEF Enqueue, SlotsCounted
  <1>4. \A i \in DOMAIN waiting : waiting[i] # c
    BY DEF Enqueue, QueueIsWaiters, TypeOK
  <1>5. QueueIsWaiters'
    <2>1. ASSUME NEW i \in DOMAIN waiting', NEW j \in DOMAIN waiting', waiting'[i] = waiting'[j]
          PROVE  i = j
      <3>1. CASE i \in DOMAIN waiting /\ j \in DOMAIN waiting
        BY <1>0, <2>1, <3>1 DEF QueueIsWaiters
      <3>2. CASE i = Len(waiting) + 1 \/ j = Len(waiting) + 1
        BY <1>0, <1>4, <2>1, <3>2
      <3> QED BY <1>0, <3>1, <3>2
    <2>2. ASSUME NEW d \in Callers
          PROVE  caller'[d] = "waiting" <=> \E i \in DOMAIN waiting' : waiting'[i] = d
      <3>1. CASE d = c
        <4>1. caller'[d] = "waiting" /\ Len(waiting) + 1 \in DOMAIN waiting'
          BY <1>0, <3>1 DEF Enqueue, TypeOK
        <4> QED BY <1>0, <3>1, <4>1
      <3>2. CASE d # c
        <4>1. caller'[d] = caller[d]
          BY <3>2 DEF Enqueue, TypeOK
        <4>2. (\E i \in DOMAIN waiting : waiting[i] = d) <=> \E i \in DOMAIN waiting' : waiting'[i] = d
          BY <1>0, <3>2
        <4> QED BY <4>1, <4>2 DEF QueueIsWaiters
      <3> QED BY <3>1, <3>2
    <2> QED BY <2>1, <2>2 DEF QueueIsWaiters
  <1>6. NoIdleSlot'
    BY BulkheadAssumption DEF TypeOK, Enqueue, NoIdleSlot
  <1> QED BY <1>1, <1>3, <1>5, <1>6

\* Abort splices the caller out and leaves the order of the others.
LEMMA AbortIInv == ASSUME IInv, NEW c \in Callers, Abort(c) PROVE IInv'
  <1> USE DEF IInv
  <1> PICK k \in DOMAIN waiting : waiting[k] = c /\ waiting' = RemoveAt(waiting, k)
    BY DEF Abort
  <1>0. /\ waiting \in Seq(Callers) /\ Len(waiting) \in Nat /\ DOMAIN waiting = 1 .. Len(waiting)
        /\ waiting' \in Seq(Callers) /\ Len(waiting') = Len(waiting) - 1
        /\ DOMAIN waiting' = 1 .. Len(waiting) - 1
        /\ \A j \in 1 .. Len(waiting) - 1 : waiting'[j] = IF j < k THEN waiting[j] ELSE waiting[j + 1]
    <2>1. waiting \in Seq(Callers) /\ k \in 1 .. Len(waiting)
      BY LenProperties DEF TypeOK
    <2> QED BY <2>1, LenProperties, RemoveAtProperties
  <1>1. TypeOK'
    BY <1>0, BulkheadAssumption DEF TypeOK, Abort
  <1>2. caller[c] = "waiting" /\ waiting # <<>>
    BY <1>0, EmptySeq DEF QueueIsWaiters
  <1>3. Holders' = Holders
    BY <1>2 DEF TypeOK, Abort, Holders
  <1>4. SlotsCounted'
    BY <1>3 DEF Abort, SlotsCounted
  <1>5. QueueIsWaiters'
    <2> DEFINE old(j) == IF j < k THEN j ELSE j + 1
    <2>1. \A j \in DOMAIN waiting' :
             old(j) \in DOMAIN waiting /\ old(j) # k /\ waiting'[j] = waiting[old(j)]
      BY <1>0
    <2>2. \A i, j \in DOMAIN waiting' : old(i) = old(j) => i = j
      BY <1>0
    <2>3. \A i \in DOMAIN waiting : i # k => \E j \in DOMAIN waiting' : old(j) = i
      <3> TAKE i \in DOMAIN waiting
      <3> HAVE i # k
      <3>1. CASE i < k
        <4>1. i \in DOMAIN waiting' /\ old(i) = i
          BY <1>0, <3>1
        <4> QED BY <4>1
      <3>2. CASE i > k
        <4>1. i - 1 \in DOMAIN waiting' /\ old(i - 1) = i
          BY <1>0, <3>2
        <4> QED BY <4>1
      <3> QED BY <1>0, <3>1, <3>2
    <2> HIDE DEF old
    <2>4. \A i, j \in DOMAIN waiting' : waiting'[i] = waiting'[j] => i = j
      BY <2>1, <2>2 DEF QueueIsWaiters
    <2>5. ASSUME NEW d \in Callers
          PROVE  caller'[d] = "waiting" <=> \E i \in DOMAIN waiting' : waiting'[i] = d
      <3>1. CASE d = c
        <4>1. caller'[d] # "waiting"
          BY <3>1 DEF Abort, TypeOK
        <4>2. \A i \in DOMAIN waiting' : waiting'[i] # d
          BY <2>1, <3>1 DEF QueueIsWaiters
        <4> QED BY <4>1, <4>2
      <3>2. CASE d # c
        <4>1. caller'[d] = caller[d]
          BY <3>2 DEF Abort, TypeOK
        <4>2. (\E i \in DOMAIN waiting : waiting[i] = d) <=> \E i \in DOMAIN waiting' : waiting'[i] = d
          BY <2>1, <2>3, <3>2
        <4> QED BY <4>1, <4>2 DEF QueueIsWaiters
      <3> QED BY <3>1, <3>2
    <2> QED BY <2>4, <2>5 DEF QueueIsWaiters
  <1>6. NoIdleSlot'
    BY <1>2 DEF Abort, NoIdleSlot
  <1> QED BY <1>1, <1>4, <1>5, <1>6

\* PassOn replaces one holder by the head of the queue, so the counter stands.
LEMMA PassOnIInv == ASSUME IInv, NEW c \in Callers, PassOn(c) PROVE IInv'
  <1> USE DEF IInv
  <1> DEFINE h == Head(waiting)
  <1>1. /\ h \in Callers /\ h = waiting[1] /\ caller[h] = "waiting" /\ h # c
        /\ \A i \in DOMAIN Tail(waiting) : Tail(waiting)[i] # h
    BY HeadWaits DEF PassOn
  <1>2. /\ waiting \in Seq(Callers) /\ Len(waiting) \in Nat /\ DOMAIN waiting = 1 .. Len(waiting)
        /\ waiting' \in Seq(Callers) /\ Len(waiting') = Len(waiting) - 1
        /\ DOMAIN waiting' = 1 .. Len(waiting) - 1
        /\ \A j \in 1 .. Len(waiting) - 1 : waiting'[j] = waiting[j + 1]
    <2>1. waiting \in Seq(Callers) /\ waiting # <<>> /\ waiting' = Tail(waiting)
      BY DEF TypeOK, PassOn
    <2> QED BY <2>1, LenProperties, HeadTailProperties
  <1>3. waiting # <<>> /\ waiting' = Tail(waiting) /\ active' = active /\ caller[c] = "running"
    BY DEF PassOn
  <1>4. caller' = [caller EXCEPT ![c] = "idle", ![h] = "running"]
    BY DEF PassOn
  <1> HIDE DEF h
  <1>5. /\ caller' \in [Callers -> {"idle", "waiting", "running"}]
        /\ caller'[c] = "idle" /\ caller'[h] = "running"
        /\ \A d \in Callers : d # c /\ d # h => caller'[d] = caller[d]
    BY <1>1, <1>4 DEF TypeOK
  <1>6. TypeOK'
    BY <1>2, <1>3, <1>5, BulkheadAssumption DEF TypeOK
  <1>7. SlotsCounted'
    <2>1. Holders' = (Holders \ {c}) \cup {h}
      BY <1>1, <1>5 DEF Holders
    <2>2. c \in Holders /\ h \notin Holders \ {c}
      BY <1>1, <1>3 DEF Holders
    <2>3. IsFiniteSet(Holders) /\ Cardinality(Holders) \in Nat
      BY HoldersFinite
    <2>4. IsFiniteSet(Holders \ {c}) /\ Cardinality(Holders \ {c}) = Cardinality(Holders) - 1
      BY <2>2, <2>3, FS_RemoveElement
    <2>5. Cardinality(Holders') = Cardinality(Holders \ {c}) + 1
      BY <2>1, <2>2, <2>4, FS_AddElement
    <2> QED BY <1>3, <2>3, <2>4, <2>5 DEF SlotsCounted
  <1>8. QueueIsWaiters'
    <2>1. \A i, j \in DOMAIN waiting' : waiting'[i] = waiting'[j] => i = j
      <3> TAKE i, j \in DOMAIN waiting'
      <3>1. /\ i + 1 \in DOMAIN waiting /\ j + 1 \in DOMAIN waiting
            /\ waiting'[i] = waiting[i + 1] /\ waiting'[j] = waiting[j + 1]
        BY <1>2
      <3>2. waiting'[i] = waiting'[j] => i + 1 = j + 1
        BY <3>1 DEF QueueIsWaiters
      <3> QED BY <1>2, <3>2
    <2>2. ASSUME NEW d \in Callers
          PROVE  caller'[d] = "waiting" <=> \E i \in DOMAIN waiting' : waiting'[i] = d
      <3>1. CASE d = h
        BY <1>1, <1>3, <1>5, <3>1
      <3>2. CASE d = c
        <4>1. \A i \in DOMAIN waiting : waiting[i] # c
          BY <1>3 DEF QueueIsWaiters
        <4>2. \A i \in DOMAIN waiting' : waiting'[i] # c
          BY <1>2, <4>1
        <4> QED BY <1>5, <3>2, <4>2
      <3>3. CASE d # h /\ d # c
        <4>1. caller'[d] = caller[d]
          BY <1>5, <3>3
        <4>2. ASSUME NEW i \in DOMAIN waiting, waiting[i] = d PROVE \E j \in DOMAIN waiting' : waiting'[j] = d
          <5>1. i # 1
            BY <1>1, <3>3, <4>2
          <5>2. i - 1 \in DOMAIN waiting' /\ waiting'[i - 1] = waiting[i]
            BY <1>2, <5>1
          <5> QED BY <4>2, <5>2
        <4>3. ASSUME NEW j \in DOMAIN waiting', waiting'[j] = d PROVE \E i \in DOMAIN waiting : waiting[i] = d
          BY <1>2, <4>3
        <4> QED BY <4>1, <4>2, <4>3 DEF QueueIsWaiters
      <3> QED BY <3>1, <3>2, <3>3
    <2> QED BY <2>1, <2>2 DEF QueueIsWaiters
  <1>9. NoIdleSlot'
    BY <1>3 DEF NoIdleSlot
  <1> QED BY <1>6, <1>7, <1>8, <1>9

\* GiveBack frees the slot of a holder when nobody waits for it.
LEMMA GiveBackIInv == ASSUME IInv, NEW c \in Callers, GiveBack(c) PROVE IInv'
  <1> USE DEF IInv
  <1>1. Holders' = Holders \ {c} /\ c \in Holders
    BY DEF TypeOK, GiveBack, Holders
  <1>2. IsFiniteSet(Holders) /\ Cardinality(Holders) \in Nat
    BY HoldersFinite
  <1>3. Cardinality(Holders') = Cardinality(Holders) - 1 /\ Cardinality(Holders') \in Nat
    BY <1>1, <1>2, FS_RemoveElement, FS_CardinalityType
  <1>4. active = Cardinality(Holders) /\ active > 0 /\ active' = active - 1
    BY <1>2, <1>3 DEF SlotsCounted, GiveBack
  <1>5. TypeOK'
    BY <1>4, BulkheadAssumption DEF TypeOK, GiveBack
  <1>6. SlotsCounted'
    BY <1>3, <1>4 DEF SlotsCounted
  <1>7. QueueIsWaiters' /\ NoIdleSlot'
    BY DEF TypeOK, GiveBack, QueueIsWaiters, NoIdleSlot
  <1> QED BY <1>5, <1>6, <1>7

\* Every step keeps the inductive invariant.
LEMMA NextIInv == ASSUME IInv, [Next]_vars PROVE IInv'
  <1>1. CASE UNCHANGED vars
    BY <1>1 DEF vars, IInv, TypeOK, SlotsCounted, Holders, QueueIsWaiters, NoIdleSlot
  <1>2. CASE Next
    BY <1>2, AdmitIInv, EnqueueIInv, AbortIInv, PassOnIInv, GiveBackIInv DEF Next, Release
  <1> QED BY <1>1, <1>2

\* The invariant of every behaviour of the bulkhead.
LEMMA Inductive == Spec => []IInv
  BY InitIInv, NextIInv, PTL DEF Spec

\* Whoever calls, whatever gives up and in whatever order operations end: the
\* counter active is the number of operations that run.
THEOREM NoSlotLost == Spec => []SlotsCounted
  <1>1. IInv => SlotsCounted
    BY DEF IInv
  <1> QED BY Inductive, <1>1, PTL

\* The queue names every waiting caller exactly once, and nobody else.
THEOREM QueueExact == Spec => []QueueIsWaiters
  <1>1. IInv => QueueIsWaiters
    BY DEF IInv
  <1> QED BY Inductive, <1>1, PTL

\* The books of a bulkhead balance: no release, hand-over or giving up puts the
\* counter or the queue out of step with its callers.
THEOREM BooksBalance == Spec => []Bookkeeping
  <1>1. IInv => Bookkeeping
    BY DEF IInv, Bookkeeping
  <1> QED BY Inductive, <1>1, PTL

\* No caller waits beside a free slot.
THEOREM SlotsUsed == Spec => []NoIdleSlot
  <1>1. IInv => NoIdleSlot
    BY DEF IInv
  <1> QED BY Inductive, <1>1, PTL

-----------------------------------------------------------------------------
(* What single steps do.                                                   *)

\* A caller that starts without queueing found the queue empty; a released
\* slot goes to the head of the queue.
LEMMA StartsInTurn ==
  ASSUME IInv, [Next]_vars, NEW c \in Callers, caller[c] # "running", caller'[c] = "running"
  PROVE  waiting = <<>> \/ c = Head(waiting)
  <1> USE DEF IInv
  <1>1. CASE UNCHANGED vars
    BY <1>1 DEF vars
  <1>2. ASSUME NEW d \in Callers, Admit(d) PROVE waiting = <<>>
    BY <1>2, BulkheadAssumption DEF Admit, TypeOK, NoIdleSlot
  <1>3. ASSUME NEW d \in Callers, Enqueue(d) \/ Abort(d) \/ GiveBack(d) PROVE FALSE
    BY <1>3 DEF TypeOK, Enqueue, Abort, GiveBack
  <1>4. ASSUME NEW d \in Callers, PassOn(d) PROVE c = Head(waiting)
    <2>1. Head(waiting) \in Callers
      BY <1>4, HeadWaits DEF PassOn
    <2>2. caller' = [caller EXCEPT ![d] = "idle", ![Head(waiting)] = "running"]
      BY <1>4 DEF PassOn
    <2> QED BY <2>1, <2>2 DEF TypeOK
  <1> QED BY <1>1, <1>2, <1>3, <1>4 DEF Next, Release

\* Slots are granted in the order of arrival, however waiters give up and
\* operations end.
THEOREM FirstComeFirstServed == Spec => NoOvertaking
  <1>1. IInv /\ [Next]_vars
        => [\A c \in Callers : caller[c] # "running" /\ caller'[c] = "running"
                               => waiting = <<>> \/ c = Head(waiting)]_vars
    BY StartsInTurn
  <1> QED BY Inductive, <1>1, PTL DEF Spec, NoOvertaking

\* Every step of the bulkhead is a step of the semaphore, or leaves the holders
\* alone.
LEMMA StepIsSemaphore ==
  ASSUME IInv, [Next]_vars
  PROVE  [Sem!Next]_Holders
  <1> USE DEF IInv
  <1>1. CASE UNCHANGED vars
    BY <1>1 DEF vars, Holders
  <1>2. ASSUME NEW c \in Callers, Admit(c) PROVE Sem!Enter(c)
    <2>1. Holders' = Holders \cup {c} /\ c \notin Holders
      BY <1>2 DEF TypeOK, Admit, Holders
    <2>2. Cardinality(Holders) < Concurrency
      BY <1>2 DEF Admit, SlotsCounted
    <2> QED BY <2>1, <2>2 DEF Sem!Enter, Sem!Cardinality, Cardinality
  <1>3. ASSUME NEW c \in Callers, Enqueue(c) \/ Abort(c) PROVE Holders' = Holders
    <2>1. CASE Enqueue(c)
      BY <2>1 DEF TypeOK, Enqueue, Holders
    <2>2. CASE Abort(c)
      <3>1. caller[c] = "waiting"
        BY <2>2 DEF Abort, QueueIsWaiters
      <3> QED BY <3>1, <2>2 DEF TypeOK, Abort, Holders
    <2> QED BY <1>3, <2>1, <2>2
  <1>4. ASSUME NEW c \in Callers, PassOn(c) PROVE \E v \in Callers : Sem!HandOver(c, v)
    <2> DEFINE h == Head(waiting)
    <2>1. h \in Callers /\ caller[h] = "waiting"
      BY <1>4, HeadWaits DEF PassOn
    <2>2. caller[c] = "running" /\ caller' = [caller EXCEPT ![c] = "idle", ![h] = "running"]
      BY <1>4 DEF PassOn
    <2> HIDE DEF h
    <2>3. /\ c \in Holders /\ h \notin Holders
          /\ Holders' = (Holders \ {c}) \cup {h}
      BY <2>1, <2>2 DEF TypeOK, Holders
    <2> QED BY <2>1, <2>3 DEF Sem!HandOver
  <1>5. ASSUME NEW c \in Callers, GiveBack(c) PROVE Sem!Exit(c)
    BY <1>5 DEF TypeOK, GiveBack, Holders, Sem!Exit
  <1> QED BY <1>1, <1>2, <1>3, <1>4, <1>5 DEF Next, Release, Sem!Next

\* The bulkhead implements the semaphore: never more than Concurrency
\* operations, for any callers and any queue.
THEOREM ImplementsSemaphore == Spec => IsSemaphore
  <1>1. Init => Sem!Init
    BY DEF Init, Sem!Init, Holders
  <1>2. IInv /\ [Next]_vars => [Sem!Next]_Holders
    BY StepIsSemaphore
  <1> QED BY Inductive, <1>1, <1>2, PTL DEF Spec, IsSemaphore, Sem!Spec
=============================================================================

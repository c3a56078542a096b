------------------------------ MODULE Bulkhead ------------------------------
(***************************************************************************)
(* class Bulkhead (utils/resilience.ts): at most Concurrency operations    *)
(* run, at most MaxQueue callers wait, in order; a waiter may give up.     *)
(* JavaScript runs each piece between two awaits without interruption, so  *)
(* acquire, release and the abort listener are one action each.            *)
(***************************************************************************)
EXTENDS Naturals, FiniteSets, SequencesExt

CONSTANTS Callers, Concurrency, MaxQueue

ASSUME BulkheadAssumption ==
    /\ IsFiniteSet(Callers)
    /\ Concurrency \in Nat \ {0}
    /\ MaxQueue \in Nat

VARIABLES
    active,   \* this.active
    waiting,  \* this.waiting, each waiter named by its caller
    caller    \* where each caller of run() is

vars == <<active, waiting, caller>>

TypeOK ==
    /\ active \in 0 .. Concurrency
    /\ waiting \in Seq(Callers) /\ Len(waiting) =< MaxQueue
    /\ caller \in [Callers -> {"idle", "waiting", "running"}]

Init ==
    /\ active = 0
    /\ waiting = <<>>
    /\ caller = [c \in Callers |-> "idle"]

-----------------------------------------------------------------------------
(* Mutants of the actions below *)

AdmitOneMore(c) ==
    /\ caller[c] = "idle"
    /\ active =< Concurrency
    /\ active' = active + 1
    /\ caller' = [caller EXCEPT ![c] = "running"]
    /\ UNCHANGED waiting

AbortUnspliced(c) ==
    /\ \E i \in DOMAIN waiting : waiting[i] = c
    /\ caller' = [caller EXCEPT ![c] = "idle"]
    /\ UNCHANGED <<active, waiting>>

PassOnNewest(c) ==
    /\ caller[c] = "running"
    /\ waiting # <<>>
    /\ caller' = [caller EXCEPT ![c] = "idle", ![waiting[Len(waiting)]] = "running"]
    /\ waiting' = Front(waiting)
    /\ UNCHANGED active

GiveBackUnasked(c) ==
    /\ caller[c] = "running"
    /\ active' = IF active > 0 THEN active - 1 ELSE 0
    /\ caller' = [caller EXCEPT ![c] = "idle"]
    /\ UNCHANGED waiting

-----------------------------------------------------------------------------
\* acquire: a slot is free
Admit(c) ==
    /\ caller[c] = "idle"
    /\ active < Concurrency
    /\ active' = active + 1
    /\ caller' = [caller EXCEPT ![c] = "running"]
    /\ UNCHANGED waiting

\* acquire: all slots are taken.  With MaxQueue waiters the call throws
\* CapacityExceededError, which changes nothing.
Enqueue(c) ==
    /\ caller[c] = "idle"
    /\ active >= Concurrency
    /\ Len(waiting) < MaxQueue
    /\ waiting' = Append(waiting, c)
    /\ caller' = [caller EXCEPT ![c] = "waiting"]
    /\ UNCHANGED active

\* the abort listener of a waiter
Abort(c) ==
    /\ \E i \in DOMAIN waiting : waiting[i] = c /\ waiting' = RemoveAt(waiting, i)
    /\ caller' = [caller EXCEPT ![c] = "idle"]
    /\ UNCHANGED active

\* release, after an operation that returned or threw: the slot goes to the
\* caller that has waited longest
PassOn(c) ==
    /\ caller[c] = "running"
    /\ waiting # <<>>
    /\ caller' = [caller EXCEPT ![c] = "idle", ![Head(waiting)] = "running"]
    /\ waiting' = Tail(waiting)
    /\ UNCHANGED active

\* release: nobody waits
GiveBack(c) ==
    /\ caller[c] = "running"
    /\ waiting = <<>>
    /\ active' = IF active > 0 THEN active - 1 ELSE 0
    /\ caller' = [caller EXCEPT ![c] = "idle"]
    /\ UNCHANGED waiting

Release(c) == PassOn(c) \/ GiveBack(c)

Next == \E c \in Callers : Admit(c) \/ Enqueue(c) \/ Abort(c) \/ Release(c)

Spec == Init /\ [][Next]_vars

\* Operations settle: every outbound call carries a timeout signal.
LiveSpec == Spec /\ \A c \in Callers : WF_vars(Release(c))

-----------------------------------------------------------------------------
(* Properties *)

Holders == {c \in Callers : caller[c] = "running"}

\* The counter is the number of operations that run: no slot is lost or counted
\* twice when one is passed on, given back or its waiter gives up.
SlotsCounted == active = Cardinality(Holders)

\* The queue holds each waiting caller once, and nobody who gave up.
QueueIsWaiters ==
    /\ \A i, j \in DOMAIN waiting : waiting[i] = waiting[j] => i = j
    /\ \A c \in Callers : caller[c] = "waiting" <=> \E i \in DOMAIN waiting : waiting[i] = c

\* The books balance: slots and queue are exact together. (Neither can be checked
\* alone: the waiter that a slot is passed to must not hold one already.)
Bookkeeping == SlotsCounted /\ QueueIsWaiters

\* Nobody waits while a slot is free.
NoIdleSlot == waiting # <<>> => active = Concurrency

\* Nobody overtakes: whoever starts was first in the queue, or found it empty.
NoOvertaking ==
    [][\A c \in Callers : caller[c] # "running" /\ caller'[c] = "running"
                          => waiting = <<>> \/ c = Head(waiting)]_vars

\* A waiter is served in the end, or gives up.
WaiterServed == \A c \in Callers : caller[c] = "waiting" ~> caller[c] # "waiting"

\* The bulkhead implements the semaphore.
Sem == INSTANCE Semaphore WITH Users <- Callers, Limit <- Concurrency, holders <- Holders
IsSemaphore == Sem!Spec
=============================================================================

----------------------------- MODULE Semaphore -----------------------------
(* What a bulkhead promises: never more than Limit operations at a time. *)
EXTENDS Naturals, FiniteSets

CONSTANTS Users, Limit

VARIABLE holders

Init == holders = {}

Enter(u) == /\ u \notin holders
            /\ Cardinality(holders) < Limit
            /\ holders' = holders \cup {u}

Exit(u) == u \in holders /\ holders' = holders \ {u}

\* A holder that is done hands its place over without giving it back.
HandOver(u, v) == /\ u \in holders /\ v \notin holders
                  /\ holders' = (holders \ {u}) \cup {v}

Next == \E u \in Users : Enter(u) \/ Exit(u) \/ \E v \in Users : HandOver(u, v)

Spec == Init /\ [][Next]_holders
=============================================================================

------------------------------- MODULE Inbox -------------------------------
(* What the WeChat channel promises about a message: it is taken in once,  *)
(* it is answered only after that, and once something has been answered    *)
(* nothing else ever is, unless two attempts at it have overlapped.         *)
CONSTANTS
    Events,     \* the messages WeChat reports
    Answers     \* what the model may answer

VARIABLES
    known,      \* messages taken in
    disputed,   \* messages at which two attempts may be at work
    replies     \* replies[e]: the different answers the user has been sent

vars == <<known, disputed, replies>>

Init == known = {} /\ disputed = {} /\ replies = [e \in Events |-> {}]

TakeIn(e) == /\ known' = known \cup {e}
             /\ UNCHANGED <<disputed, replies>>

Dispute(e) == /\ e \in known
              /\ disputed' = disputed \cup {e}
              /\ UNCHANGED <<known, replies>>

Reply(e, a) == /\ e \in known
               /\ replies[e] = {} \/ e \in disputed
               /\ replies' = [replies EXCEPT ![e] = @ \cup {a}]
               /\ UNCHANGED <<known, disputed>>

Next == \E e \in Events : TakeIn(e) \/ Dispute(e) \/ \E a \in Answers : Reply(e, a)

Spec == Init /\ [][Next]_vars
=============================================================================

---------------------------- MODULE MCRetrieval ----------------------------
(* A small instance of Retrieval: two requests that share the flights of one *)
(* process, one of them a question, the other an evaluation.                 *)
EXTENDS Retrieval, TLC

CONSTANTS p1, q1, q2, a1, a2

Together == (q1 :> p1) @@ (q2 :> p1)

Mixed == (q1 :> {"ask", "exact"}) @@ (q2 :> {"evaluate"})
=============================================================================

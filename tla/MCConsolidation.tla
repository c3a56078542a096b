-------------------------- MODULE MCConsolidation --------------------------
(* A small instance of Consolidation: two workers and two runs, each of them *)
(* as good as the other.                                                     *)
EXTENDS Consolidation, TLC

CONSTANTS w1, w2, r1, r2

Symmetry == Permutations({w1, w2}) \cup Permutations({r1, r2})
=============================================================================

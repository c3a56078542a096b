-------------------------- MODULE MCAssetPipeline --------------------------
(* Small instances of AssetPipeline: all assets have the same content, so   *)
(* that any two of them are duplicates of each other.                       *)
EXTENDS AssetPipeline, TLC

CONSTANT sha

SameContent == [a \in Assets |-> sha]

Slots == Permutations(Workers)

Library == Permutations(Assets) \cup Permutations(Workspaces) \cup Permutations(Clients)
=============================================================================

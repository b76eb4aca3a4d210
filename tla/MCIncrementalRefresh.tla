------------------------ MODULE MCIncrementalRefresh ------------------------
(* IncrementalRefresh on a small instance; bills are interchangeable. *)
EXTENDS IncrementalRefresh, TLC

Symmetry == Permutations(Bill)
=============================================================================

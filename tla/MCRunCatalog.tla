---------------------------- MODULE MCRunCatalog ----------------------------
(* RunCatalog on a small instance; run identifiers are interchangeable. *)
EXTENDS RunCatalog, TLC

Symmetry == Permutations(RunId)
=============================================================================

-------------------------- MODULE MCOfficeHoldings --------------------------
(* Small instances of OfficeHoldings for TLC. *)
EXTENDS OfficeHoldings, TLC

\* Well-formed snapshots are interchangeable, and so are offices.
Symmetry == Permutations(Snapshot \ Malformed) \cup Permutations(Office)
=============================================================================

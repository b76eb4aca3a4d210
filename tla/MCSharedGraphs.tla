--------------------------- MODULE MCSharedGraphs ---------------------------
(* SharedGraphs on a small instance: one owner graph with a source endpoint *)
(* of its own and the Committees graph; one owner may change or be left     *)
(* out, the other is only described by some scans.                          *)
EXTENDS SharedGraphs, TLC

CONSTANTS parties, committees, a, b, x, y

MCRank == (parties :> 1) @@ (committees :> 2)

MCObservation == {(a :> x) @@ (b :> Absent), (a :> y) @@ (b :> Absent),
                  (a :> x) @@ (b :> x)}
=============================================================================

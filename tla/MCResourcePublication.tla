----------------------- MODULE MCResourcePublication -----------------------
(* ResourcePublication on a small instance; one bill. *)
EXTENDS ResourcePublication, TLC
=============================================================================

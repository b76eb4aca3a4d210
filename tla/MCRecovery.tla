----------------------------- MODULE MCRecovery -----------------------------
(* Recovery with the Core State and the reconciliation store.              *)
EXTENDS Recovery
CONSTANTS core, reconciliation
=============================================================================

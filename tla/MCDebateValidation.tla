-------------------------- MODULE MCDebateValidation --------------------------
(* DebateValidation on every small document and three states of the owners.   *)
EXTENDS DebateValidation, MCDebateDocuments
=============================================================================

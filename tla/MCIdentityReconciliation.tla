--------------------- MODULE MCIdentityReconciliation ---------------------
(* IdentityReconciliation, once for each kind, with two entities and two   *)
(* identifiers, which are interchangeable.  A candidate is clear of        *)
(* contradictions or contradicted by its type; a lookup that returns both  *)
(* for one identifier is malformed.                                        *)
EXTENDS IdentityReconciliation, TLC
CONSTANTS e1, e2, q1, q2, page

Plain(q) ==
  [qid |-> q, methods |-> {"exact-label"}, labels |-> {"own"}, matched |-> {"own"},
   types |-> {"party", "body"}, jurisdictions |-> {"Q27"}, relations |-> {"P361"},
   descriptions |-> {"plain"}, negative |-> {}]
MCCandidates == {Plain(q) : q \in Qid} \cup {[Plain(q) EXCEPT !.types = {"party", "page"}] : q \in Qid}
Interchangeable == Permutations(Qid) \cup Permutations(Entity)
=============================================================================

---------------------------- MODULE OwnerLedger -----------------------------
(***************************************************************************)
(* What the shared graphs promise: each has at most one candidate, which   *)
(* is published before another is staged, and an owner graph never stops   *)
(* describing an owner it has described.                                   *)
(***************************************************************************)
CONSTANTS Graph, Shared, Owner, Content, Absent

VARIABLES
  published,  \* payload of each graph
  pending     \* the candidate of each graph, a set of at most one payload

Payload == [Owner -> Content \cup {Absent}]
Described(p) == {o \in Owner : p[o] # Absent}

Init == /\ published = [g \in Graph |-> [o \in Owner |-> Absent]]
        /\ pending = [g \in Graph |-> {}]

Stage(g, p) ==
  /\ pending[g] = {}
  /\ g \in Shared => Described(published[g]) \subseteq Described(p)
  /\ pending' = [pending EXCEPT ![g] = {p}]
  /\ UNCHANGED published

Publish(g, p) ==
  /\ p \in pending[g]
  /\ published' = [published EXCEPT ![g] = p]
  /\ pending' = [pending EXCEPT ![g] = {}]

Next == \E g \in Graph, p \in Payload : Stage(g, p) \/ Publish(g, p)

Spec == Init /\ [][Next]_<<published, pending>>
=============================================================================

--------------------------- MODULE DebateValidation ---------------------------
(***************************************************************************)
(* One document on its way into the batch: it is transformed against the   *)
(* published owners, and its rows and edges are validated against the      *)
(* document and the owners.  The validator is there for a transform that   *)
(* goes wrong: a step may lose or alter one row or one edge in between.    *)
(***************************************************************************)
EXTENDS DebateReferences

CONSTANTS
  Documents,
  OwnerSets    \* published owners: Members, terms and their Houses, committees and their terms

\* The documents are elements of finite trees, in which an element is inside one
\* child of another at most.
ASSUME DocumentsAreTrees ==
  \A d \in Documents :
    /\ IsFiniteSet(d.nodes) /\ None \notin d.nodes
    /\ \A n \in d.nodes : \A g, h \in Above(d)[n] : d.parent[g] = d.parent[h] => g = h
    /\ IsFiniteSet(d.votings) /\ IsFiniteSet(DOMAIN d.authors)

\* Votings and counts are told apart by their place, and what is no reference is
\* no eId.
ASSUME PlacesAreApart ==
  \A d \in Documents :
    /\ {"absent", "malformed", "#"} \cap DOMAIN d.ids = {}
    /\ \A v, w \in d.votings :
         /\ v.id = w.id => v = w
         /\ \A c \in v.counts, e \in w.counts : c.id = e.id => v = w /\ c = e

\* No owner is called like the absence of one, and no committee like a House.
ASSUME OwnersAreApart ==
  \A o \in OwnerSets :
    /\ {None, "absent"} \cap o.members = {}
    /\ None \notin (DOMAIN o.terms) \cup (DOMAIN o.committees)
    /\ (DOMAIN o.committees) \cap (Chambers \cup o.houses) = {}

VARIABLES doc, owners, rows, edges, stage, altered

validationVars == <<doc, owners, rows, edges, stage, altered>>

ValidationInit ==
  /\ doc \in Documents /\ owners \in OwnerSets
  /\ rows = {} /\ edges = {} /\ stage = "source" /\ altered = FALSE

Transform ==
  /\ stage = "source"
  /\ stage' = IF TransformFails(doc) THEN "failed" ELSE "transformed"
  /\ rows' = Report(doc, owners)
  /\ edges' = IF TransformFails(doc) THEN {} ELSE Emitted(doc, owners)
  /\ UNCHANGED <<doc, owners, altered>>

Alter(rowsLeft, edgesLeft) ==
  /\ stage = "transformed" /\ ~altered
  /\ rows' = rowsLeft /\ edges' = edgesLeft /\ altered' = TRUE
  /\ UNCHANGED <<doc, owners, stage>>

\* The row r with another status and target.
Misreported(r, s, t) ==
  [ReferenceRow(r.slot, r.node, r.about, r.raw, s, t) EXCEPT !.value = r.value]

LoseRow == \E r \in rows : Alter(rows \ {r}, edges)
LoseEdge == \E e \in edges : Alter(rows, edges \ {e})
Misreport ==
  \E r \in rows, s \in {"resolved", "unresolved", "absent", "malformed"} :
    \E t \in IF s = "resolved" THEN (owners.members \cup {r.target}) \ {None} ELSE {None} :
      /\ <<s, t>> # <<r.status, r.target>>
      /\ Alter((rows \ {r}) \cup {Misreported(r, s, t)}, edges)

Validate ==
  /\ stage = "transformed"
  /\ stage' = IF Validates(doc, owners, rows, edges) THEN "accepted" ELSE "refused"
  /\ UNCHANGED <<doc, owners, rows, edges, altered>>

ValidationNext == Transform \/ LoseRow \/ LoseEdge \/ Misreport \/ Validate

ValidationSpec == ValidationInit /\ [][ValidationNext]_validationVars

----------------------------------------------------------------------------
\* Properties

\* A known Member votes on two sides of a division.
VotesTwice ==
  \E b, c \in Ballots(doc) :
    /\ b[1] = c[1] /\ doc.kind[b[2]] # doc.kind[c[2]]
    /\ LET x == BallotRow(doc, owners, b)
       IN x.target # None /\ x.target = BallotRow(doc, owners, c).target

ResultsDiffer ==
  \E v, w \in doc.votings :
    /\ JoinOf(doc, v) # None /\ JoinOf(doc, v) = JoinOf(doc, w)
    /\ v.outcome # w.outcome /\ {v.outcome, w.outcome} \subseteq Outcomes

CountIsNegative == \E c \in Counts(doc) : c[3] = "negative"

\* The body or term that the only author names is not (or not yet) published with
\* its House.
HostIsUnpublished ==
  /\ Cardinality(DOMAIN doc.authors) = 1
  /\ \E a \in DOMAIN doc.authors :
       LET by == doc.authors[a] body == BodyOf(doc, owners, by)
       IN \/ by.shape = "generic" /\ body \notin owners.houses \cup {None}
          \/ by.shape = "term" /\ by.key \in DOMAIN owners.terms /\ ~TermIsOwned(owners, by.key)
          \/ by.shape = "committee" /\ body # None /\ ~TermIsOwned(owners, owners.committees[body])

Contested == VotesTwice \/ ResultsDiffer \/ CountIsNegative \/ HostIsUnpublished

\* The transform and the validator read a document independently and agree on
\* it: whatever its references (missing, malformed, placeholders, unknown,
\* inside a roll call or nested divisions) and whichever owners are published,
\* a document that transforms is refused only if it is contested.
RefusedIsContested ==
  stage \in {"accepted", "refused"} /\ ~altered => (stage = "refused") = Contested

\* Nothing of a transformation is lost or altered unnoticed: without one of
\* its rows, with another status or target in one, or without one of its edges the
\* validator refuses it.  The one exception: where a division lists two votes on
\* one side, and the one names the Member that the other names or is now said to
\* name, one edge stands for both; what it says of them is right all the same.
AlteredIsRefused ==
  altered /\ stage = "accepted" =>
    /\ edges = Emitted(doc, owners)
    /\ \E b, c \in Ballots(doc), r \in rows :
         LET voted == BallotRow(doc, owners, b)
         IN /\ b # c /\ b[1] = c[1] /\ doc.kind[b[2]] = doc.kind[c[2]]
            /\ r # voted /\ Key(r) = Key(voted) /\ r.about = b[1]
            /\ rows = (Report(doc, owners) \ {voted}) \cup {r}
            /\ BallotRow(doc, owners, c).target \in {voted.target, r.target} \ {None}
=============================================================================

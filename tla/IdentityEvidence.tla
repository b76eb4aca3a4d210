--------------------------- MODULE IdentityEvidence ---------------------------
(***************************************************************************)
(* What `resolve`, `resolve_party`, `resolve_institution` and              *)
(* `resolve_office` make of one entity, given the human decision on it,    *)
(* its previous row and what Wikidata and DBpedia answer: an accepted      *)
(* identity with its links, a rejection, or a case for a reviewer.         *)
(*                                                                         *)
(* A candidate holds what the weighing looks at, as seen from the entity   *)
(* it is looked up for: "own" is a label or a documented seed of that      *)
(* entity, "numbered" the label of one term when it is a House.            *)
(***************************************************************************)
CONSTANTS
  Qid,         \* Wikidata identifiers
  Page,        \* English Wikipedia articles
  Resource,    \* DBpedia persons
  Candidates,  \* what a candidate lookup may return
  Nothing,     \* NULL columns, an empty graph, no decision
  Rejected     \* the review decision that there is no external identity

Kinds == {"member", "party", "institution", "office"}

\* An accepted decision names the item and, for an institution, its article.
Acceptance == [qid : Qid, page : Page \cup {Nothing}]
Decision == Acceptance \cup {Nothing, Rejected}
DecisionsOn(kind) == {d \in Decision : d \in Acceptance /\ kind # "institution" => d.page = Nothing}

Links == [qid : Qid, wikipedia : Page \cup {Nothing}, dbpedia : Resource \cup {Nothing}] \cup {Nothing}

ASSUME ValuesAreDistinct == Nothing \notin Acceptance /\ Rejected \notin Acceptance \cup {Nothing}
ASSUME NothingIsNoLink ==
  /\ Nothing \notin [qid : Qid, wikipedia : Page \cup {Nothing}, dbpedia : Resource \cup {Nothing}]
  /\ Nothing \notin Page \cup Resource

----------------------------------------------------------------------------
\* Candidates

Type == {"party", "body", "page", "term", "person"}
Jurisdiction == {"Q27", "abroad"}
Relation == {"P361", "P527", "P749", "P1365", "P1366"}
Description == {"plain", "predecessor", "successor"}
Label == {"own", "numbered", "other"}
Method == {"exact-label", "own-seed", "foreign-seed"}

\* A contradiction: a reason and the fact of the candidate it rests on.
Against(reasons, facts) == [reason : reasons, of : facts]

\* The contradictions a candidate may bring along.
Allowed(kind) ==
  IF kind = "institution"
  THEN Against({"wrong-entity-level", "wrong-temporal-level", "house-term-mismatch"}, Type \cup Label)
         \cup Against({"historical-predecessor"}, Type \cup Relation \cup Label \cup Description)
         \cup Against({"wrong-jurisdiction"}, Jurisdiction)
         \cup Against({"succession-contradiction"}, {"P1365", "P1366"} \cup Description)
         \cup Against({"wrong-organisational-context"}, {"P361", "P527", "P749"})
  ELSE Against({"wrong-entity-level"}, Type \cup Label)
         \cup Against({"wrong-jurisdiction"}, Jurisdiction)
         \cup Against({"historical-successor"}, {"P1365"} \cup Description)
         \cup Against({"historical-predecessor"}, {"P1366"} \cup Description)

Candidate == [qid : Qid, methods : SUBSET Method, labels : SUBSET Label, matched : SUBSET Label,
              types : SUBSET Type, jurisdictions : SUBSET Jurisdiction, relations : SUBSET Relation,
              descriptions : SUBSET Description,
              negative : SUBSET (Allowed("institution") \cup Allowed("office"))]

ASSUME CandidatesAreCandidates == Candidates \subseteq Candidate

Facts(c) == c.types \cup c.jurisdictions \cup c.relations \cup c.descriptions \cup c.labels

\* A contradiction that is brought along must be of its kind and in evidence.
Grounded(kind, c) == c.negative \subseteq Allowed(kind) /\ \A n \in c.negative : n.of \in Facts(c)

\* What a lookup returned is used only if every candidate is well formed.
WellFormed(kind, c) ==
  /\ c.matched \subseteq {"own"}
  /\ \/ kind = "party" /\ "party" \in c.types /\ "Q27" \in c.jurisdictions
     \/ kind = "institution" /\ c.methods # {} /\ "foreign-seed" \notin c.methods /\ Grounded(kind, c)
     \/ kind = "office" /\ c.methods = {"exact-label"} /\ Grounded(kind, c)
  /\ kind # "institution" \/ "exact-label" \in c.methods => c.matched # {} /\ c.matched \subseteq c.labels

Usable(kind, found) ==
  /\ \A c \in found : WellFormed(kind, c)
  /\ \A c, d \in found : c.qid = d.qid => c = d

\* Facts that contradict the identity wherever they are in evidence.
Signs(kind) ==
  IF kind = "institution"
  THEN Against({"wrong-entity-level"}, {"page"}) \cup Against({"wrong-temporal-level"}, {"term"})
         \cup Against({"historical-predecessor"}, {"predecessor"})
         \cup Against({"succession-contradiction"}, {"successor", "P1366"})
         \cup Against({"house-term-mismatch"}, {"numbered"})
  ELSE Against({"wrong-entity-level"}, {"page", "person"})

Contradictions(kind, c) ==
  IF kind = "party" THEN {}
  ELSE c.negative
         \cup {s \in Signs(kind) : s.of \in Facts(c)}
         \cup Against({"wrong-jurisdiction"}, IF "Q27" \in c.jurisdictions THEN {} ELSE c.jurisdictions)

\* The client weighs a candidate before resolve does.
Weighed(kind, c) == [c EXCEPT !.negative = Contradictions(kind, c)]

Eligible(kind, found) == {c \in found : Contradictions(kind, c) = {}}
Several(S) == \E x, y \in S : x # y

\* No candidate is ever accepted: one or none is pending, several are ambiguous.
Weigh(kind, found) ==
  IF Usable(kind, found) /\ Several(Eligible(kind, found)) THEN "ambiguous" ELSE "pending"

----------------------------------------------------------------------------
\* The links of an accepted identity

\* Only one person with exactly this identity is linked; an outage gives none.
Persons == {IF \E x \in people : people = {x} THEN CHOOSE x \in people : TRUE ELSE Nothing :
              people \in SUBSET Resource}

Identified(q, wikipedia, dbpedia) == [qid |-> q, wikipedia |-> wikipedia, dbpedia |-> dbpedia]

SameIdentity(previous, q) ==
  previous # Nothing /\ previous.state = "accepted" /\ previous.links.qid = q

\* verified: Wikidata confirms that the accepted item still exists.  While it
\* does not, the links recorded with the same identity are kept.
MemberLinks(q, previous, verified) ==
  IF verified THEN {Identified(q, s, d) : s \in Page \cup {Nothing}, d \in Persons}
  ELSE IF SameIdentity(previous, q) THEN {previous.links}
  ELSE {Identified(q, Nothing, d) : d \in Persons}

\* The article of an institution is linked only if the review asked for the one
\* that Wikidata names; decided is the decision its previous row was made under.
InstitutionLinks(decision, previous, decided, verified) ==
  IF verified
  THEN {Identified(decision.qid, IF s = decision.page THEN s ELSE Nothing, Nothing) :
          s \in Page \cup {Nothing}}
  ELSE {Identified(decision.qid,
                   IF SameIdentity(previous, decision.qid) /\ decided = decision
                   THEN previous.links.wikipedia ELSE Nothing, Nothing)}

Accepted(links) == [state |-> "accepted", links |-> links]
Without(state) == [state |-> state, links |-> Nothing]

Acceptances(kind, decision, previous, decided, verified) ==
  {Accepted(links) : links \in
     CASE kind = "member" -> MemberLinks(decision.qid, previous, verified)
       [] kind = "institution" -> InstitutionLinks(decision, previous, decided, verified)
       [] OTHER -> {Identified(decision.qid, Nothing, Nothing)}}

\* The exact lookup of a memberCode.
ByCode(found, previous, verified) ==
  IF \E q \in found : found = {q}
  THEN {Accepted(links) : links \in MemberLinks(CHOOSE q \in found : TRUE, previous, verified)}
  ELSE {Without(IF found = {} THEN "pending" ELSE "ambiguous")}

\* Mutant: a candidate that nothing contradicts is accepted.
OutcomesWithoutHumans(kind, decision, previous, decided, verified) ==
  CASE decision = Rejected -> {Without("rejected")}
    [] decision \in Acceptance -> Acceptances(kind, decision, previous, decided, verified)
    [] OTHER -> UNION {ByCode({c.qid : c \in Eligible(kind, found)}, previous, verified) :
                         found \in SUBSET Candidates}

\* A decision overrides the lookup; without one only a Member's can accept.
Outcomes(kind, decision, previous, decided, verified) ==
  CASE decision = Rejected -> {Without("rejected")}
    [] decision \in Acceptance -> Acceptances(kind, decision, previous, decided, verified)
    [] OTHER -> IF kind = "member"
                THEN UNION {ByCode(found, previous, verified) : found \in SUBSET Qid}
                ELSE {Without(Weigh(kind, found)) : found \in SUBSET Candidates}

\* The decision the evidence goes on naming when a review no longer makes it:
\* a Party's last rejection, the last decision on an institution or an office.
Remembered(kind, previous, decided) ==
  IF kind = "member" \/ previous = Nothing THEN Nothing
  ELSE IF decided \in (IF kind = "party" THEN {Rejected} ELSE Decision \ {Nothing}) THEN decided
  ELSE previous.remembered
=============================================================================

--------------------------- MODULE DebateReferences ---------------------------
(***************************************************************************)
(* What a debate refers to.  The transform turns every reference of an AKN *)
(* document (speakers, questioners, votes, results, hosts) into a row of   *)
(* its reference report and, where one existing owner answers to it, into  *)
(* an edge of the Work's graph.  The integration validator reads the same  *)
(* document on its own, decides which rows there must be and which status  *)
(* each may have, derives the edges from the rows, and checks every link   *)
(* against the owner graphs.                                               *)
(*                                                                         *)
(* A document is the elements of its body (kind, parent, attributes), the  *)
(* eIds of the whole file, the votings of its analysis, its authors and    *)
(* the venue of its Work.  An attribute is "absent", "#", "malformed", or  *)
(* the eId it names; "#ta", "#carried" and the like are eIds as well.      *)
(***************************************************************************)
EXTENDS Integers, FiniteSets

None == "none"
Sections == {"section", "division", "ta", "nil", "staon"}
Groups == {"ta", "nil", "staon"}
Addressables == Sections \cup {"speech", "question", "summary"}
Chambers == {"dail", "seanad"}

\* _local_fragment
Shape(raw) ==
  IF raw \in {"absent", "malformed"} THEN raw ELSE IF raw = "#" THEN "placeholder" ELSE "valid"

Above(doc) ==
  LET f[n \in doc.nodes] ==
        IF doc.parent[n] = "body" THEN {} ELSE {doc.parent[n]} \cup f[doc.parent[n]]
  IN f

OfKind(doc, kinds) == {n \in doc.nodes : doc.kind[n] \in kinds}

\* What is inside a roll call is attendance, not debate.
Mapped(doc) ==
  {n \in OfKind(doc, Addressables) : Above(doc)[n] \cap OfKind(doc, {"rollCall"}) = {}}

\* A row names its place in the source (node), the resource it is about and, for
\* an aggregate count, the value the source states.
ReferenceRow(slot, node, about, raw, status, target) ==
  [slot |-> slot, node |-> node, about |-> about, raw |-> raw, status |-> status,
   target |-> target, value |-> "absent"]

----------------------------------------------------------------------------
\* The transform

\* A reference whose resolution is deferred.
Deferred(slot, node, about, raw) ==
  ReferenceRow(slot, node, about, raw, IF Shape(raw) \in {"absent", "malformed"} THEN Shape(raw) ELSE "unresolved", None)

\* resolve_person_reference: the eId of a TLCPerson whose href names a Member.
PersonRow(doc, owners, slot, node, about, raw) ==
  IF /\ raw \in DOMAIN doc.ids
     /\ doc.ids[raw].kind = "TLCPerson" /\ doc.ids[raw].href \in owners.members
  THEN ReferenceRow(slot, node, about, raw, "resolved", doc.ids[raw].href)
  ELSE Deferred(slot, node, about, raw)

BodyRows(doc, owners) ==
  LET mapped(kinds) == Mapped(doc) \cap OfKind(doc, kinds)
  IN {PersonRow(doc, owners, "speaker", n, n, doc.attr[n].by) : n \in mapped({"speech"})}
     \cup {Deferred("role", n, n, doc.attr[n].as) : n \in mapped({"speech"})}
     \cup {PersonRow(doc, owners, "askedBy", n, n, doc.attr[n].by) : n \in mapped({"question"})}
     \cup {Deferred("directedTo", n, n, doc.attr[n].to) : n \in mapped({"question"})}
     \cup {Deferred("event", n, n, doc.attr[n].refersTo) : n \in mapped(Sections)}

\* The persons anywhere below a group that is a child of a division.
Ballots(doc) ==
  {b \in (Mapped(doc) \cap OfKind(doc, {"division"})) \X OfKind(doc, Groups)
                 \X OfKind(doc, {"person"}) :
     doc.parent[b[2]] = b[1] /\ b[2] \in Above(doc)[b[3]]}

BallotRow(doc, owners, b) == 
  PersonRow(doc, owners, doc.kind[b[2]], b[3], b[1], doc.attr[b[3]].refersTo)

Divisions(doc, n) == Above(doc)[n] \cap OfKind(doc, {"division"})

\* The division of the result summary a voting names, if there is one.
JoinOf(doc, v) ==
  IF /\ v.href \in DOMAIN doc.ids
     /\ doc.ids[v.href].kind = "summary" /\ doc.ids[v.href].at \in Mapped(doc)
     /\ Cardinality(Divisions(doc, doc.ids[v.href].at)) = 1
  THEN CHOOSE d \in Divisions(doc, doc.ids[v.href].at) : TRUE
  ELSE None

Outcomes == {"#carried", "#lost"}
CountKinds == {"#ta", "#nil", "#staon"}

\* A row of a voting resolves with its join, if what it says is known.
Joined(doc, v, slot, node, raw, known) ==
  LET join == JoinOf(doc, v)
      about == IF join = None THEN "expression" ELSE join
  IN IF raw \in known /\ join # None THEN ReferenceRow(slot, node, about, raw, "resolved", join)
     ELSE Deferred(slot, node, about, raw)

VotingRows(doc, v) ==
  {Joined(doc, v, "result", v.id, v.href, {v.href}),
   Joined(doc, v, "outcome", v.id, v.outcome, Outcomes),
   Joined(doc, v, "proposal", v.id, v.refersTo, {})}
  \cup {[Joined(doc, v, "count", c.id, c.kind, CountKinds) EXCEPT !.value = c.value] : c \in v.counts}

\* Hosts: the numbered HouseTerm of the author, and the House or committee.
TermRow(doc, owners, a) ==
  LET by == doc.authors[a]
      status == CASE by.shape = "absent" -> "absent"
                  [] by.shape = "malformed" /\ Cardinality(DOMAIN doc.authors) = 1 -> "malformed"
                  [] by.shape = "term" /\ Cardinality(DOMAIN doc.authors) = 1
                       /\ by.key \in DOMAIN owners.terms -> "resolved"
                  [] OTHER -> "unresolved"
  IN ReferenceRow("term", a, "work", by.shape, status, IF status = "resolved" THEN by.key ELSE None)

BodyOf(doc, owners, by) ==
  CASE by.shape = "generic" /\ doc.venue \in Chambers -> doc.venue
    [] by.shape = "committee" /\ by.key \in DOMAIN owners.committees -> by.key
    [] /\ by.shape = "term" /\ by.key \in DOMAIN owners.terms
       /\ doc.venue \in Chambers /\ owners.terms[by.key] = doc.venue -> doc.venue
    [] OTHER -> None

BodyRow(doc, owners, a) ==
  LET by == doc.authors[a]
      body == IF Cardinality(DOMAIN doc.authors) = 1 THEN BodyOf(doc, owners, by) ELSE None
  IN ReferenceRow("body", a, "work", by.shape,
         IF by.shape = "absent" THEN "absent" ELSE IF body # None THEN "resolved" ELSE "unresolved",
         body)

Report(doc, owners) ==
  BodyRows(doc, owners) \cup {BallotRow(doc, owners, b) : b \in Ballots(doc)}
  \cup (UNION {VotingRows(doc, v) : v \in doc.votings})
  \cup {TermRow(doc, owners, a) : a \in DOMAIN doc.authors}
  \cup {BodyRow(doc, owners, a) : a \in DOMAIN doc.authors}

\* The aggregate counts a voting states of its division.
Counts(doc) ==
  UNION {{<<JoinOf(doc, v), c.kind, c.value>> :
            c \in {x \in v.counts : x.kind \in CountKinds /\ x.value # "absent"}} :
         v \in {x \in doc.votings : JoinOf(doc, x) # None}}

\* DebateTransformError
TransformFails(doc) ==
  \/ \E c \in Counts(doc) : c[3] = "malformed"
  \/ \E c, e \in Counts(doc) : c[1] = e[1] /\ c[2] = e[2] /\ c[3] # e[3]

Emitted(doc, owners) ==
  LET found(rows) == {r \in rows : r.status = "resolved"}
      body == found(BodyRows(doc, owners))
  IN {<<r.node, r.slot, r.target>> : r \in body}
     \cup {<<r.node, "participant", r.target>> : r \in {x \in body : x.slot = "speaker"}}
     \cup (UNION {{<<b[1], r.slot, r.target>> : r \in found({BallotRow(doc, owners, b)})} :
                   b \in Ballots(doc)})
     \cup {<<JoinOf(doc, v), "outcome", v.outcome>> :
             v \in {x \in doc.votings : JoinOf(doc, x) # None /\ x.outcome \in Outcomes}}
     \cup Counts(doc)
     \cup (UNION {{<<"work", r.slot, r.target>> :
                     r \in found({TermRow(doc, owners, a), BodyRow(doc, owners, a)})} :
                   a \in DOMAIN doc.authors})

----------------------------------------------------------------------------
\* The validator's own reading of the document

\* An occurrence of a reference: where it is read from tells two of one key apart.
Item(slot, node, raw, statuses) ==
  [key |-> <<slot, node, raw>>, within |-> node, statuses |-> statuses]

SourceStatuses(raw, found) ==
  CASE Shape(raw) = "absent" -> {"absent"} [] Shape(raw) = "malformed" -> {"malformed"}
    [] Shape(raw) = "placeholder" -> {"unresolved"} [] OTHER -> found

\* Whether a Member answers to a TLCPerson is the resolver's to say.
PersonStatuses(doc, raw) ==
  SourceStatuses(raw,
    IF /\ raw \in DOMAIN doc.ids
       /\ doc.ids[raw].kind = "TLCPerson" /\ doc.ids[raw].href # "absent"
    THEN {"resolved", "unresolved"} ELSE {"unresolved"})

\* Mutant: a summary inside nested divisions joins the nearest of them.
ResultIsJoinedToNearest(doc, v) ==
  /\ v.href \in DOMAIN doc.ids
  /\ doc.ids[v.href].kind = "summary" /\ doc.ids[v.href].at \in Mapped(doc)
  /\ Divisions(doc, doc.ids[v.href].at) # {}

\* voting_join_status
ResultIsJoined(doc, v) ==
  /\ v.href \in DOMAIN doc.ids
  /\ doc.ids[v.href].kind = "summary" /\ doc.ids[v.href].at \in Mapped(doc)
  /\ \E d \in doc.nodes : Divisions(doc, doc.ids[v.href].at) = {d}

JoinStatuses(doc, v, raw, known) ==
  SourceStatuses(raw, IF raw \in known /\ ResultIsJoined(doc, v) THEN {"resolved"} ELSE {"unresolved"})

AuthorItems(doc, a) ==
  LET shape == doc.authors[a].shape
      alone == Cardinality(DOMAIN doc.authors) <= 1
      term == CASE shape = "absent" -> {"absent"}
                [] shape = "malformed" /\ alone -> {"malformed"}
                [] shape = "term" /\ alone -> {"resolved", "unresolved"}
                [] OTHER -> {"unresolved"}
      body == IF shape = "absent" THEN {"absent"} ELSE {"resolved", "unresolved"}
  IN {Item("term", a, shape, term), Item("body", a, shape, body)}

BodyItems(doc, n) ==
  LET at == doc.attr[n]
  IN CASE doc.kind[n] = "speech" ->
            {Item("speaker", n, at.by, PersonStatuses(doc, at.by)),
             Item("role", n, at.as, SourceStatuses(at.as, {"unresolved"}))}
       [] doc.kind[n] = "question" ->
            {Item("askedBy", n, at.by, PersonStatuses(doc, at.by)),
             Item("directedTo", n, at.to, SourceStatuses(at.to, {"unresolved"}))}
       [] doc.kind[n] \in Sections ->
            {Item("event", n, at.refersTo, SourceStatuses(at.refersTo, {"unresolved"}))}
       [] OTHER -> {}

\* In nested divisions a person votes once in each.
VoteItem(doc, g, p) ==
  [Item(doc.kind[g], p, doc.attr[p].refersTo, PersonStatuses(doc, doc.attr[p].refersTo))
     EXCEPT !.within = g]

VoteItems(doc) ==
  {VoteItem(doc, x[1], x[2]) :
     x \in {y \in OfKind(doc, Groups) \X OfKind(doc, {"person"}) :
              /\ y[1] \in Above(doc)[y[2]]
              /\ doc.parent[y[1]] \in Mapped(doc) \cap OfKind(doc, {"division"})}}

VotingItems(doc, v) ==
  {Item("result", v.id, v.href, JoinStatuses(doc, v, v.href, {v.href})),
   Item("outcome", v.id, v.outcome, JoinStatuses(doc, v, v.outcome, Outcomes)),
   Item("proposal", v.id, v.refersTo, SourceStatuses(v.refersTo, {"unresolved"}))}
  \cup {Item("count", c.id, c.kind, JoinStatuses(doc, v, c.kind, CountKinds)) : c \in v.counts}

\* _source_inventory
Inventory(doc) ==
  (UNION {BodyItems(doc, n) : n \in Mapped(doc)}) \cup VoteItems(doc)
  \cup (UNION {AuthorItems(doc, a) : a \in DOMAIN doc.authors})
  \cup (UNION {VotingItems(doc, v) : v \in doc.votings})

\* _validate_report
ReportIsCoherent(rows) ==
  \A r \in rows : /\ (r.status = "resolved") = (r.target # None)
                  /\ (r.status = "absent") = (r.raw = "absent")

\* Mutant: the rows that are there are checked, not those that are missing.
InventoryIsNotExceeded(doc, rows) ==
  \A r \in rows : \E i \in Inventory(doc) :
    i.key = <<r.slot, r.node, r.raw>> /\ r.status \in i.statuses

Key(r) == <<r.slot, r.node, r.raw>>

\* _validate_source_inventory: each key as often in the report as in the source.
InventoryIsCovered(doc, rows) ==
  LET items(k) == {i \in Inventory(doc) : i.key = k}
      reported(k) == {r \in rows : Key(r) = k}
  IN /\ \A k \in {Key(r) : r \in rows} \cup {i.key : i \in Inventory(doc)} :
          Cardinality(reported(k)) = Cardinality(items(k))
     /\ \A r \in rows : \E i \in items(Key(r)) : r.status \in i.statuses

Deferrals == {"role", "directedTo", "event", "proposal"}

\* _expected_report_edges
ExpectedEdges(rows) ==
  UNION {CASE r.slot = "speaker" ->
                {<<r.about, "speaker", r.target>>, <<r.about, "participant", r.target>>}
           [] r.slot = "outcome" -> {<<r.target, "outcome", r.raw>>}
           [] r.slot = "count" ->
                IF r.value = "absent" THEN {} ELSE {<<r.target, r.raw, r.value>>}
           [] r.slot = "result" -> {}
           [] OTHER -> {<<r.about, r.slot, r.target>>} : r \in {x \in rows : x.status = "resolved"}}

EdgesMatchReport(rows, edges) ==
  /\ \A r \in rows : r.status = "resolved" =>
       /\ r.slot \notin Deferrals
       /\ r.slot \in {"result", "outcome", "count"} => r.about = r.target
       /\ r.slot = "count" => r.value # "negative"
  /\ ExpectedEdges(rows) = edges

Objects(edges, names) == {e[3] : e \in {x \in edges : x[2] \in names}}

TermIsOwned(owners, t) == t \in DOMAIN owners.terms /\ owners.terms[t] \in owners.houses

LinksAreOwned(owners, edges) ==
  /\ Objects(edges, {"speaker", "participant", "askedBy"} \cup Groups) \subseteq owners.members
  /\ \A t \in Objects(edges, {"term"}) : TermIsOwned(owners, t)
  /\ \A b \in Objects(edges, {"body"}) :
       \/ /\ b \in owners.houses \ DOMAIN owners.committees
          /\ \A t \in Objects(edges, {"term"}) : owners.terms[t] = b
       \/ /\ b \in DOMAIN owners.committees \ owners.houses
          /\ TermIsOwned(owners, owners.committees[b])
          /\ Objects(edges, {"term"}) \subseteq {owners.committees[b]}

\* At most one outcome of a division (debates-integration.ttl), and no Member
\* in two of its groups.
VotesAreConsistent(edges) ==
  \A x, y \in edges :
    /\ x[1] = y[1] /\ x[2] = "outcome" /\ y[2] = "outcome" => x = y
    /\ x[1] = y[1] /\ {x[2], y[2]} \subseteq Groups /\ x[3] = y[3] => x = y

Validates(doc, owners, rows, edges) ==
  /\ LinksAreOwned(owners, edges)
  /\ ReportIsCoherent(rows) /\ EdgesMatchReport(rows, edges)
  /\ InventoryIsCovered(doc, rows)
  /\ VotesAreConsistent(edges)

=============================================================================

---------------------------- MODULE PartyQuestions -----------------------------
(***************************************************************************)
(* Composed questions about Members and parties over time: the Members of a *)
(* party for a constituency ("party"), the parties of its Members           *)
(* ("parties"), the Members of a party in a whole term ("term_party"), and  *)
(* the Members of a party who shared a constituency with a named Member     *)
(* while that Member held an office ("during_office").  A membership, an    *)
(* episode of party membership within it and, for the last, the anchor's    *)
(* membership and holding must all overlap.                                *)
(***************************************************************************)
EXTENDS QuestionService

CONSTANT Aliases   \* the reviewed register: the names of each party identity

FirstOfParties(kind) == IF kind = "during_office" THEN "member" ELSE "term"

House == IF Kind = "term_party" THEN q.question.house ELSE "dail"

ResolvePartyTerm ==
  /\ q.at = "term" /\ q.family = "parties"
  /\ ResolveTerm("term", House, q.question.number, IF Kind = "term_party" THEN "party" ELSE "place")
  /\ Read

\* One constituency, or one after another of a set of two to four, each with
\* a query of its own; two of them may not be the same.
ResolvePartyPlace ==
  /\ q.at = "place" /\ q.family = "parties"
  /\ LET name == CHOOSE n \in q.question.places \ q.left : TRUE
         listed == {p \in store.places : p.term = q.ids["term"]}
         r == Resolved({<<p.place, p.label>> : p \in listed}, "place",
                       {p.place : p \in {x \in listed : x.label = name}}, "not_found")
         places == (IF q.left = {} THEN {} ELSE q.ids["place"]) \cup {r.ids["place"]}
         named == q.left \cup {name}
         next == IF Kind = "party" THEN "party" ELSE "evidence"
     IN q' = CASE r.refusals # {} -> Settled(r, next)
               [] r.refusals = {} /\ named # q.question.places -> [r EXCEPT !.ids["place"] = places, !.left = named]
               [] OTHER -> IF Cardinality(places) < Cardinality(named) THEN Ended(r, "validation_failure")
                           ELSE [r EXCEPT !.ids["place"] = places, !.left = {}, !.at = next]
  /\ Read

----------------------------------------------------------------------------
\* The identity of the party, among the parties of a term

PartiesOf(in, term) == {p \in in.parties : p.term = term /\ \E t \in in.terms : t.term = term}

\* _resolve_term_scoped_affiliation: a party of that name without an identity
\* is a reason to refuse, even when another has it.
Affiliation(rows) ==
  LET named == {p.identity : p \in {x \in rows : x.identity # Nothing /\ q.question.identity \in Aliases[x.identity]}}
      unlinked == {p \in rows : p.identity = Nothing /\ p.name = q.question.identity}
  IN CASE Several(named) -> [identity |-> Nothing, status |-> "ambiguous"]
       [] ~Several(named) /\ unlinked # {} -> [identity |-> Nothing, status |-> "missing_identity_link"]
       [] named = {} /\ unlinked = {} -> [identity |-> Nothing, status |-> "source_data_unavailable"]
       [] OTHER -> [identity |-> The(named), status |-> "resolved"]

\* The pages of the identity query; all parties of a term fit the page range.
ResolveParty ==
  /\ q.at = "party"
  /\ LET rows == PartiesOf(store, q.ids["term"])
         resolved == Affiliation(rows)
     IN q' = IF resolved.status # "resolved" THEN Ended(q, resolved.status)
             ELSE [q EXCEPT !.ids["identity"] = resolved.identity,
                            !.left = {p.party : p \in {x \in rows : x.identity = resolved.identity}},
                            !.at = IF Kind = "term_party" THEN "listing" ELSE "evidence"]
  /\ Read

\* The parties of the whole term are listed again; those of the identity must be among them.
CheckListing ==
  /\ q.at = "listing"
  /\ LET selected == q.left \cap {p.party : p \in {x \in store.parties : x.term = q.ids["term"]}}
     IN q' = IF selected = {} THEN Ended(q, "source_data_unavailable")
             ELSE [q EXCEPT !.left = selected, !.at = "evidence"]
  /\ Read

----------------------------------------------------------------------------
\* The anchor of a question about an office

ResolveOfficeAnchor ==
  /\ q.at = "member" /\ Kind = "during_office"
  /\ ResolveMember("member", q.question.name, "office")
  /\ Read

ResolveAnchorOffice ==
  /\ q.at = "office" /\ Kind = "during_office"
  /\ LET rows == {<<o.office, o.label>> : o \in {x \in store.offices : x.label = q.question.office}}
     IN q' = Settled(Resolved(rows, "office", {r[1] : r \in rows}, "source_data_unavailable"), "holdings")
  /\ Read

AnchorHoldings(in) ==
  {h \in in.holdings : /\ h.member = q.ids["member"] /\ h.office = q.ids["office"]
                       /\ \E o \in in.offices : o.office = h.office}

\* The accepted holdings of the anchor must all be dated before anything else is read.
ReadHoldings ==
  /\ q.at = "holdings" /\ Kind = "during_office"
  /\ LET holdings == AnchorHoldings(store)
         periods(h) == {x.period : x \in {y \in holdings : y.holding = h.holding}}
     IN IF holdings # {} /\ Cardinality(holdings) < PageSize /\ \A h \in holdings : Certain(periods(h))
        THEN q' = [q EXCEPT !.at = "evidence"] ELSE End("source_data_unavailable")
  /\ Read

----------------------------------------------------------------------------
\* Evidence: one row for each combination of the paths and their ranges

InScope(in, m) ==
  /\ \E t \in in.terms : t.term = m.term /\ t.house = House
                         /\ q.question.number \in {Nothing, t.number}
  /\ Kind # "during_office" => m.term = q.ids["term"]
  /\ Kind \in {"party", "parties"} => m.place \in q.ids["place"]
  /\ Kind # "term_party" => \E p \in in.places : p.place = m.place /\ p.term = m.term

\* An episode of party membership belongs to one membership of its Member.
EpisodesOf(in, m) == {e \in in.episodes : e.member = m.member /\ e.of = m.membership}

NoAnchor == [ids |-> <<>>, periods |-> <<>>]

\* The anchor's membership of the same constituency and term, with a holding.
Anchors(in, m) ==
  IF Kind # "during_office" THEN {NoAnchor}
  ELSE {[ids |-> <<a.membership, h.holding>>, periods |-> <<a.period, h.period>>] :
          a \in {x \in in.members : /\ m.member # q.ids["member"] /\ x.member = q.ids["member"]
                                    /\ x.place = m.place /\ x.term = m.term},
          h \in AnchorHoldings(in)}

EvidencePaths(in) == UNION {{<<m, e>> : e \in EpisodesOf(in, m)} : m \in {x \in in.members : InScope(in, x)}}

\* The party of an episode in the term of the membership
EvidenceLinks(in) ==
  {x \in EvidencePaths(in) \X in.parties : /\ x[1][2].party = x[2].party /\ x[1][1].term = x[2].term
                                           /\ Kind = "term_party" => x[2].party \in q.left}

EvidenceRow(m, e, p, a) ==
  [member |-> m.member, name |-> m.name, term |-> m.term, party |-> p.party, identity |-> p.identity,
   place |-> IF Kind = "term_party" THEN Nothing ELSE m.place, anchor |-> a,
   membership |-> m.membership, during |-> m.period, episode |-> e.episode, in |-> e.period]

Evidence(in) == UNION {{EvidenceRow(x[1][1], x[1][2], x[2], a) : a \in Anchors(in, x[1][1])} : x \in EvidenceLinks(in)}

\* A term-wide selection is paged; the others have the cap of one query.
ReadEvidence ==
  /\ q.at = "evidence" /\ q.family = "parties"
  /\ IF Kind = "term_party" THEN ReadPage(Evidence(store), "evaluate")
     ELSE ReadAll(Evidence(store), IF Kind = "during_office" /\ Evidence(store) # {} THEN "terms" ELSE "evaluate")
  /\ Read

\* The terms in which the anchor represented and held the office at once.
AnchorTerms(rows) ==
  {r.term : r \in {x \in rows : ~Disjoint(x.anchor.periods[1], x.anchor.periods[2])}}

AnchorsCertain(rows) ==
  \A r \in rows, i \in {1, 2} :
    Certain({x.anchor.periods[i] : x \in {y \in rows : y.anchor.ids[i] = r.anchor.ids[i]}})

\* The party is resolved in each of those terms, with a query for each, and
\* must be the same identity in all of them.
ResolvePartyOfTerm ==
  /\ q.at = "terms"
  /\ LET terms == AnchorTerms(q.rows)
         resolved(t) == Affiliation(PartiesOf(store, t))
         next == CHOOSE t \in terms \ q.left : TRUE
     IN CASE ~AnchorsCertain(q.rows) \/ terms = {} -> End("source_data_unavailable")
          [] AnchorsCertain(q.rows) /\ terms # {} /\ terms \subseteq q.left -> q' = [q EXCEPT !.at = "evaluate"]
          [] OTHER ->
               q' = CASE resolved(next).status # "resolved" ->
                           Ended(q, IF resolved(next).status = "ambiguous" THEN "ambiguous" ELSE "source_data_unavailable")
                      [] resolved(next).status = "resolved"
                           /\ q.ids["identity"] \notin {Nothing, resolved(next).identity} -> Ended(q, "source_data_unavailable")
                      [] OTHER -> [q EXCEPT !.left = q.left \cup {next}, !.ids["identity"] = resolved(next).identity]
  /\ Read

\* _common_interval_intersection: the latest start is not after the first end.
Meeting(periods) == \A p, r \in periods : p.from <= r.to

\* _temporal_member_party_result: what is recorded of one path is put together;
\* with the current term both periods must hold today.
EvaluateOverlap ==
  /\ q.at = "evaluate" /\ q.family = "parties"
  /\ LET key(r) == <<r.member, r.membership, r.episode, r.party, r.anchor.ids,
                     IF Kind = "during_office" THEN <<r.place, r.term>> ELSE <<>>>>
         of(r) == {x \in q.rows : key(x) = key(r)}
         identities(r) == {x.identity : x \in of(r)} \ {Nothing}
         names(r) == {x.name : x \in of(r)} \ {Nothing}
         relevant == {r \in q.rows : Kind = "parties" \/ identities(r) = {} \/ q.ids["identity"] \in identities(r)}
         during(r) == {x.during : x \in {y \in q.rows : y.membership = r.membership}}
         within(r) == {x.in : x \in {y \in q.rows : y.episode = r.episode}}
         today(r) == q.question.number = Nothing /\ Kind # "during_office" =>
                       Covers(r.during, AsOf) /\ Covers(r.in, AsOf)
         meeting == {r \in relevant : today(r) /\ Meeting({r.during, r.in} \cup ToSet(r.anchor.periods))}
     IN CASE \E r \in relevant : ~Certain(during(r)) \/ ~Certain(within(r)) -> End("source_data_unavailable")
          [] \E r \in meeting : identities(r) = {} -> End("missing_identity_link")
          [] \/ meeting = {}
             \/ \E r \in meeting : Several(identities(r)) \/ Cardinality(names(r)) # 1
             \/ \E r, s \in meeting : r.member = s.member /\ names(r) # names(s) -> End("source_data_unavailable")
          [] OTHER -> Answer(IF Kind = "parties" THEN UNION {identities(r) : r \in meeting} ELSE {r.member : r \in meeting})
  /\ Read

PartyStep ==
  \/ ResolvePartyTerm \/ ResolvePartyPlace \/ ResolveParty \/ CheckListing
  \/ ResolveOfficeAnchor \/ ResolveAnchorOffice \/ ReadHoldings
  \/ ReadEvidence \/ ResolvePartyOfTerm \/ EvaluateOverlap

----------------------------------------------------------------------------
\* The Members (or party identities) that a store establishes, and those it
\* cannot exclude: an uncertain period may be any, a party without an identity any party.
PartiesMeant(in, certain) ==
  LET of(rows, same(_)) == {x.period : x \in {y \in rows : same(y)}}
      during(m) == of(in.members, LAMBDA y : y.membership = m.membership)
      within(e) == of(in.episodes, LAMBDA y : y.episode = e.episode)
      holding(h) == of(in.holdings, LAMBDA y : y.holding = h.holding)
      identities(e, m) == {p.identity : p \in {x \in in.parties : x.party = e.party /\ x.term = m.term}}
      known(e, m) == identities(e, m) \ {Nothing}
      said(e, m) == IF certain \/ known(e, m) # {} THEN known(e, m) ELSE identities(e, m)
      theirs(e, m) == IF certain THEN known(e, m) = {q.ids["identity"]}
                      ELSE \/ known(e, m) = {} /\ identities(e, m) # {} /\ Kind # "term_party"
                           \/ q.ids["identity"] \in known(e, m)
      together(periods) ==
        IF \A p \in periods : Certain(p)
        THEN LET some == {The(p) : p \in periods}
             IN \E d \in {p.from : p \in some} \cup {AsOf} :
                  /\ \A p \in some : Covers(p, d)
                  /\ q.question.number = Nothing /\ Kind # "during_office" => d = AsOf
        ELSE ~certain
      anchored(m, e) ==
        \E a \in in.members, h \in AnchorHoldings(in) :
          /\ a.member = q.ids["member"] /\ m.member # a.member /\ a.place = m.place /\ a.term = m.term
          /\ together({during(m), within(e), during(a), holding(h)})
      meets(m, e) == IF Kind = "during_office" THEN anchored(m, e) ELSE together({during(m), within(e)})
      scoped == {m \in in.members : InScope(in, m)}
      pairs == UNION {{<<m, e>> : e \in {x \in in.episodes : x.of = m.membership /\ x.member = m.member}} : m \in scoped}
  IN IF Kind = "parties"
     THEN UNION {said(x[2], x[1]) : x \in {y \in pairs : meets(y[1], y[2])}}
     ELSE {x[1].member : x \in {y \in pairs : theirs(y[2], y[1]) /\ meets(y[1], y[2])}}

\* The identities are the only ones the question could mean.
PartiesNamed(in) ==
  LET terms == IF Kind = "during_office" THEN AnchorTerms(Evidence(in)) ELSE {q.ids["term"]}
  IN /\ Kind # "during_office" => Selected(in, House, q.question.number, q.ids["term"])
     /\ Kind \in {"party", "parties"} =>
          {p.place : p \in {x \in in.places : x.term = q.ids["term"] /\ x.label \in q.question.places}} = q.ids["place"]
     /\ Kind # "parties" => \A p \in in.parties :
          p.term \in terms =>
            IF p.identity = Nothing THEN p.name # q.question.identity
            ELSE q.question.identity \in Aliases[p.identity] => p.identity = q.ids["identity"]
=============================================================================

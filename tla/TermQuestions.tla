---------------------------- MODULE TermQuestions -----------------------------
(***************************************************************************)
(* Composed questions about Members of a term: those who represented a    *)
(* constituency in it ("members"), on a date ("date"), those of two terms *)
(* ("terms"), those who shared the constituency of a named Member         *)
(* ("neighbours"), and the simple question for a constituency of the      *)
(* previous Dail ("previous").  The term, the constituency and the named  *)
(* Member are resolved first, then the Members are read in pages.         *)
(*                                                                        *)
(* And questions about the Houses and their terms: when each Dail began and*)
(* ended ("listing"), which lasted on a date or in a month ("scope"), how *)
(* many there are ("all_terms"), how many seats one had ("seats") and its *)
(* parties ("groups"); the Dail terms two named Members share ("shared"), *)
(* the Members recorded in both current Houses ("both"), and the current  *)
(* Senators who left the Dail before ("returned").                        *)
(***************************************************************************)
EXTENDS QuestionService

FirstOfMembers(kind) == IF kind = "neighbours" THEN "member" ELSE "term"

\* The anchor of neighbours is resolved before the term.
ResolveAnchor ==
  /\ q.at = "member" /\ Kind = "neighbours"
  /\ ResolveMember("member", q.question.name, "term")
  /\ Read

AfterTerm == IF Kind = "neighbours" THEN "anchor" ELSE "place"

ResolveSelectedTerm ==
  /\ q.at = "term" /\ q.family = "members"
  /\ IF Kind = "terms" THEN q' = [TermResolved("term", "dail", q.question.number) EXCEPT !.at = "other"]
     ELSE ResolveTerm("term", "dail", q.question.number, AfterTerm)
  /\ Read

\* Two numbers may not name the same term.
ResolveOtherTerm ==
  /\ q.at = "other" /\ Kind = "terms"
  /\ LET r == Settled(TermResolved("other", "dail", q.question.other), "rows")
     IN q' = IF r.at = "rows" /\ r.ids["term"] = r.ids["other"] THEN Ended(r, "source_data_unavailable") ELSE r
  /\ Read

ResolvePlace ==
  /\ q.at = "place" /\ q.family = "members"
  /\ ResolveConstituency("rows")
  /\ Read

\* The memberships of the anchor in the selected term.
AnchorPaths(in) ==
  {m \in in.members : m.member = q.ids["member"] /\ m.house = "dail" /\ m.term = q.ids["term"]}

\* Every membership of the anchor must represent one constituency, which
\* occurs in the selected term only and has one label.
ResolveAnchorPlace ==
  /\ q.at = "anchor"
  /\ LET paths == AnchorPaths(store)
         occurrences(m) == {p \in store.places : p.place = m.place}
         complete == \A m \in paths : occurrences(m) # {} /\ \A p \in occurrences(m) : p.term = q.ids["term"]
         labelled == \A m \in paths : Cardinality({p.label : p \in occurrences(m)}) = 1
         rows == UNION {{<<m.membership, m.place, p>> :
                           p \in IF occurrences(m) = {} THEN {Nothing} ELSE occurrences(m)} : m \in paths}
     IN q' = Settled(Resolved(rows, "place",
                              IF complete /\ labelled THEN {m.place : m \in paths} ELSE {},
                              "source_data_unavailable"), "rows")
  /\ Read

----------------------------------------------------------------------------
\* The answer query

TermListed(in, term, number) ==
  \E t \in in.terms : t.term = term /\ t.house = "dail" /\ number \in {Nothing, Previous, t.number}

\* The answer query joins the selected term and constituency once more, except that of
\* the simple question, which reads the records of Members alone.
Listed(in) ==
  Kind # "previous" =>
  /\ TermListed(in, q.ids["term"], q.question.number)
  /\ \E p \in in.places : p.place = q.ids["place"] /\ p.term = q.ids["term"]

\* Mutant: the term of a membership is not joined.
SeatedInAnyTerm(in) == {m \in in.members : Listed(in) /\ m.place = q.ids["place"]}

\* The memberships of the selected constituency and term.
SeatedIn(in) == {m \in in.members : Listed(in) /\ m.place = q.ids["place"] /\ m.term = q.ids["term"]}

\* Different Members with different memberships of the same constituency and
\* term; the anchor's membership is joined once more.
Neighbouring(in) ==
  {m \in SeatedIn(in) : /\ m.member # q.ids["member"]
                        /\ \E a \in AnchorPaths(in) : a.place = m.place /\ a.membership # m.membership}

\* Two memberships of one Member, one in each term.
InBothTerms(in) ==
  {m \in in.members :
     /\ TermListed(in, q.ids["term"], q.question.number) /\ TermListed(in, q.ids["other"], q.question.other)
     /\ m.term = q.ids["term"]
     /\ \E o \in in.members : o.member = m.member /\ o.term = q.ids["other"] /\ o.membership # m.membership}

\* SELECT DISTINCT: the range is only asked for when there is a date.
MemberRows(in) ==
  LET bare(rows) == {<<m.member, m.name>> : m \in rows}
  IN CASE Kind = "date" -> {<<m.member, m.name, m.membership, m.period>> : m \in SeatedIn(in)}
       [] Kind = "neighbours" -> bare(Neighbouring(in))
       [] Kind = "terms" -> bare(InBothTerms(in))
       [] OTHER -> bare(SeatedIn(in))

ReadMembers ==
  /\ q.at = "rows" /\ q.family = "members" /\ Kind # "previous"
  /\ ReadPage(MemberRows(store), "evaluate")
  /\ Read

\* readable_member_result: one query, cut at the default limit without a
\* check, and the first name of each Member will do.
AnswerPrevious ==
  /\ q.at = "rows" /\ Kind = "previous"
  /\ q' = [q EXCEPT !.at = "done", !.status = "success", !.pages = 1,
                    !.answer = {r[1] : r \in Page(MemberRows(store), 0)}]
  /\ Read

\* Members with conflicting names, and undated memberships, refuse the whole
\* answer; nobody on a date is an answer, nobody at all is missing data.
EvaluateMembers ==
  /\ q.at = "evaluate" /\ q.family = "members"
  /\ LET dated == Kind = "date"
         periods(membership) == {r[4] : r \in {x \in q.rows : x[3] = membership}}
         selected == IF dated THEN {r \in q.rows : Covers(r[4], q.question.date)} ELSE q.rows
         certain == dated => \A r \in q.rows : Certain(periods(r[3]))
         named == \A r, s \in selected : r[2] # Nothing /\ (r[1] = s[1] => r[2] = s[2])
     IN IF certain /\ named /\ (dated \/ selected # {}) THEN Answer({r[1] : r \in selected})
        ELSE End("source_data_unavailable")
  /\ Read

MemberStep ==
  \/ ResolveAnchor \/ ResolveSelectedTerm \/ ResolveOtherTerm \/ ResolvePlace \/ ResolveAnchorPlace
  \/ ReadMembers \/ AnswerPrevious \/ EvaluateMembers

----------------------------------------------------------------------------
\* The Members the evidence of a store establishes for the question, and those
\* it cannot exclude: a period that is missing or recorded in two ways may be any period.
MembersMeant(in, certain) ==
  LET during(m) == {x.period : x \in {y \in in.members : y.membership = m.membership}}
      inTerm(member, t) == {m \in in.members : m.member = member /\ m.term = t}
      seatedIn(m) == m.place = q.ids["place"] /\ m.term = q.ids["term"] /\ Listed(in)
      holds(m) == IF Certain(during(m)) THEN \A p \in during(m) : Covers(p, q.question.date) ELSE ~certain
      qualifies(m) ==
        CASE Kind \in {"members", "previous"} -> seatedIn(m)
          [] Kind = "date" -> seatedIn(m) /\ holds(m)
          [] Kind = "neighbours" ->
               seatedIn(m) /\ m.member # q.ids["member"]
               /\ \E a \in inTerm(q.ids["member"], q.ids["term"]) : seatedIn(a)
          [] OTHER -> /\ inTerm(m.member, q.ids["term"]) # {} /\ inTerm(m.member, q.ids["other"]) # {}
                      /\ TermListed(in, q.ids["term"], q.question.number)
                      /\ TermListed(in, q.ids["other"], q.question.other)
  IN {m.member : m \in {x \in in.members : qualifies(x)}}

\* The identities are the only ones the question could mean.
MembersNamed(in) ==
  /\ Selected(in, "dail", q.question.number, q.ids["term"])
  /\ Kind = "terms" => Selected(in, "dail", q.question.other, q.ids["other"]) /\ q.ids["other"] # q.ids["term"]
  /\ Kind \in {"members", "previous", "date"} =>
       {p.place : p \in {x \in in.places : x.term = q.ids["term"] /\ x.label = q.question.place}} = {q.ids["place"]}
  /\ Kind = "neighbours" =>
       /\ {m.member : m \in {x \in in.members : x.name = q.question.name}} = {q.ids["member"]}
       /\ {m.place : m \in AnchorPaths(in)} = {q.ids["place"]}
----------------------------------------------------------------------------

FirstOfHouses(kind) ==
  CASE kind = "shared" -> "member" [] kind \in {"both", "groups"} -> "term" [] kind = "returned" -> "other"
    [] OTHER -> "houseTerms"

\* Both Members are looked up, whatever becomes of the first.
ResolveFirstMember ==
  /\ q.at = "member" /\ Kind = "shared"
  /\ LET rows == Labelled(store, q.question.name)
     IN q' = [Resolved(rows, "member", {r[1] : r \in rows}, "not_found") EXCEPT !.at = "second"]
  /\ Read

\* Two names may not name the same Member.
ResolveSecondMember ==
  /\ q.at = "second"
  /\ LET rows == Labelled(store, q.question.second)
         r == Settled(Resolved(rows, "identity", {x[1] : x \in rows}, "not_found"), "evidence")
     IN q' = IF r.at = "evidence" /\ r.ids["member"] = r.ids["identity"] THEN Ended(r, "identity_collision") ELSE r
  /\ Read

Both == {q.ids["member"], q.ids["identity"]}
DailTerms(in) == {t.term : t \in {x \in in.terms : x.house = "dail"}}
TermsServed(in, member) ==
  {m.term : m \in {x \in in.members : x.member = member /\ x.house = "dail"}} \cap DailTerms(in)

\* Each Member must have a recorded term; the terms of both are kept.
ReadTermEvidence ==
  /\ q.at = "evidence" /\ Kind = "shared"
  /\ LET rows == UNION {{<<member, t>> : t \in TermsServed(store, member)} : member \in Both}
         shared == TermsServed(store, q.ids["member"]) \cap TermsServed(store, q.ids["identity"])
     IN IF Cardinality(rows) >= PageSize \/ \E member \in Both : TermsServed(store, member) = {}
        THEN End("source_data_unavailable")
        ELSE q' = [q EXCEPT !.left = shared, !.at = "rows"]
  /\ Read

SharedTerms(in) ==
  {<<t.term, t.number>> : t \in {x \in in.terms : \A member \in Both : x.term \in TermsServed(in, member)}}

\* The intersection is asked for once more, and reconciled with the evidence.
ReadSharedTerms ==
  /\ q.at = "rows" /\ Kind = "shared"
  /\ LET rows == SharedTerms(store)
         terms == {r[1] : r \in rows}
     IN IF Cardinality(rows) >= PageSize \/ ~(terms \subseteq q.left) THEN End("source_data_unavailable")
        ELSE q' = [q EXCEPT !.at = "done", !.status = "success", !.answer = terms, !.pages = 1]
  /\ Read

----------------------------------------------------------------------------
\* Both Houses

ResolveCurrentDail ==
  /\ q.at = "term" /\ Kind = "both"
  /\ q' = [TermResolved("term", "dail", Nothing) EXCEPT !.at = "other"]
  /\ Read

ResolveCurrentSeanad ==
  /\ q.at = "other" /\ q.family = "houses"
  /\ q' = Settled(TermResolved("other", "seanad", Nothing), "rows")
  /\ Read

\* Every pair of a membership of the Seanad term and one of the Dail: of its
\* current term, or of any.
HousePairs(in) ==
  {x \in in.members \X in.members :
     /\ x[1].member = x[2].member
     /\ x[1].house = "seanad" /\ x[1].term = q.ids["other"]
     /\ x[2].house = "dail" /\ x[2].term \in DailTerms(in)
     /\ Kind = "both" => x[2].term = q.ids["term"]
     /\ \E t \in in.terms : t.term = x[1].term /\ t.house = "seanad"}

HouseRows(in) ==
  {<<x[1].member, x[1].name, x[1].membership, x[1].period, x[2].membership, x[2].period, x[2].term>> : x \in HousePairs(in)}

ReadHouses ==
  /\ q.at = "rows" /\ q.family = "houses" /\ Kind # "shared"
  /\ ReadPage(HouseRows(store), "evaluate")
  /\ Read

SeanadPeriods(r) == {x[4] : x \in {y \in q.rows : y[1] = r[1] /\ y[3] = r[3]}}
DailPeriods(r) == {x[6] : x \in {y \in q.rows : y[1] = r[1] /\ y[5] = r[5]}}

\* A membership has one Member and a Member one name.
HousesCoherent ==
  \A r, s \in q.rows :
    /\ r[2] # Nothing /\ (r[1] = s[1] => r[2] = s[2])
    /\ {r[3], r[5]} \cap {s[3], s[5]} # {} => r[1] = s[1]

\* _current_cross_house_membership_result: the periods are shown, so every one
\* must be certain, but need not cover the reference date.
EvaluateBothHouses ==
  /\ q.at = "evaluate" /\ Kind = "both"
  /\ IF q.rows # {} /\ HousesCoherent /\ \A r \in q.rows : Certain(SeanadPeriods(r)) /\ Certain(DailPeriods(r))
     THEN Answer({r[1] : r \in q.rows})
     ELSE End("source_data_unavailable")
  /\ Read

\* _current_seanad_prior_dail_membership_result: Dail evidence matters only for
\* Members with a current seat in the Seanad.
EvaluateReturned ==
  /\ q.at = "evaluate" /\ Kind = "returned"
  /\ LET seated == {r \in q.rows : Covers(r[4], AsOf)}
         theirs == {r \in q.rows : \E s \in seated : s[1] = r[1]}
         oneTerm(r) == \A x \in q.rows : x[5] = r[5] => x[7] = r[7]
         before == {r \in seated : r[6].to # Open /\ r[6].to < r[4].from}
     IN IF /\ before # {} /\ HousesCoherent
           /\ \A r \in q.rows : Certain(SeanadPeriods(r))
           /\ \A r \in theirs : oneTerm(r) /\ Certain(DailPeriods(r))
        THEN Answer({r[1] : r \in before})
        ELSE End("source_data_unavailable")
  /\ Read

----------------------------------------------------------------------------
\* The chronology of the Dail

Dails(in) == {t \in in.terms : t.house = "dail"}
Listing(in) == {<<t.term, t.period>> : t \in {x \in Dails(in) : x.period.from # Unknown}}

\* Terms with a start; none may have two ranges.
ListTerms ==
  /\ q.at = "houseTerms" /\ Kind = "listing"
  /\ LET listed == Listing(store)
     IN IF listed = {} \/ Cardinality(listed) >= PageSize \/ \E x, y \in listed : x[1] = y[1] /\ x # y
        THEN End("source_data_unavailable") ELSE InOnePage(listed)
  /\ Read

CountTerms ==
  /\ q.at = "houseTerms" /\ Kind = "all_terms"
  /\ InOnePage(DailTerms(store)) /\ Read

\* Of each term one number and one whole range.
OfOneRecord(rows) ==
  \A t \in rows : /\ t.period.from # Unknown /\ t.period.from <= t.period.to
                  /\ \A s \in rows : s.term = t.term => s = t

\* The only term without an end is the current one, after all others.
OnlyCurrentOpen(rows) ==
  \A t \in rows : t.period.to = Open =>
    t.period.from <= AsOf /\ \A s \in rows \ {t} : s.period.to < t.period.from

\* Terms that last on the date, or in a part of the month; if it is only one
\* it must last the whole month.
SelectTerms ==
  /\ q.at = "houseTerms" /\ Kind = "scope"
  /\ LET rows == Dails(store)
         scope == [from |-> q.question.from, to |-> q.question.to]
         matches == {t \in rows : ~Disjoint(t.period, scope)}
         whole(t) == t.period.from <= scope.from /\ scope.to <= t.period.to
     IN CASE scope.to > AsOf -> End("clarification_required")
          [] \/ matches = {} \/ Cardinality(rows) >= PageSize
             \/ ~OfOneRecord(rows) \/ ~OnlyCurrentOpen(rows)
             \/ Cardinality(matches) = 1 /\ ~whole(The(matches)) -> End("source_data_unavailable")
          [] OTHER -> InOnePage({t.term : t \in matches})
  /\ Read

----------------------------------------------------------------------------
\* The seats and the parties of a numbered Dail

NumberedTerms(in) == {t.term : t \in TermRows(in, "dail", q.question.number)}

\* The recorded seats of each of them, if there are any
TermSeats(in) ==
  LET recorded(term) == {s.seats : s \in {x \in in.seats : x.term = term}}
  IN UNION {{<<t, n>> : n \in IF recorded(t) = {} THEN {Nothing} ELSE recorded(t)} : t \in NumberedTerms(in)}

\* One term with one number of seats, which is positive; none is inferred
\* from the Members.
AnswerSeats ==
  /\ q.at = "houseTerms" /\ Kind = "seats"
  /\ LET rows == TermSeats(store)
     IN IF Cardinality(rows) < PageSize /\ Cardinality(rows) = 1 /\ \A r \in rows : r[2] # Nothing /\ r[2] > 0
        THEN InOnePage(rows) ELSE End("source_data_unavailable")
  /\ Read

ResolveNumberedTerm ==
  /\ q.at = "term" /\ Kind = "groups"
  /\ q' = Settled(Resolved(NumberedTerms(store), "term", NumberedTerms(store), "source_data_unavailable"), "parties")
  /\ Read

\* The parties of the resolved term, with their labels, while it is a Dail term
PartiesActive(in) ==
  {<<p.party, p.name>> : p \in {x \in in.parties : x.term = q.ids["term"] /\ x.term \in DailTerms(in)}}

\* Nobody is left out: a party without a label refuses the list.
ListGroups ==
  /\ q.at = "parties" /\ Kind = "groups"
  /\ LET rows == PartiesActive(store)
     IN CASE Cardinality(rows) >= PageSize -> End("source_data_unavailable")
          [] rows = {} -> q' = [q EXCEPT !.at = "presence"]
          [] \E r \in rows : r[2] = Nothing -> End("source_data_unavailable")
          [] OTHER -> InOnePage(rows)
  /\ Read

\* An empty list is never an answer; whether there are parties at all only
\* tells which reason is given.
AskPresence ==
  /\ q.at = "presence"
  /\ End("source_data_unavailable") /\ Read

HouseStep ==
  \/ AnswerSeats \/ ResolveNumberedTerm \/ ListGroups \/ AskPresence
  \/ ListTerms \/ CountTerms \/ SelectTerms
  \/ ResolveFirstMember \/ ResolveSecondMember \/ ReadTermEvidence \/ ReadSharedTerms
  \/ ResolveCurrentDail \/ ResolveCurrentSeanad \/ ReadHouses \/ EvaluateBothHouses \/ EvaluateReturned

----------------------------------------------------------------------------
\* The terms or Members a store establishes, and those it cannot exclude: of a
\* Member with a Seanad seat that may be current and a Dail one that may have ended.
HousesMeant(in, certain) ==
  LET periods(m) == {x.period : x \in {y \in in.members : y.membership = m.membership /\ y.member = m.member}}
      senators == {m \in in.members : m.house = "seanad" /\ m.term = q.ids["other"]}
      deputies == {m \in in.members : m.house = "dail" /\ m.term \in DailTerms(in)}
      ended(s, d) ==
        CASE Certain(periods(s)) /\ Certain(periods(d)) ->
               The(periods(s)).from <= AsOf /\ AsOf <= The(periods(s)).to /\ The(periods(d)).to < The(periods(s)).from
          [] Certain(periods(s)) /\ ~Certain(periods(d)) -> ~certain /\ Covers(The(periods(s)), AsOf)
          [] OTHER -> ~certain
      overlaps(t) == ~Disjoint(t.period, [from |-> q.question.from, to |-> q.question.to])
      scoped(t) == IF certain THEN \A x \in Dails(in) : x.term = t.term => x.period.from # Unknown /\ overlaps(x) ELSE overlaps(t)
      qualifies(s, d) == /\ s.member = d.member
                         /\ IF Kind = "both" THEN d.term = q.ids["term"] ELSE ended(s, d)
  IN CASE Kind = "shared" ->
            {t \in DailTerms(in) : \A member \in Both :
               \E m \in in.members : m.member = member /\ m.house = "dail" /\ m.term = t}
       [] Kind = "listing" -> Listing(in)
       [] Kind = "all_terms" -> DailTerms(in)
       [] Kind = "scope" -> {t.term : t \in {x \in Dails(in) : scoped(x)}}
       [] Kind = "seats" -> {r \in TermSeats(in) : r[2] # Nothing /\ (certain => TermSeats(in) = {r})}
       [] Kind = "groups" -> PartiesActive(in)
       [] OTHER -> {s.member : s \in {x \in senators : \E d \in deputies : qualifies(x, d)}}

\* The identities are the only ones the question could mean.
HousesNamed(in) ==
  /\ Kind = "shared" =>
       /\ {m.member : m \in {x \in in.members : x.name = q.question.name}} = {q.ids["member"]}
       /\ {m.member : m \in {x \in in.members : x.name = q.question.second}} = {q.ids["identity"]}
       /\ Cardinality(Both) = 2
  /\ Kind = "both" => Selected(in, "dail", Nothing, q.ids["term"])
  /\ Kind = "groups" => Selected(in, "dail", q.question.number, q.ids["term"])
  /\ Kind = "seats" => Cardinality(NumberedTerms(in)) = 1
  /\ Kind \in {"both", "returned"} => Selected(in, "seanad", Nothing, q.ids["other"])
=============================================================================

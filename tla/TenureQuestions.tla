---------------------------- MODULE TenureQuestions ----------------------------
(***************************************************************************)
(* Questions about what Members are or were: who held an office in an       *)
(* interval ("office"), whether a Member did ("held"), when a Member did    *)
(* ("episodes"), the affiliations of a Member ("affiliation"), the members  *)
(* of the Government from a party ("government"), the constituency a Member *)
(* represents today ("seat"), in the latest term ("latest") or ever         *)
(* ("career"), and who represents a constituency today ("sitting").         *)
(***************************************************************************)
EXTENDS QuestionService

FirstOfTenures(kind) ==
  CASE kind = "office" -> "office" [] kind = "government" -> "identity" [] kind \in {"seat", "sitting"} -> "term"
    [] OTHER -> "member"

ResolveSeatTerm ==
  /\ q.at = "term" /\ Kind \in {"seat", "sitting"}
  /\ ResolveTerm("term", "dail", Nothing, IF Kind = "seat" THEN "member" ELSE "place")
  /\ Read

ResolveSeatPlace ==
  /\ q.at = "place" /\ Kind = "sitting"
  /\ ResolveConstituency("rows")
  /\ Read

ResolveHolder ==
  /\ q.at = "member" /\ q.family = "tenures"
  /\ ResolveMember("member", q.question.name,
                   CASE Kind \in {"held", "episodes"} -> "office" [] Kind = "latest" -> "service" [] OTHER -> "rows")
  /\ Read

\* A complete interval must have passed.
ResolveOffice ==
  /\ q.at = "office" /\ Kind \in {"office", "held", "episodes"}
  /\ LET rows == {<<o.office, o.label>> : o \in {x \in store.offices : x.label = q.question.office}}
         ever == Kind = "episodes"
     IN IF ~ever /\ q.question.to > AsOf THEN End("clarification_required")
        ELSE q' = Settled(Resolved(rows, "office", {r[1] : r \in rows},
                                   IF ever THEN "source_data_unavailable" ELSE "not_found"),
                          IF ever THEN "rows" ELSE "holdings")
  /\ Read

ResolveIdentity ==
  /\ q.at = "identity" /\ Kind = "government"
  /\ LET rows == {<<i.identity, i.label>> : i \in {x \in store.identities : x.label = q.question.identity}}
     IN q' = Settled(Resolved(rows, "identity", {r[1] : r \in rows}, "not_found"), "rows")
  /\ Read

NamesOf(in, member) == {m.name : m \in {x \in in.members : x.member = member}}

----------------------------------------------------------------------------
\* Holdings of an office

HoldingRows(in) ==
  LET held == {h \in in.holdings : /\ h.office = q.ids["office"] /\ \E o \in in.offices : o.office = h.office
                                   /\ Kind # "office" => h.member = q.ids["member"]}
  IN UNION {{<<h.member, name, h.holding, h.period>> : name \in NamesOf(in, h.member)} : h \in held}

\* FILTER of the answer query: it excludes a row, not a holding.
Within(period) == period.from # Unknown /\ period.from <= q.question.to /\ period.to >= q.question.from

\* inspect_office_holding_evidence: a start after the interval settles a
\* holding whatever its end; any other doubt is an issue.
Issue(rows) ==
  \/ \E r, s \in rows : r[3] = s[3] /\ r # s
  \/ \E r \in rows : \/ r[4].from = Unknown
                     \/ r[4].from <= q.question.to /\ r[4].to < r[4].from

\* The evidence is inspected before the answer is asked for; about today an issue ends it at once.
InspectHoldings ==
  /\ q.at = "holdings" /\ q.family = "tenures"
  /\ LET rows == HoldingRows(store)
         now == q.question.from = AsOf /\ q.question.to = AsOf
         doubtful == Issue(rows)
     IN CASE Cardinality(rows) >= PageSize \/ (now /\ doubtful) -> End("insufficient_holding_evidence")
          [] rows = {} -> End("source_data_unavailable")
          [] OTHER -> q' = [q EXCEPT !.at = "answer", !.rows = rows, !.left = {r[3] : r \in {x \in rows : Within(x[4])}},
                                     !.refusals = IF doubtful THEN {"insufficient_holding_evidence"} ELSE {}]
  /\ Read

\* The holdings of the answer must be those of the evidence, and not contradict
\* each other; nobody in office is no answer.
AnswerHoldings ==
  /\ q.at = "answer"
  /\ LET rows == {r \in HoldingRows(store) : Within(r[4])}
         reconciled == /\ Cardinality(rows) < PageSize
                       /\ {r[3] : r \in rows} = q.left
                       /\ \A r, s \in rows : r[4].to >= r[4].from /\ (r[3] = s[3] => r = s)
     IN CASE ~reconciled \/ (rows = {} /\ q.refusals = {}) -> End("source_data_unavailable")
          [] reconciled /\ q.refusals # {} -> End("insufficient_holding_evidence")
          [] OTHER -> q' = [q EXCEPT !.at = "done", !.status = "success", !.answer = {r[1] : r \in rows}, !.pages = 1]
  /\ Read

----------------------------------------------------------------------------
\* Affiliations, the Government and the current seat, read in pages

\* An episode, the membership it belongs to and its party's record for the same term.
EpisodePaths(in) ==
  {x \in in.episodes \X in.members \X in.parties :
     /\ x[1].member = x[2].member /\ x[1].of = x[2].membership
     /\ x[3].party = x[1].party /\ x[3].term = x[2].term
     /\ \E t \in in.terms : t.term = x[2].term}

AffiliationRows(in) ==
  {<<x[1].episode, x[3].identity, x[1].period>> : x \in {y \in EpisodePaths(in) : y[1].member = q.ids["member"]}}

GovernmentRows(in) ==
  LET paths == {x \in EpisodePaths(in) \X in.cabinets \X in.terms :
                  /\ x[1][3].identity = q.ids["identity"] /\ x[2].member = x[1][1].member /\ x[3].term = x[1][2].term}
      row(e, m, c, t) == [member |-> m.member, name |-> m.name, cabinet |-> c.cabinet, episode |-> e.episode,
                          membership |-> m.membership, term |-> t.term,
                          periods |-> <<c.period, e.period, m.period, t.period>>]
  IN {row(x[1][1], x[1][2], x[2], x[3]) : x \in paths}

\* A membership with all of what the plan names: a Member, a term, a constituency.
Asks(m) ==
  /\ Kind = "sitting" => m.place = q.ids["place"]
  /\ Kind # "sitting" => m.member = q.ids["member"]
  /\ Kind # "career" => m.term = q.ids["term"]

SeatRows(in) ==
  {<<m.membership, IF Kind = "sitting" THEN m.member ELSE m.place, m.name, m.period>> :
     m \in {x \in in.members : /\ x.house = "dail" /\ Asks(x)
                               /\ \E p \in in.places : p.place = x.place /\ p.term = x.term
                               /\ \E t \in in.terms : t.term = x.term}}

ReadTenures ==
  /\ q.at = "rows" /\ q.family = "tenures"
  /\ ReadPage(CASE Kind = "affiliation" -> AffiliationRows(store)
                [] Kind = "government" -> GovernmentRows(store)
                [] Kind = "episodes" -> HoldingRows(store)
                [] OTHER -> SeatRows(store), "evaluate")
  /\ Read

\* readable_member_office_evidence_result: an episode without a certain interval refuses all.
EvaluateEpisodes ==
  /\ q.at = "evaluate" /\ Kind = "episodes"
  /\ LET periods(r) == {x[4] : x \in {y \in q.rows : y[3] = r[3]}}
     IN IF q.rows # {} /\ \A r \in q.rows : Certain(periods(r)) THEN Answer({<<r[3], r[4]>> : r \in q.rows})
        ELSE End("source_data_unavailable")
  /\ Read

\* One party without an identity refuses the whole answer.
EvaluateAffiliation ==
  /\ q.at = "evaluate" /\ Kind = "affiliation"
  /\ LET identities == {r[2] : r \in q.rows}
     IN CASE q.rows = {} -> End("source_data_unavailable")
          [] Nothing \in identities -> End("missing_identity_link")
          [] OTHER -> Answer(identities)
  /\ Read

\* execute_government: the period of the office, of the party membership, of
\* the membership and of its term, one after another; only rows that are current by
\* one need a certain period of the next.
EvaluateGovernment ==
  /\ q.at = "evaluate" /\ Kind = "government"
  /\ LET current(i) == {r \in q.rows : \A j \in 1..i : Covers(r.periods[j], AsOf)}
         key(r, i) == <<r.cabinet, r.episode, r.membership, r.term>>[i]
         periods(r, i) == {x.periods[i] : x \in {y \in current(i - 1) : key(y, i) = key(r, i)}}
         certain == \A i \in 1..4 : \A r \in current(i - 1) : Certain(periods(r, i))
         named == \A r, s \in current(4) : r.name # Nothing /\ (r.member = s.member => r.name = s.name)
     IN IF certain /\ named /\ current(4) # {} THEN Answer({r.member : r \in current(4)})
        ELSE End("source_data_unavailable")
  /\ Read

\* For today every membership in the term is dated, and one holds now; of the
\* latest term there is one constituency; of a career all are recorded ones.
EvaluateSeat ==
  /\ q.at = "evaluate" /\ Kind \in {"seat", "sitting", "latest", "career"}
  /\ LET periods(r) == {x[4] : x \in {y \in q.rows : y[1] = r[1]}}
         today == Kind \in {"seat", "sitting"}
         active == {r \in q.rows : today => Covers(r[4], AsOf)}
         places == {r[2] : r \in active}
     IN IF /\ places # {}
           /\ today => \A r \in q.rows : Certain(periods(r))
           /\ Kind = "latest" => Cardinality(places) = 1
        THEN Answer(places) ELSE End("source_data_unavailable")
  /\ Read

----------------------------------------------------------------------------
\* The latest term of a Member

ServiceTerms(in) ==
  {m.term : m \in {x \in in.members : x.member = q.ids["member"] /\ x.house = "dail"}}
  \cap {t.term : t \in {x \in in.terms : x.house = "dail"}}

ReadService ==
  /\ q.at = "service"
  /\ LET rows == {<<m.membership, m.term>> : m \in {x \in store.members : /\ x.member = q.ids["member"] /\ x.house = "dail"
                                                                         /\ x.term \in ServiceTerms(store)}}
     IN IF rows = {} \/ Cardinality(rows) >= PageSize \/ \E r, s \in rows : r[1] = s[1] /\ r[2] # s[2]
        THEN End("source_data_unavailable")
        ELSE q' = [q EXCEPT !.left = {r[2] : r \in rows}, !.at = "chronology"]
  /\ Read

\* The terms of the Member must follow each other: one begins after the other has ended.
SelectLatestTerm ==
  /\ q.at = "chronology"
  /\ LET listed == TermRows(store, "dail", Nothing)
         rows == {t \in listed : t.term \in q.left}
         periods(term) == {t.period : t \in {x \in rows : x.term = term}}
         ordered == \A r, s \in rows : r.term # s.term => Disjoint(r.period, s.period)
         latest == {r.term : r \in {x \in rows : \A s \in rows : s.period.from <= x.period.from}}
     IN IF Cardinality(listed) < PageSize /\ ordered /\ \A t \in q.left : Certain(periods(t))
        THEN q' = [q EXCEPT !.ids["term"] = The(latest), !.left = {}, !.at = "rows"]
        ELSE End("source_data_unavailable")
  /\ Read

TenureStep ==
  \/ ResolveSeatTerm \/ ResolveSeatPlace \/ ResolveHolder \/ ResolveOffice \/ ResolveIdentity
  \/ InspectHoldings \/ AnswerHoldings \/ ReadService \/ SelectLatestTerm
  \/ ReadTenures \/ EvaluateEpisodes \/ EvaluateAffiliation \/ EvaluateGovernment \/ EvaluateSeat

----------------------------------------------------------------------------
\* What a store establishes, and what it cannot exclude: an uncertain period
\* may be any, but a holding recorded once, from after the interval, is not in it.
TenuresMeant(in, certain) ==
  LET of(rows, same(_)) == {x.period : x \in {y \in rows : same(y)}}
      within(h) == LET periods == of(in.holdings, LAMBDA y : y.holding = h.holding)
                   IN IF Certain(periods) THEN \A p \in periods : p.from <= q.question.to /\ q.question.from <= p.to
                      ELSE ~certain /\ \A p \in periods : periods = {p} => p.from <= q.question.to
      now(periods) == IF Certain(periods) THEN \A p \in periods : Covers(p, AsOf) ELSE ~certain
      holders == {h \in in.holdings : h.office = q.ids["office"] /\ NamesOf(in, h.member) # {} /\ (Kind # "office" => h.member = q.ids["member"])}
      seats == {m \in in.members : /\ m.house = "dail" /\ Asks(m)
                                   /\ \E p \in in.places : p.place = m.place /\ p.term = m.term}
      governs(m, e, p, c) ==
        /\ e.member = m.member /\ e.of = m.membership /\ p.party = e.party /\ p.term = m.term
        /\ p.identity = q.ids["identity"] /\ c.member = m.member
        /\ now(of(in.cabinets, LAMBDA y : y.cabinet = c.cabinet))
        /\ now(of(in.episodes, LAMBDA y : y.episode = e.episode))
        /\ now(of(in.members, LAMBDA y : y.membership = m.membership))
        /\ now(of(in.terms, LAMBDA y : y.term = m.term))
  IN CASE Kind \in {"office", "held"} -> {h.member : h \in {x \in holders : within(x)}}
       [] Kind = "episodes" ->
            {<<h.holding, h.period>> : h \in {x \in holders : certain => Certain(of(in.holdings, LAMBDA y : y.holding = x.holding))}}
       [] Kind = "government" ->
            {m.member : m \in {x \in in.members :
                                 \E e \in in.episodes, p \in in.parties, c \in in.cabinets : governs(x, e, p, c)}}
       [] Kind = "affiliation" ->
            {p.identity : p \in {x \in in.parties : /\ certain => x.identity # Nothing
                                                    /\ \E e \in in.episodes, m \in in.members :
                                                         /\ e.member = q.ids["member"] /\ m.member = e.member
                                                         /\ m.membership = e.of /\ x.party = e.party /\ x.term = m.term}}
       [] Kind \in {"seat", "sitting"} ->
            {IF Kind = "seat" THEN m.place ELSE m.member :
               m \in {x \in seats : now(of(in.members, LAMBDA y : y.membership = x.membership))}}
       [] OTHER -> {m.place : m \in seats}

\* The identities are the only ones the question could mean; no other term of
\* the Member may be later than the latest.
TenuresNamed(in) ==
  LET periods(t) == {x.period : x \in {y \in in.terms : y.term = t}}
  IN /\ Kind \in {"held", "episodes", "affiliation", "seat", "latest", "career"} =>
          {m.member : m \in {x \in in.members : x.name = q.question.name}} = {q.ids["member"]}
     /\ Kind = "sitting" =>
          {p.place : p \in {x \in in.places : x.term = q.ids["term"] /\ x.label = q.question.place}} = {q.ids["place"]}
     /\ Kind \in {"office", "held", "episodes"} =>
          {o.office : o \in {x \in in.offices : x.label = q.question.office}} = {q.ids["office"]}
     /\ Kind = "government" =>
          {i.identity : i \in {x \in in.identities : x.label = q.question.identity}} = {q.ids["identity"]}
     /\ Kind \in {"seat", "sitting"} => Selected(in, "dail", Nothing, q.ids["term"])
     /\ Kind = "latest" => \A t \in ServiceTerms(in) \ {q.ids["term"]} :
                             \A p \in periods(t), r \in periods(q.ids["term"]) : p.to < r.from
=============================================================================

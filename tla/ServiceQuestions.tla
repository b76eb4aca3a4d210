--------------------------- MODULE ServiceQuestions ----------------------------
(***************************************************************************)
(* Questions about the service of a Member: whether it includes the         *)
(* previous Dail ("served"), how it began in the Seanad ("entry"), what was *)
(* represented there ("panel"), the days of it ("duration"), the terms      *)
(* ("sat"); the committees ("committees", "committee") and the party now    *)
(* ("collection"); and who a name means: all with service in the Dail       *)
(* ("namesakes"), or one, whom the asker chooses when it is not clear       *)
(* ("lookup").                                                             *)
(***************************************************************************)
EXTENDS QuestionService

FirstOfService(kind) == IF kind = "committee" THEN "catalogue" ELSE "member"

Candidates == {"lookup", "namesakes"}
ContextKinds == {"served", "entry", "panel", "duration"}

ResolveServing ==
  /\ q.at = "member" /\ q.family = "service" /\ Kind \notin Candidates
  /\ IF Cardinality(Labelled(store, q.question.name)) >= PageSize THEN End("validation_failure")
     ELSE ResolveMember("member", q.question.name, IF Kind \in ContextKinds THEN "context" ELSE "links")
  /\ Read

----------------------------------------------------------------------------
\* The service of one Member

ServiceHouse ==
  CASE Kind \in {"entry", "panel"} -> "seanad" [] Kind = "lookup" -> q.question.house [] OTHER -> "dail"

\* The service query joins the term and its start: a membership of a term
\* without a record is not seen.
ServiceOf(in, member, house) ==
  LET paths == {x \in in.members \X in.terms :
                  /\ x[1].member = member /\ x[1].house = house /\ x[1].term = x[2].term
                  /\ x[2].house = house /\ x[2].period.from # Unknown}
  IN {[membership |-> x[1].membership, term |-> x[1].term, place |-> x[1].place, name |-> x[1].name,
       period |-> x[1].period, during |-> x[2].period, number |-> x[2].number] : x \in paths}
ServiceRows(in) == ServiceOf(in, q.ids["member"], ServiceHouse)

Represented(rows) == {r.place : r \in rows} \ {Nothing}
Known == IF Kind \in {"entry", "panel"} THEN "evaluate" ELSE "term"

\* _member_context: a query for the service, and a second one for the labels
\* of what it represents, if it represents anything.  Without any recorded
\* service a "no" would say too much.
ReadContext ==
  /\ q.at = "context"
  /\ LET rows == ServiceRows(store)
     IN IF rows = {} THEN End("source_data_unavailable")
        ELSE ReadAll(rows, IF Represented(rows) # {} THEN "labels" ELSE Known)
  /\ Read

LabelsOf(in, places) == places \cap {p.place : p \in {x \in in.places : x.label # Nothing}}

ReadLabels ==
  /\ q.at = "labels" /\ Kind \notin Candidates
  /\ q' = [q EXCEPT !.at = Known, !.left = LabelsOf(store, Represented(q.rows))]
  /\ Read

\* The previous term is looked up after the service.
AnswerServed ==
  /\ q.at = "term" /\ Kind = "served"
  /\ LET r == TermResolved("term", "dail", Previous)
     IN IF r.refusals # {} THEN End("source_data_unavailable")
        ELSE q' = [r EXCEPT !.at = "done", !.status = "success",
                            !.answer = {\E x \in q.rows : x.term = r.ids["term"]}]
  /\ Read

\* Each membership has one range, and an end unless its term may still last.
SeanadCertain(rows) ==
  \A r \in rows : /\ \A x \in rows : x.membership = r.membership => x.period = r.period
                  /\ r.period.to = Open => r.during.to >= AsOf

\* The earliest start of all memberships, when each has one.
EvaluateEntry ==
  /\ q.at = "evaluate" /\ Kind = "entry"
  /\ LET first == {r \in q.rows : \A x \in q.rows : r.period.from <= x.period.from}
     IN IF SeanadCertain(q.rows) /\ \A r \in q.rows : r.period.from # Unknown THEN Answer({r.membership : r \in first})
        ELSE End("source_data_unavailable")
  /\ Read

\* The memberships of the numbered term, some of which must represent
\* something that has a label; the others are shown without.
EvaluatePanel ==
  /\ q.at = "evaluate" /\ Kind = "panel"
  /\ LET rows == {r \in q.rows : r.number = q.question.number}
         shown(r) == IF r.place \in q.left THEN r.place ELSE Nothing
     IN IF SeanadCertain(rows) /\ \E r \in rows : shown(r) # Nothing THEN Answer({<<r.membership, shown(r)>> : r \in rows})
        ELSE End("source_data_unavailable")
  /\ Read

\* merge_service_intervals: the inclusive union, until the reference date.
DaysUntil(to, from) == from..Min({to, AsOf})

\* Ranges are not clipped by their terms: they fit, or the question is
\* refused.  One without an end lasts in the current term only.
FitsTerm(r, current) ==
  /\ r.period.from # Unknown /\ Covers(r.during, r.period.from)
  /\ IF r.period.to # Open THEN r.period.to \in r.period.from..r.during.to
     ELSE r.during.from <= AsOf => /\ r.period.from <= AsOf /\ AsOf <= r.during.to
                                   /\ r.during.to = Open => r.term \in current

\* The chronology is read after the service, and must be that of a previous term too.
AnswerDuration ==
  /\ q.at = "term" /\ Kind = "duration"
  /\ LET rows == {t \in store.terms : t.house = "dail"}
         current == CurrentTerms(rows)
         days == UNION {DaysUntil(r.period.to, r.period.from) : r \in q.rows}
     IN IF /\ Cardinality({<<t.term, t.period>> : t \in rows}) < PageSize
           /\ \A t \in rows : t.period.from # Unknown
           /\ Only(PreviousTerms(rows)) # {}
           /\ \A r \in q.rows : FitsTerm(r, current)
           /\ days # {}
        THEN Answer(days) ELSE End("source_data_unavailable")
  /\ Read

----------------------------------------------------------------------------
\* The links of one Member

SatIn(in, member) == {m.term : m \in {x \in in.members : x.member = member /\ x.house = "dail"}}
CommitteesOf(in) == {s.committee : s \in {x \in in.sittings : x.member = q.ids["member"]}}
LinksOf(in) == IF Kind = "sat" THEN SatIn(in, q.ids["member"]) ELSE CommitteesOf(in)

\* Terms and committees are counted by their links, with no record of
\* themselves; without any a zero would say too much.
ReadLinks ==
  /\ q.at = "links" /\ Kind \in {"sat", "committees"}
  /\ LET links == LinksOf(store)
     IN q' = IF links = {} \/ Cardinality(links) >= PageSize THEN Ended(q, "source_data_unavailable")
             ELSE [q EXCEPT !.at = "done", !.status = "success", !.answer = links, !.pages = 1]
  /\ Read

\* Parties with the range of the record, that of the membership which
\* contains it, and the term of that membership.
CollectionRows(in) ==
  LET paths == {x \in in.episodes \X in.parties \X in.members :
                  x[1].member = q.ids["member"] /\ x[1].party = x[2].party /\ x[1].of = x[3].membership}
      during(term) == {t.period : t \in {x \in in.terms : x.term = term}}
  IN UNION {{[episode |-> x[1].episode, of |-> x[1].of, party |-> x[2].party, name |-> x[2].name,
              period |-> x[1].period, own |-> x[3].period, during |-> d] :
               d \in IF during(x[3].term) = {} THEN {[from |-> Unknown, to |-> Open]} ELSE during(x[3].term)} : x \in paths}

\* A record without an end lasts as long as its membership and its term.
ActiveRecord(r) ==
  /\ Covers(r.period, AsOf)
  /\ r.period.to = Open => Covers(r.own, AsOf) /\ Covers(r.during, AsOf)
Affiliations(rows) == {<<r.party, r.name>> : r \in {x \in rows : ActiveRecord(x)}}

ReadCollection ==
  /\ q.at = "links" /\ Kind = "collection"
  /\ LET rows == CollectionRows(store)
         dated(r) == r.period.from # Unknown /\ (r.period.to = Open => r.during.from # Unknown)
     IN CASE \/ Cardinality(rows) >= PageSize \/ Affiliations(rows) = {}
             \/ \E r, s \in rows : r.episode = s.episode /\ r.of # s.of
             \/ \E r \in rows : ~dated(r) -> End("source_data_unavailable")
          [] Several(Affiliations(rows)) -> End("ambiguous")
          [] OTHER -> Answer(Affiliations(rows))
  /\ Read

----------------------------------------------------------------------------
\* A committee

CommitteeRows(in) ==
  LET during(c) == {t.period : t \in {x \in in.terms : x.term = c.term}}
  IN UNION {{[committee |-> c.committee, label |-> c.label, period |-> c.period, during |-> d] :
               d \in IF during(c) = {} THEN {[from |-> Unknown, to |-> Open]} ELSE during(c)} : c \in in.committees}

LastsNow(period) == period.from # Unknown /\ Covers(period, AsOf)
IsCurrentCommittee(r) == LastsNow(r.period) /\ LastsNow(r.during)
NamedCommittees(in) == {r \in CommitteeRows(in) : r.label = q.question.committee}
CurrentCommittees(in) == {r.committee : r \in {x \in NamedCommittees(in) : IsCurrentCommittee(x)}}

\* The committee of that name that exists now, before the Member is looked up.
ResolveCommittee ==
  /\ q.at = "catalogue"
  /\ LET rows == CommitteeRows(store)
         named == NamedCommittees(store)
         current == CurrentCommittees(store)
     IN q' = CASE Cardinality(rows) >= PageSize -> Ended(q, "source_data_unavailable")
               [] named = {} -> Ended(q, IF \E r \in rows : r.label = Nothing THEN "source_data_unavailable" ELSE "not_found")
               [] current = {} -> Ended(q, "source_data_unavailable")
               [] Several(current) -> Ended(q, "ambiguous")
               [] OTHER -> [q EXCEPT !.ids["committee"] = The(current), !.at = "member"]
  /\ Read

CommitteeRowsOf(in) == {r \in CommitteeRows(in) : r.committee \in CommitteesOf(in)}

\* The committees of the Member are read with their dates once more.  Of
\* several rows of the committee the last one counts.
ReadCommittee ==
  /\ q.at = "links" /\ Kind = "committee"
  /\ LET rows == CommitteeRowsOf(store)
         of == {r \in rows : r.committee = q.ids["committee"] /\ r.label = q.question.committee}
     IN IF Cardinality(rows) >= PageSize \/ of = {} THEN End("source_data_unavailable")
        ELSE \E last \in of : IF IsCurrentCommittee(last) THEN Answer({TRUE}) ELSE End("source_data_unavailable")
  /\ Read

----------------------------------------------------------------------------
\* Whom a name means

\* A selected Member was one of several, of whom the asker chose.
Chosen == q.ids["identity"]
NobodyLeft == IF Chosen = Nothing THEN "not_found" ELSE "validation_failure"

ResolveCandidates ==
  /\ q.at = "member" /\ Kind \in Candidates
  /\ LET rows == Labelled(store, q.question.name)
         found == {r[1] : r \in rows}
     IN q' = CASE Cardinality(rows) >= PageSize -> Ended(q, "validation_failure")
               [] found = {} -> Ended(q, NobodyLeft)
               [] ServiceHouse = Nothing -> [q EXCEPT !.rows = {<<m, TRUE>> : m \in found}, !.at = "evaluate"]
               [] OTHER -> [q EXCEPT !.left = found, !.at = "qualify"]
  /\ Read

NextCandidate(r) == [r EXCEPT !.at = IF r.left = {} THEN "evaluate" ELSE "qualify"]

\* One after the other: a Deputy needs a link to a term, others a service.
Qualify ==
  /\ q.at = "qualify"
  /\ LET m == The(q.left)
         linked == Kind = "lookup" /\ ServiceHouse = "dail"
         service == ServiceOf(store, m, ServiceHouse)
         rows == IF linked THEN SatIn(store, m) ELSE service
         read == [q EXCEPT !.left = @ \ {m}, !.rows = @ \cup {<<m, rows # {}>>}]
         sole == Kind = "namesakes" /\ Cardinality(q.left) + Cardinality(q.rows) = 1
     IN q' = CASE Cardinality(rows) >= PageSize -> Ended(q, IF sole THEN "source_data_unavailable" ELSE "validation_failure")
               [] ~linked /\ Represented(service) # {} -> [read EXCEPT !.at = "labels"]
               [] OTHER -> NextCandidate(read)
  /\ Read

LabelCandidate == q.at = "labels" /\ Kind \in Candidates /\ q' = NextCandidate(q) /\ Read

\* Several are offered with their service in each House.
EvaluateCandidates ==
  /\ q.at = "evaluate" /\ Kind \in Candidates
  /\ LET found == {r[1] : r \in {x \in q.rows : x[2]}}
         matches == IF Chosen = Nothing THEN found ELSE found \cap {Chosen}
     IN CASE matches = {} -> End(IF Kind = "namesakes" THEN "source_data_unavailable" ELSE NobodyLeft)
          [] Kind = "namesakes" \/ Cardinality(matches) = 1 -> Answer(matches)
          [] OTHER -> q' = [q EXCEPT !.rows = matches, !.left = matches \X {"dail", "seanad"}, !.at = "offer"]
  /\ Read

Offered(r) == IF r.left = {} THEN [r EXCEPT !.at = "choosing", !.status = "ambiguous"] ELSE [r EXCEPT !.at = "offer"]

ReadOffer ==
  /\ q.at = "offer"
  /\ LET x == The(q.left)
         service == ServiceOf(store, x[1], x[2])
         read == [q EXCEPT !.left = @ \ {x}]
     IN q' = CASE Cardinality(service) >= PageSize -> Ended(q, "validation_failure")
               [] Represented(service) # {} -> [read EXCEPT !.at = "offerLabels"]
               [] OTHER -> Offered(read)
  /\ Read

LabelOffer == q.at = "offerLabels" /\ q' = Offered(q) /\ Read

\* The question is asked anew with the choice, of the store as it is then.
Choose ==
  /\ q.at = "choosing"
  /\ \E m \in q.rows : q' = [Idle(q.family, q.question) EXCEPT !.at = "member", !.ids["identity"] = m]
  /\ seen' = {store} /\ UNCHANGED <<store, changes>>

\* Choices are kept for a while, and only so many, and each is used once.
ChoiceLost == q.at = "choosing" /\ End("validation_failure") /\ Read

ServiceStep ==
  \/ ResolveServing \/ ReadContext \/ ReadLabels \/ AnswerServed \/ EvaluateEntry \/ EvaluatePanel \/ AnswerDuration
  \/ ReadLinks \/ ReadCollection \/ ResolveCommittee \/ ReadCommittee
  \/ ResolveCandidates \/ Qualify \/ LabelCandidate \/ EvaluateCandidates \/ ReadOffer \/ LabelOffer \/ Choose \/ ChoiceLost

----------------------------------------------------------------------------
\* What the answers mean

Recorded(in, house) ==
  {m \in in.members : /\ m.house = house
                      /\ \E t \in in.terms : t.term = m.term /\ t.house = m.house /\ t.period.from # Unknown}
Serving(in) == {m \in Recorded(in, ServiceHouse) : m.member = q.ids["member"]}

\* Memberships that begin before all others of recorded terms: each recorded start counts.
EntryMeant(in, certain) ==
  LET served == Serving(in)
      starts(m) == {x.period.from : x \in {y \in served : y.membership = m.membership}}
      first(m) == IF certain THEN \A s \in served : \A a \in starts(m), b \in starts(s) : Unknown < a /\ a <= b
                  ELSE Unknown \in starts(m) \/ \A s \in served : \E a \in starts(m), b \in starts(s) : a <= b \/ b = Unknown
  IN {m.membership : m \in {x \in served : first(x)}}

\* Labels are read after the service: they may be those of another store of the time.
PanelMeant(in, certain) ==
  LET shown(m, of) == IF m.place \in LabelsOf(of, {m.place}) THEN m.place ELSE Nothing
  IN UNION {{<<m.membership, shown(m, of)>> : of \in IF certain THEN {in} ELSE seen \cup {in}} :
              m \in {x \in Serving(in) : \E t \in in.terms : t.term = x.term /\ t.number = q.question.number}}

\* The days of all recorded ranges; one without an end lasts as long as its
\* term may, or is sure to be the current one.
DurationMeant(in, certain) ==
  LET until(t) == {p.to : p \in {x.period : x \in {y \in in.terms : y.term = t}}}
      lasts(m, d) ==
        CASE m.period.to # Open -> d <= m.period.to
          [] certain -> \A e \in until(m.term) : IF e = Open THEN Selected(in, "dail", Nothing, m.term) ELSE d <= e
          [] OTHER -> \E e \in until(m.term) : d <= e
      starts(m, d) == m.period.from <= d /\ (certain => m.period.from # Unknown)
  IN {d \in 1..AsOf : \E m \in Serving(in) : starts(m, d) /\ lasts(m, d)}

\* Members of the name, with service of the House if one was named.  Names are
\* read before the service: they may be those of another store of the time.
WhoMeant(in, certain) ==
  LET called(of) == {m.member : m \in {x \in of.members : x.name = q.question.name}}
      named == IF certain THEN called(in) ELSE UNION {called(of) : of \in seen \cup {in}}
      serving == CASE ServiceHouse = Nothing -> named
                   [] Kind = "lookup" /\ ServiceHouse = "dail" -> {m.member : m \in {x \in in.members : x.house = "dail"}}
                   [] OTHER -> {m.member : m \in Recorded(in, ServiceHouse)}
  IN named \cap serving

ServiceMeant(in, certain) ==
  CASE Kind = "served" -> {\E m \in Serving(in) : m.term = q.ids["term"]}
    [] Kind = "entry" -> EntryMeant(in, certain)
    [] Kind = "panel" -> PanelMeant(in, certain)
    [] Kind = "duration" -> DurationMeant(in, certain)
    [] Kind \in {"sat", "committees"} -> LinksOf(in)
    [] Kind = "collection" -> Affiliations(CollectionRows(in))
    [] Kind = "committee" -> {TRUE : c \in CommitteesOf(in) \cap CurrentCommittees(in)}
    [] OTHER -> IF Chosen = Nothing THEN WhoMeant(in, certain) ELSE WhoMeant(in, certain) \cap {Chosen}

\* The identities are the only ones the question could mean, and a Member is
\* looked up until one is left or chosen.
ServiceNamed(in) ==
  /\ Kind \notin Candidates =>
       {m.member : m \in {x \in in.members : x.name = q.question.name}} = {q.ids["member"]}
  /\ Kind = "served" => Selected(in, "dail", Previous, q.ids["term"])
  /\ Kind = "committee" => CurrentCommittees(in) = {q.ids["committee"]}
  /\ Kind = "lookup" => IF Chosen = Nothing THEN Cardinality(WhoMeant(in, TRUE)) = 1 ELSE Chosen \in WhoMeant(in, TRUE)
=============================================================================

---------------------------- MODULE QuestionService ----------------------------
(***************************************************************************)
(* What the question families of the natural-language service share.  A    *)
(* question is answered with several read-only queries: identities are     *)
(* resolved one by one, evidence is read, in pages or under a row cap, and *)
(* then evaluated.  Every choice must be unique and all evidence certain,  *)
(* or the question ends without an answer: refusals are told apart as far  *)
(* as a later step depends on them.  The queries are separate requests: the*)
(* pipeline may replace any named graph between two of them.               *)
(*                                                                         *)
(* A store is what the queries see of the graphs: sets of rows, one for    *)
(* each combination of values that is recorded of a resource.  Dates are   *)
(* numbers; a period from Unknown has no usable start, one to Open no end. *)
(***************************************************************************)
EXTENDS Integers, FiniteSets, SequencesExt

CONSTANTS
  Questions,     \* questions that may be asked, for each family
  Stores,        \* contents the store may have at first, for each kind of question that is executed
  Graphs,        \* contents that may be published of the graphs each kind reads
  AsOf,          \* the reference date
  Previous,      \* selects the term before the current one
  Nothing,       \* selects the current term; an absent value
  PageSize,      \* MAX_RESULT_ROWS, and the cap of an unpaged query
  MaxOffset,     \* MAX_RESULT_OFFSET, a multiple of the page size
  MaxChanges     \* bound on publications while a question runs

ASSUME PagesAreBounded == PageSize \in Nat \ {0} /\ MaxOffset \in Nat /\ AsOf \in Nat
ASSUME NothingIsNoHouse == Nothing \notin {"dail", "seanad"}

VARIABLES
  store,
  seen,       \* the contents of the store since the question was asked
  q,          \* the question, what its wording asks beyond it, its plan, and what has been resolved
  changes

questionVars == <<store, seen, q, changes>>

Unknown == 0
Open == 99

Referents == {"term", "other", "place", "identity", "member", "office", "committee"}

Idle(family, question) ==
  [at |-> "asked", family |-> family, question |-> question, extra |-> Nothing, plan |-> Nothing,
   ids |-> [r \in Referents |-> Nothing], refusals |-> {}, offset |-> 0, rows |-> {}, left |-> {}, pages |-> 0,
   status |-> "none", answer |-> {}]

Kind == q.question.kind
Read == UNCHANGED <<store, seen, changes>>
Ended(r, status) == [r EXCEPT !.at = "done", !.status = status]
End(status) == q' = Ended(q, status)
Answer(set) == q' = [q EXCEPT !.at = "done", !.status = "success", !.answer = set]

Querying == q.at \notin {"asked", "planning", "planned", "done", "evaluate", "choosing"}

\* A run of the pipeline replaces one named graph, also while the asker makes
\* a choice.  Before the first query that would only be another store.
Publish(graph, content) ==
  /\ Querying \/ q.at = "choosing"
  /\ q # [Idle(q.family, q.question) EXCEPT !.at = q.at]
  /\ changes < MaxChanges /\ changes' = changes + 1
  /\ store' = [store EXCEPT ![graph] = content]
  /\ store' # store
  /\ seen' = seen \cup {store'}
  /\ UNCHANGED q

\* QueryExecutionFailure: the endpoint times out or refuses.  It is no
\* evidence of missing data, whatever the query was for.
QueryFails ==
  /\ Querying
  /\ End("execution_failure") /\ Read

----------------------------------------------------------------------------
\* Periods

Covers(period, date) == period.from <= date /\ date <= period.to
Disjoint(p, r) == p.to < r.from \/ r.to < p.from

\* Mutant: one of several recorded ranges is as good as another.
CertainOfOne(periods) == \E p \in periods : p.from # Unknown /\ p.from <= p.to

Certain(periods) == \E p \in periods : periods = {p} /\ p.from # Unknown /\ p.from <= p.to

The(set) == CHOOSE x \in set : TRUE
Several(set) == \E x, y \in set : x # y
Only(set) == IF Cardinality(set) = 1 THEN set ELSE {}

----------------------------------------------------------------------------
\* The identities a question names

\* Two named identities are both looked up before the question ends; an
\* ambiguous one is reported first.
Settled(r, next) ==
  LET worst == CHOOSE s \in r.refusals :
                 \/ s = "ambiguous"
                 \/ "ambiguous" \notin r.refusals /\ s = "source_data_unavailable"
                 \/ r.refusals = {s}
  IN IF r.refusals = {} THEN [r EXCEPT !.at = next] ELSE Ended(r, worst)

\* One of the candidates in the rows, if there are few rows and only one.
Resolved(rows, referent, candidates, none) ==
  CASE Cardinality(rows) >= PageSize -> [q EXCEPT !.refusals = @ \cup {"source_data_unavailable"}]
    [] candidates = {} -> [q EXCEPT !.refusals = @ \cup {none}]
    [] Several(candidates) -> [q EXCEPT !.refusals = @ \cup {"ambiguous"}]
    [] OTHER -> [q EXCEPT !.ids[referent] = The(candidates)]

\* resolve_local_entity_label: the rows that hold the mention, and those with
\* exactly that label; others that hold it count for the cap only.
Labelled(in, mention) == {<<m.member, m.name>> : m \in {x \in in.members : x.name = mention}}
ResolveMember(referent, mention, next) ==
  LET rows == Labelled(store, mention)
  IN q' = Settled(Resolved(rows, referent, {r[1] : r \in rows}, "not_found"), next)

\* resolve_constituency, among the constituencies of the selected term.
ResolveConstituency(next) ==
  LET listed == {p \in store.places : p.term = q.ids["term"]}
  IN q' = Settled(Resolved({<<p.place, p.label>> : p \in listed}, "place",
                           {p.place : p \in {x \in listed : x.label = q.question.place}}, "not_found"), next)

\* resolve_current_dail, resolve_current_house_term: conflicting dates of one term leave none current.
CurrentTerms(rows) ==
  LET periods(term) == {t.period : t \in {x \in rows : x.term = term}}
  IN IF \A t \in rows : Certain(periods(t.term))
     THEN {t.term : t \in {x \in rows : Covers(x.period, AsOf)}} ELSE {}

\* resolve_previous_dail: the whole chronology must be without gaps in the
\* evidence and without overlaps.
PreviousTerms(rows) ==
  LET current == Only(CurrentTerms(rows))
      earlier == {t \in rows : \A c \in rows : c.term \in current => t.period.from < c.period.from}
      last == {t \in earlier : \A s \in earlier : s.period.from <= t.period.from}
  IN IF current # {} /\ \A t, s \in rows : t.term # s.term => Disjoint(t.period, s.period)
     THEN {t.term : t \in last} ELSE {}

\* The queries for the current Dail, and for the previous one of a simple
\* question, leave out terms without a start.
TermRows(in, house, number) ==
  {t \in in.terms : /\ t.house = house
                    /\ CASE number = Nothing -> house = "dail" => t.period.from # Unknown
                         [] number = Previous -> Kind \in {"previous", "served"} => t.period.from # Unknown
                         [] OTHER -> t.number = number}

TermsOf(in, house, number) ==
  LET rows == TermRows(in, house, number)
  IN CASE number = Nothing -> Only(CurrentTerms(rows))
       [] number = Previous -> Only(PreviousTerms(rows))
       [] OTHER -> {t.term : t \in rows}

\* One term answers to its number, or is the only current or previous one.
TermResolved(referent, house, number) ==
  Resolved(TermRows(store, house, number), referent, TermsOf(store, house, number), "source_data_unavailable")

ResolveTerm(referent, house, number, next) == q' = Settled(TermResolved(referent, house, number), next)

\* What the answer to a selector means: no other term could be the one selected.
Selected(in, house, number, term) ==
  LET rows == TermRows(in, house, number)
      of(t) == {r.period : r \in {x \in rows : x.term = t}}
      now(t) == \E p \in of(t) : Covers(p, AsOf)
      terms == {r.term : r \in rows}
  IN CASE number = Nothing -> now(term) /\ \A t \in terms : now(t) => t = term
       [] number = Previous -> \E c \in terms :
            /\ now(c) /\ \A p \in of(term), r \in of(c) : p.to < r.from
            /\ \A t \in terms \ {term, c} : \A p \in of(t) :
                 (\A r \in of(term) : p.to < r.from) \/ (\A r \in of(c) : r.to < p.from)
       [] OTHER -> terms = {term}

----------------------------------------------------------------------------
\* Pages

\* The rows in an order, the same for the same rows.
Page(rows, offset) ==
  LET ordered == FoldSet(LAMBDA row, sequence : Append(sequence, row), <<>>, rows)
  IN {row \in rows : \E i \in (offset + 1)..(offset + PageSize) \cap DOMAIN ordered : ordered[i] = row}

\* Mutant: a full page is taken for the last one.
IsLastFull(page) == Cardinality(page) <= PageSize

IsLast(page) == Cardinality(page) < PageSize

\* The next page of these rows, read from the store as it is now.
ReadPage(rows, next) ==
  LET page == Page(rows, q.offset)
      read == [q EXCEPT !.rows = q.rows \cup page, !.pages = q.pages + 1]
  IN q' = CASE IsLast(page) -> [read EXCEPT !.at = next, !.offset = 0]
            [] ~IsLast(page) /\ q.offset >= MaxOffset -> Ended(q, "source_data_unavailable")
            [] OTHER -> [read EXCEPT !.offset = q.offset + PageSize]

\* The answer of one query
InOnePage(answer) == q' = [q EXCEPT !.at = "done", !.status = "success", !.answer = answer, !.pages = 1]

\* All of these rows with one query, unless they reach its cap.
ReadAll(rows, next) ==
  q' = IF Cardinality(rows) >= PageSize THEN Ended(q, "source_data_unavailable")
       ELSE [q EXCEPT !.rows = rows, !.pages = 1, !.at = next]
=============================================================================

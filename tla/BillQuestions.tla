----------------------------- MODULE BillQuestions -----------------------------
(***************************************************************************)
(* Questions about Bills: those a named Member sponsored ("bills"), how     *)
(* many of them were published in a year ("billcount"); the Bills published *)
(* in a year ("published"), those of a legislative year that are not        *)
(* enacted ("unenacted"); the Bill whose title holds a mention ("titled"),  *)
(* its status ("status") and its sponsors ("sponsors"); and the Bill of a   *)
(* number and year ("bill").                                                *)
(*                                                                         *)
(* A Bill is its number and year, and its graph is named after them.  Its   *)
(* title is the set of mentions the title holds.  Years stand for dates.    *)
(* Process numbers, role labels and events other than the publication are   *)
(* left out.                                                                *)
(***************************************************************************)
EXTENDS QuestionService

FirstOfBills(kind) == IF kind \in {"bills", "billcount"} THEN "member" ELSE "bills"

\* SELECT DISTINCT
Columns(rows, columns) == {Restrict(r, columns) : r \in rows}

BillsIn(rows) == {r.bill : r \in rows}

\* What the rows record of a Bill
Values(rows, bill, column) == {r[column] : r \in {x \in rows : x.bill = bill}} \ {Nothing}

\* _consistent
One(rows, bill, column) == Cardinality(Values(rows, bill, column)) = 1

Told(rows, bill, column) == IF Values(rows, bill, column) = {} THEN {Nothing} ELSE Values(rows, bill, column)

----------------------------------------------------------------------------
\* The Bills a Member sponsored

ResolveSponsor ==
  /\ q.at = "member" /\ q.family = "bills"
  /\ ResolveMember("member", q.question.name, "rows")
  /\ Read

\* The participations of the Member in any Bill, in whichever Bill graph they
\* are recorded; with the Published events when these are asked for, dated or not.
SponsorshipRows(in) ==
  Columns({b \in in.bills : b.participation # Nothing /\ b.member = q.ids["member"]},
          {"bill", "graph", "participation", "primary", "title", "year"}
            \cup IF Kind = "billcount" THEN {"published"} ELSE {})

\* Without any row the coverage of the Bills is asked for.
ReadSponsorships ==
  /\ q.at = "rows" /\ q.family = "bills"
  /\ LET rows == SponsorshipRows(store)
     IN ReadPage(rows, IF q.rows \cup rows = {} THEN "coverage" ELSE "evaluate")
  /\ Read

\* No Bills, or no participation in any, is missing evidence; never that the
\* Member sponsored none.
AskCoverage ==
  /\ q.at = "coverage"
  /\ End(IF \A b \in store.bills : b.participation = Nothing THEN "missing_sponsorship_evidence"
         ELSE "source_data_unavailable")
  /\ Read

\* _published_year_bill_identities: one Bill without a dated publication, and
\* the number is not known.
CountBills ==
  /\ q.at = "evaluate" /\ Kind = "billcount"
  /\ IF \A r \in q.rows : r.published \notin {Nothing, Unknown}
     THEN Answer({r.bill : r \in {x \in q.rows : x.published = q.question.year}})
     ELSE End("source_data_unavailable")
  /\ Read

\* Each row is in the graph of its Bill, and a participation in one Bill.
OwnedByItsBill(rows) ==
  /\ \A r \in rows : r.graph = r.bill
  /\ \A r, s \in rows : r.participation = s.participation => r.bill = s.bill

\* Two titles, a year that is not the Bill's, a flag that is not one, or two of one participation
ContradictsItself(rows) ==
  \E r, s \in rows :
    \/ r.bill = s.bill /\ Several({r.title, s.title} \ {Nothing})
    \/ r.year \notin {Nothing, r.bill[2]}
    \/ r.primary = "malformed"
    \/ r.participation = s.participation /\ r.primary # s.primary

\* readable_bill_sponsorship_result
SponsorshipVerdict(rows) ==
  CASE ~OwnedByItsBill(rows) -> "source_data_unavailable"
    [] ContradictsItself(rows) -> "conflicting_sponsorship_evidence"
    [] \E b \in BillsIn(rows) : Values(rows, b, "title") = {} -> "incomplete_display_evidence"
    [] \E r \in rows : r.primary = Nothing -> "incomplete_primary_status_evidence"
    [] OTHER -> "success"

EvaluateSponsorships ==
  /\ q.at = "evaluate" /\ Kind = "bills"
  /\ LET verdict == SponsorshipVerdict(q.rows)
     IN IF verdict = "success" THEN Answer({<<r.participation, r.bill, r.primary>> : r \in q.rows}) ELSE End(verdict)
  /\ Read

----------------------------------------------------------------------------
\* The Bills of a year

\* One query answers these, unless it reaches its cap.
Project(rows, verdict, answer) ==
  /\ CASE Cardinality(rows) >= PageSize -> End("incomplete_results")
       [] verdict # "success" -> End(verdict)
       [] OTHER -> InOnePage(answer)
  /\ Read

\* One line for each Bill: a row that lacks a value does not contradict one that has it.
Shown(rows, columns) == {[i \in DOMAIN columns |-> The(Told(rows, b, columns[i]))] : b \in BillsIn(rows)}

\* A dated Published event in the year; the legislative year is only shown.
PublishedRows(in) ==
  Columns({b \in in.bills : b.published = q.question.year}, {"bill", "title", "year"})

ListPublished ==
  /\ q.at = "bills" /\ Kind = "published"
  /\ LET rows == PublishedRows(store)
     IN Project(rows, CASE rows = {} -> "source_data_unavailable"
                        [] \E b \in BillsIn(rows) : ~One(rows, b, "title") \/ ~One(rows, b, "year") ->
                             "incomplete_display_evidence"
                        [] OTHER -> "success",
                Shown(rows, <<"bill", "title", "year">>))

\* Every row of a Bill that has the legislative year among its years
RowsOfYear(in) ==
  Columns({b \in in.bills : \E x \in in.bills : x.bill = b.bill /\ x.graph = b.graph /\ x.year = q.question.year},
          {"bill", "title", "year", "status"})

\* The title and year of an enacted Bill must be certain too, though it is
\* not listed; nothing is classified by a status that is not one.
UnenactedVerdict(rows) ==
  LET statuses(b) == Values(rows, b, "status")
      some(issue(_)) == \E b \in BillsIn(rows) : issue(b)
  IN CASE rows = {} -> "source_data_unavailable"
       [] some(LAMBDA b : Several(statuses(b))) -> "conflicting_status_evidence"
       [] some(LAMBDA b : statuses(b) \in {{}, {"odd"}}) -> "incomplete_status_evidence"
       [] some(LAMBDA b : ~One(rows, b, "title") \/ Values(rows, b, "year") # {b[2]}) -> "incomplete_display_evidence"
       [] \A b \in BillsIn(rows) : statuses(b) = {"enacted"} -> "source_data_unavailable"
       [] OTHER -> "success"

Unenacted(rows) == {r \in rows : Values(rows, r.bill, "status") # {"enacted"}}

ListUnenacted ==
  /\ q.at = "bills" /\ Kind = "unenacted"
  /\ LET rows == RowsOfYear(store)
     IN Project(rows, UnenactedVerdict(rows), Shown(Unenacted(rows), <<"bill", "status", "title", "year">>))

----------------------------------------------------------------------------
\* One Bill, by a mention of its title or by its number and year

Titled(in) == {b \in in.bills : b.title # Nothing /\ q.question.title \in b.title}

\* No Bill, several, or one with several titles that hold the mention; else
\* what is asked of the Bill decides.
TitleVerdict(rows, verdict) ==
  CASE rows = {} -> "source_data_unavailable"
    [] Several(BillsIn(rows)) -> "ambiguous"
    [] \E b \in BillsIn(rows) : ~One(rows, b, "title") -> "incomplete_display_evidence"
    [] OTHER -> verdict

FindTitle ==
  /\ q.at = "bills" /\ Kind = "titled"
  /\ LET rows == Columns(Titled(store), {"bill", "title", "year"})
     IN Project(rows, TitleVerdict(rows, "success"), Shown(rows, <<"bill", "title">>))

StatusVerdict(statuses) ==
  CASE Several(statuses) -> "conflicting_status_evidence"
    [] statuses \in {{}, {"odd"}} -> "incomplete_status_evidence"
    [] OTHER -> "success"

StatusesOf(rows) == {r.status : r \in rows} \ {Nothing}

ReadStatus ==
  /\ q.at = "bills" /\ Kind = "status"
  /\ LET rows == Columns(Titled(store), {"bill", "title", "year", "status"})
     IN Project(rows, TitleVerdict(rows, StatusVerdict(StatusesOf(rows))), Shown(rows, <<"bill", "status", "title">>))

\* Each participation with its participant, and the name, if there is one, of the Member
SponsorRows(in) ==
  LET bare == Columns(Titled(in), {"bill", "title", "year", "status", "participation", "member", "primary"})
      names(m) == {x.name : x \in {y \in in.members : y.member = m}} \ {Nothing}
  IN UNION {{r @@ [name |-> n] : n \in IF names(r.member) = {} THEN {Nothing} ELSE names(r.member)} : r \in bare}

\* A participant without a name is shown as such; two, or two names, are a conflict.
SponsorsVerdict(rows) ==
  LET of(p, column) == {r[column] : r \in {x \in rows : x.participation = p}}
      participations == {r.participation : r \in rows} \ {Nothing}
  IN CASE participations = {} -> "source_data_unavailable"
       [] \E p \in participations :
            \/ Several(of(p, "member") \ {Nothing})
            \/ Several(of(p, "name") \ {Nothing})
            \/ of(p, "primary") = {"primary", "supporting"} -> "conflicting_sponsorship_evidence"
       [] \E p \in participations : of(p, "primary") \notin {{"primary"}, {"supporting"}} ->
            "incomplete_primary_status_evidence"
       [] OTHER -> "success"

Sponsorships(rows) ==
  {<<r.participation, r.primary, <<r.member, r.name>>>> : r \in {x \in rows : x.participation # Nothing}}

ReadSponsors ==
  /\ q.at = "bills" /\ Kind = "sponsors"
  /\ LET rows == SponsorRows(store)
     IN Project(rows, TitleVerdict(rows, SponsorsVerdict(rows)), Sponsorships(rows))

\* Only the graph of the Bill itself is read.
RowsOfBill(in) ==
  Columns({b \in in.bills : b.bill = q.question.bill /\ b.graph = b.bill}, {"bill", "title", "year", "status", "memo"})

\* A memorandum without a complete rendition is worse than none.
LookUpBill ==
  /\ q.at = "bills" /\ Kind = "bill"
  /\ LET rows == RowsOfBill(store)
         status == StatusVerdict(StatusesOf(rows))
         verdict == IF status = "success" /\ \E r \in rows : r.memo = "partial" THEN "incomplete_document_evidence" ELSE status
     IN Project(rows, TitleVerdict(rows, verdict), Shown(rows, <<"bill", "status", "title", "memo">>))

BillStep ==
  \/ ResolveSponsor \/ ReadSponsorships \/ AskCoverage \/ CountBills \/ EvaluateSponsorships
  \/ ListPublished \/ ListUnenacted \/ FindTitle \/ ReadStatus \/ ReadSponsors \/ LookUpBill

----------------------------------------------------------------------------
\* What a store may show of the Bills, and what it shows for certain: of a
\* Bill or participation there is one account, and nothing of it is missing.
Sure(accounts) ==
  {a \in accounts : /\ \A i \in DOMAIN a : a[i] # Nothing
                    /\ \A b \in accounts : b[1] = a[1] => b = a}

\* Every line a Bill could have: each value from one of the rows that record it
Accounts(rows, columns) ==
  LET of(b) == {r \in rows : r.bill = b}
      tells(pick, b) == \A i \in DOMAIN columns : pick[i][columns[i]] \in Told(rows, b, columns[i])
  IN UNION {{[i \in DOMAIN columns |-> pick[i][columns[i]]] : pick \in {x \in [DOMAIN columns -> of(b)] : tells(x, b)}} :
              b \in BillsIn(rows)}

BillsMeant(in, certain) ==
  LET accounts(rows, columns) == IF certain THEN Sure(Accounts(rows, columns)) ELSE Accounts(rows, columns)
      sponsorships(rows) == {<<r.participation, r.bill, r.primary>> : r \in rows}
      sponsored == SponsorshipRows(in)
  IN CASE Kind = "bills" ->
            LET known == {r \in sponsored : One(sponsored, r.bill, "title") /\ r.graph = r.bill}
            IN IF certain THEN Sure(sponsorships(known)) ELSE sponsorships(sponsored)
       [] Kind = "billcount" ->
            {b \in BillsIn(sponsored) :
               IF certain
               THEN /\ q.question.year \in Values(sponsored, b, "published")
                    /\ \A r \in sponsored : r.bill = b => r.published \notin {Nothing, Unknown}
               ELSE \E r \in sponsored : r.bill = b /\ r.published \in {q.question.year, Nothing, Unknown}}
       [] Kind = "published" -> accounts(PublishedRows(in), <<"bill", "title", "year">>)
       [] Kind = "unenacted" ->
            {a \in accounts(RowsOfYear(in), <<"bill", "status", "title", "year">>) : a[2] # "enacted"}
       [] Kind = "titled" -> accounts(Titled(in), <<"bill", "title">>)
       [] Kind = "status" -> accounts(Titled(in), <<"bill", "status", "title">>)
       [] Kind = "sponsors" -> IF certain THEN Sure(Sponsorships(SponsorRows(in))) ELSE Sponsorships(SponsorRows(in))
       [] OTHER -> accounts(RowsOfBill(in), <<"bill", "status", "title", "memo">>)

\* The Member or the Bill is the only one the question could mean.
BillsNamed(in) ==
  /\ Kind \in {"bills", "billcount"} =>
       {m.member : m \in {x \in in.members : x.name = q.question.name}} = {q.ids["member"]}
  /\ Kind \in {"titled", "status", "sponsors"} => Cardinality(BillsIn(Titled(in))) = 1
=============================================================================

------------------------------- MODULE Questions -------------------------------
(***************************************************************************)
(* One question of any family, asked of the service while the pipeline     *)
(* publishes.  First the way of the question to its plan: what no family   *)
(* can answer is refused, what would need a guess is sent back, and of the *)
(* rest the service recognizes some wordings as a whole and has the others *)
(* drafted.  The draft, if there is one, may be any.  Then the question    *)
(* the plan stands for is executed.                                        *)
(***************************************************************************)
EXTENDS TermQuestions, PartyQuestions, TenureQuestions, ServiceQuestions, BillQuestions, PlanValidation

AllQuestions == UNION {Questions[family] : family \in DOMAIN Questions}
FamilyOf(kind) == CHOOSE family \in DOMAIN Questions : \E x \in Questions[family] : x.kind = kind
Extras == {Nothing} \cup DOMAIN Phrases

\* The kinds of question each executor answers
FamilyKinds ==
  [members |-> {"members", "date", "previous", "terms", "neighbours"},
   parties |-> {"party", "parties", "term_party", "during_office"},
   houses |-> {"shared", "both", "returned", "listing", "scope", "all_terms", "seats", "groups"},
   tenures |-> {"office", "held", "episodes", "affiliation", "government", "seat", "latest", "career", "sitting"},
   service |-> {"served", "entry", "panel", "duration", "sat", "committees", "collection", "committee", "lookup",
                "namesakes"},
   bills |-> {"bills", "billcount", "bill", "published", "unenacted", "titled", "status", "sponsors"}]

\* A store has the graphs whose periods the executors compare, with dates that
\* can be compared: a literal of another form is read as an unknown date.
DatedGraphs == {"terms", "members", "episodes", "holdings"}
IsDated(period) == period.from \in Nat /\ period.to \in Nat
DatedRows(rows) == \A r \in rows : IsDated(r.period)
IsStore(in) ==
  /\ in = [graph \in DOMAIN in |-> in[graph]]
  /\ \A graph \in DatedGraphs : graph \in DOMAIN in /\ DatedRows(in[graph])

ASSUME KindsAreKnown ==
  /\ \A family \in DOMAIN Questions : family \in DOMAIN FamilyKinds /\ \A x \in Questions[family] : x.kind \in FamilyKinds[family]
  /\ DOMAIN Stores \subseteq {x.kind : x \in AllQuestions}
ASSUME DatesAreNumbers ==
  /\ \A kind \in DOMAIN Stores : \A in \in Stores[kind] : IsStore(in)
  /\ \A kind \in DOMAIN Graphs : \A graph \in DOMAIN Graphs[kind] \cap DatedGraphs :
       \A content \in Graphs[kind][graph] : DatedRows(content)

QuestionInit ==
  /\ \E family \in DOMAIN Questions : \E question \in Questions[family] : \E extra \in Extras :
       /\ extra # Nothing => Wording(question, extra) # Plainly(question)
       /\ q = [Idle(family, question) EXCEPT !.extra = extra]
  /\ store = Nothing /\ seen = {}
  /\ changes = 0

Asked == Wording(q.question, q.extra)

----------------------------------------------------------------------------
\* What is decided on the wording alone

Represents(w) == Says(w, {"TDs", "constituency"} \cup Representing)
OfParties(w) == Represents(w) /\ Says(w, PartyWords \cup {"label"})

InFuture(w) == \E t \in Dates(w) : t[2] > AsOf
ForNow(w) == Says(w, CurrentWords \cup {"thisDail"})

\* _composable_interpretation_preflight: a term that is not given is not
\* guessed, and neither are the days of a year that is not over.
Unclear(w) ==
  /\ OfParties(w) /\ Dates(w) = {} /\ ~Says(w, {"while", "when"})
  /\ \/ Says(w, {"throughout"}) /\ \E t \in w.times : t[1] = "year" /\ t[3] > AsOf
     \/ w.ordinals = {} /\ ~ForNow(w) /\ ~PresentDefault(w)

Inexpressible(w) ==
  /\ OfParties(w)
  /\ \/ Dates(w) # {}
     \/ /\ ~Says(w, {"while", "when"})
        /\ \/ w.ordinals # {} /\ ForNow(w)
           \/ Cardinality(w.ordinals) > 1
           \/ Says(w, {"before", "throughout", "except", "minister"})

Refusal(w) ==
  CASE UnsupportedIntent(w) -> "unsupported_request"
    [] InFuture(w) \/ Unclear(w) -> "clarification_required"
    [] Inexpressible(w) -> "unsupported_request"
    [] OTHER -> "none"

\* semantic_composition_scope: no recognizer may take a part of these.
Compound(w) ==
  \/ Represents(w) /\ Says(w, {"and", "or", "while", "same"})
  \/ Says(w, {"seanad"}) /\ Says(w, {"dail", "TDs"})
  \/ Says(w, {"seanad"}) /\ Says(w, CurrentWords \cup {"currentSeanad"}) /\ Says(w, {"which", "who", "whichParties", "howMany"})

----------------------------------------------------------------------------
\* Recognizers

\* The patterns take a whole wording, but that for the previous Dail, which
\* is searched in it.
SaysAll(x, w) == w = Plainly(x)

\* plan_representation_question: "now" may follow a Member's seat.
TakesRepresentation(x, w) ==
  \/ x.kind \in {"seat", "latest", "career", "sitting"} /\ SaysAll(x, w)
  \/ x.kind \in {"seat", "career"} /\ w = [Plainly(x) EXCEPT !.words = @ \cup {"now"}]

\* plan_government_question
TakesGovernment(x, w) == x.kind = "government" /\ SaysAll(x, w)

\* parse_stage_a_question
TakesService(x, w) ==
  x.kind \in {"entry", "lookup", "listing", "scope", "all_terms"} \cup DOMAIN Requests /\ SaysAll(x, w)

\* handle_stage_c: the phrase is searched for, whatever else is in the wording.
TakesDail(x, w) ==
  x.kind \in DOMAIN DailFamilies /\ Plainly(x).words \subseteq w.words /\ x.number \in w.ordinals

\* plan_stage_b
TakesHeld(x, w) == x.kind = "held" /\ SaysAll(x, w)
TakesBills(x, w) == x.kind \in DOMAIN BillFamilies /\ SaysAll(x, w)

\* plan_question: a year or a date of an office was sent on before it.
TakesPlanQuestion(x, w) ==
  \/ x.kind \in {"bills", "billcount", "affiliation"} /\ SaysAll(x, w)
  \/ x.kind = "office" /\ SaysAll(x, w) /\ \E t \in w.times : t[1] = "window"
  \/ x.kind = "previous" /\ {"represented", "previousDail"} \subseteq w.words /\ x.place \in w.names

Takes(x, w) ==
  \/ TakesRepresentation(x, w)
  \/ TakesGovernment(x, w)
  \/ TakesService(x, w)
  \/ TakesDail(x, w)
  \/ TakesHeld(x, w)
  \/ TakesBills(x, w)
  \/ TakesPlanQuestion(x, w)

Recognized(w) == IF Compound(w) THEN {} ELSE {x \in AllQuestions : Takes(x, w)}

\* The name in a pattern reaches to the end: whatever follows is part of it.
TakesTheRest(w) == {"which", "TDs", "represent"} \subseteq w.words /\ ~Says(w, {"label"})
MayTakeTheRest(w) ==
  \/ {"who", "is"} \subseteq w.words /\ ~Says(w, {"sponsor"})
  \/ {"was", "members", "committee"} \subseteq w.words

----------------------------------------------------------------------------
\* Actions

Refuse ==
  /\ q.at = "asked"
  /\ Refusal(Asked) # "none"
  /\ End(Refusal(Asked)) /\ Read

Passes == q.at = "asked" /\ Refusal(Asked) = "none"

Recognize ==
  /\ Passes
  /\ \E x \in Recognized(Asked) :
       LET plan == Completed(WithPath(Proposal(x)), Asked)
       IN q' = IF x.kind = "held" \/ ValidPlan(plan) THEN [q EXCEPT !.at = "planned", !.plan = plan]
               ELSE Ended(q, "validation_failure")
  /\ Read

\* A name with more in it is nobody's name.
TakeForAName ==
  /\ Passes /\ ~Compound(Asked) /\ Recognized(Asked) = {}
  /\ TakesTheRest(Asked) \/ MayTakeTheRest(Asked)
  /\ End("not_found") /\ Read

AskPlanner ==
  /\ Passes /\ Recognized(Asked) = {}
  /\ Compound(Asked) \/ ~TakesTheRest(Asked)
  /\ q' = [q EXCEPT !.at = "planning"] /\ Read

\* The draft for some question, a count instead, or one with a flaw
Proposals ==
  LET proposals == {Proposal(x) : x \in {y \in AllQuestions : y.kind \notin Undrafted}}
  IN proposals \cup {[d EXCEPT !.answer = Count(d.answer.referent)] : d \in proposals}

Drafts ==
  LET own == IF q.question.kind \in Undrafted THEN {} ELSE {Proposal(q.question)}
  IN Proposals \cup IF q.extra = Nothing THEN UNION {Flawed(d, Asked.names) : d \in own} ELSE {}

Propose(d) ==
  /\ LET plan == Completed(WithPath(d), Asked)
     IN q' = IF Accepts(d, Asked) /\ ValidPlan(plan)
             THEN [q EXCEPT !.at = "planned", !.plan = plan] ELSE Ended(q, "validation_failure")
  /\ Read

\* The model fails, or finds no plan for the question.
Undraftable ==
  /\ q.at = "planning"
  /\ \E status \in {"planner_failure", "unsupported_request"} : End(status)
  /\ Read

Plan == Refuse \/ Recognize \/ TakeForAName \/ AskPlanner \/ (q.at = "planning" /\ \E d \in Drafts : Propose(d)) \/ Undraftable

----------------------------------------------------------------------------
\* The question a plan puts to the store

NumberOf(ref) ==
  CASE ref.selector = Current -> Nothing [] ref.selector = Before -> Previous [] OTHER -> ref.selector[2]
In(p, role) == The(p.refs[role].named)

OfOneTerm(p) ==
  LET asked == [kind |-> "members", number |-> NumberOf(p.refs["term"]), place |-> In(p, "constituency")]
  IN IF p.constraints = {} THEN asked
     ELSE [asked EXCEPT !.kind = "date"] @@ [date |-> The(p.constraints)[4]]

OfTwoTerms(p) ==
  LET numbers == {NumberOf(p.refs[r]) : r \in {"term", "term2"}}
  IN [kind |-> "terms", number |-> Min(numbers), other |-> Max(numbers)]

OfParty(p) ==
  CASE "anchor" \in DOMAIN p.refs ->
         [kind |-> "during_office", number |-> Nothing, identity |-> In(p, "affiliation"), name |-> In(p, "anchor"),
          office |-> In(p, "office")]
    [] IsSeanadParty(p) -> [kind |-> "term_party", house |-> "seanad", number |-> Nothing, identity |-> In(p, "affiliation")]
    [] IsPartyOnly(p) ->
         [kind |-> "term_party", house |-> "dail", number |-> NumberOf(p.refs["term"]), identity |-> In(p, "affiliation")]
    [] p.answer.referent = "affiliation" ->
         [kind |-> "parties", number |-> NumberOf(p.refs["term"]), places |-> p.refs["constituency"].named]
    [] OTHER -> [kind |-> "party", number |-> NumberOf(p.refs["term"]), places |-> p.refs["constituency"].named,
                 identity |-> In(p, "affiliation")]

OfRelationship(p) ==
  CASE "anchorMember" \in DOMAIN p.refs ->
         [kind |-> "neighbours", number |-> NumberOf(p.refs["term"]), name |-> In(p, "anchorMember")]
    [] IsParty(p) -> OfParty(p)
    [] IsHouses(p) -> [kind |-> IF p.refs["term"] = Plain THEN "returned" ELSE "both"]
    [] IsTwoTerms(p) -> OfTwoTerms(p)
    [] OTHER -> OfOneTerm(p)

OfRepresentation(p) ==
  IF p.refs["constituency"].named # {} THEN [kind |-> "sitting", place |-> In(p, "constituency")]
  ELSE [kind |-> CASE p.refs["term"] = Plain -> "career" [] p.refs["term"].selector = Latest -> "latest" [] OTHER -> "seat",
        name |-> In(p, "member")]

OfTerms(p) ==
  CASE p.family = "term_count" -> [kind |-> "all_terms"]
    [] p.refs["term"] = Plain -> [kind |-> "listing"]
    [] OTHER -> [kind |-> "scope", from |-> p.refs["term"].selector[2], to |-> p.refs["term"].selector[3]]

\* The request that was made of the wording, or of a selected capability
OfService(p) ==
  CASE "member" \notin DOMAIN p.refs -> OfTerms(p)
    [] p.family = "seanad_entry" -> [kind |-> "entry", name |-> In(p, "member")]
    [] p.family = "member_lookup" ->
         [kind |-> "lookup", name |-> In(p, "member"), house |-> IF p.constraints = {} THEN Nothing ELSE The(p.constraints)[2]]
    [] p.family = "seanad_representation" ->
         [kind |-> "panel", name |-> In(p, "member"), number |-> The(p.constraints)[2]]
    [] p.family = "committee_boolean" ->
         [kind |-> "committee", name |-> In(p, "member"), committee |-> In(p, "committee")]
    [] OTHER -> [kind |-> CHOOSE k \in DOMAIN Requests : Requests[k] = p.family, name |-> In(p, "member")]

OfBill(p) ==
  CASE p.family = "bill_lookup" ->
         [kind |-> "bill", bill |-> <<p.refs["bill"].selector[2], p.refs["bill"].selector[3]>>]
    [] p.family = "bills_published" -> [kind |-> "published", year |-> The(p.constraints)[4]]
    [] p.family = "non_enacted_bills" -> [kind |-> "unenacted", year |-> The({c \in p.constraints : c[1] = "bill"})[4]]
    [] OTHER -> [kind |-> CHOOSE k \in DOMAIN BillFamilies : BillFamilies[k] = p.family, title |-> In(p, "bill")]

OfSponsorship(p) ==
  IF p.constraints = {} THEN [kind |-> "bills", name |-> In(p, "member")]
  ELSE [kind |-> "billcount", name |-> In(p, "member"), year |-> The(p.constraints)[4]]

OfDail(p) ==
  [kind |-> CHOOSE k \in DOMAIN DailFamilies : DailFamilies[k] = p.family, number |-> NumberOf(p.refs["term"])]

OfCapability(p) ==
  CASE p.family = "office_holding_window" ->
         [kind |-> "office", office |-> In(p, "office"), from |-> The(p.constraints)[3], to |-> The(p.constraints)[4]]
    [] p.family = "office_holding_evidence" -> [kind |-> "episodes", office |-> In(p, "office"), name |-> In(p, "member")]
    [] p.family = "office_overlap" ->
         [kind |-> "held", office |-> In(p, "office"), name |-> In(p, "member"), from |-> The(p.constraints)[3],
          to |-> The(p.constraints)[4]]
    [] OTHER -> OfService(p)

QuestionOf(p) ==
  CASE p.family = "relationship" -> OfRelationship(p)
    [] p.family = "constituency_representation" -> OfRepresentation(p)
    [] p.family = "previous_dail" -> [kind |-> "previous", number |-> Previous, place |-> In(p, "constituency")]
    [] p.family = "shared_dail_terms" -> [kind |-> "shared", name |-> In(p, "member"), second |-> In(p, "member2")]
    [] p.family = "government_party_members" -> [kind |-> "government", identity |-> In(p, "affiliation")]
    [] p.family = "member_party_history" -> [kind |-> "affiliation", name |-> In(p, "member")]
    [] p.family = "member_bill_sponsorship" -> OfSponsorship(p)
    [] p.family \in DOMAIN BillPaths -> OfBill(p)
    [] p.family \in DOMAIN DailPaths -> OfDail(p)
    [] OTHER -> OfCapability(p)

----------------------------------------------------------------------------
\* From the plan to the answer

First(family, kind) ==
  CASE family = "members" -> FirstOfMembers(kind)
    [] family = "parties" -> FirstOfParties(kind)
    [] family = "houses" -> FirstOfHouses(kind)
    [] family = "tenures" -> FirstOfTenures(kind)
    [] family = "bills" -> FirstOfBills(kind)
    [] OTHER -> FirstOfService(kind)

\* The question of the plan is the one that is executed, whatever was asked;
\* nothing has been read of the store until now.
Execute ==
  /\ q.at = "planned"
  /\ LET question == QuestionOf(q.plan)
         family == FamilyOf(question.kind)
     IN /\ question.kind \in DOMAIN Stores
        /\ store' \in Stores[question.kind] /\ seen' = {store'}
        /\ q' = [Idle(family, question) EXCEPT !.at = First(family, question.kind)]
  /\ UNCHANGED changes

QuestionNext ==
  \/ Plan
  \/ Execute
  \/ \E kind \in DOMAIN Graphs \cap {Kind} : \E graph \in DOMAIN Graphs[kind] :
       \E content \in Graphs[kind][graph] : Publish(graph, content)
  \/ MemberStep
  \/ PartyStep
  \/ HouseStep
  \/ TenureStep
  \/ ServiceStep
  \/ BillStep
  \/ QueryFails

QuestionSpec == QuestionInit /\ [][QuestionNext]_questionVars

----------------------------------------------------------------------------
\* What the evidence of a store means for the question

Meant(in, certain) ==
  CASE q.family = "members" -> MembersMeant(in, certain)
    [] q.family = "parties" -> PartiesMeant(in, certain)
    [] q.family = "houses" -> HousesMeant(in, certain)
    [] q.family = "tenures" -> TenuresMeant(in, certain)
    [] q.family = "bills" -> BillsMeant(in, certain)
    [] OTHER -> ServiceMeant(in, certain)

Named(in) ==
  CASE q.family = "members" -> MembersNamed(in)
    [] q.family = "parties" -> PartiesNamed(in)
    [] q.family = "houses" -> HousesNamed(in)
    [] q.family = "tenures" -> TenuresNamed(in)
    [] q.family = "bills" -> BillsNamed(in)
    [] OTHER -> ServiceNamed(in)

Answered == q.status = "success"

\* Without a publication in between, an answer is what every reading of the
\* recorded evidence gives: whichever of several ranges, numbers, names or
\* identities is right, the question means these identities and this answer.
QuietAnswerIsCertain ==
  Answered /\ seen = {store} =>
    /\ Named(store)
    /\ q.answer = Meant(store, TRUE)
    /\ q.answer = Meant(store, FALSE)

\* Whatever was published between the queries, nothing is answered that no
\* store of that time shows: rows of different stores are not put together
\* to an answer none of them gives.
AnswerIsWitnessed ==
  Answered => q.answer \subseteq UNION {Meant(in, FALSE) : in \in seen}

\* An answer that took one query for its rows misses nothing that held
\* throughout: only between pages can a row slip past.
OnePageMissesNobody ==
  Answered /\ q.pages = 1 =>
    \A x \in Meant(store, TRUE) : (\A in \in seen : x \in Meant(in, TRUE)) => x \in q.answer

----------------------------------------------------------------------------
\* The plan of a question

\* Conditions that no validator of the family looks for: a draft that leaves
\* one of them out is accepted.
Unheeded(kind) ==
  CASE kind = "neighbours" -> {}
    [] kind = "during_office" -> {"latest"}
    [] kind = "both" -> {"except", "latest", "month", "orPlace", "throughout", "while", "women", "year"}
    [] OTHER -> {"before", "except", "latest", "minister", "now", "orPlace", "previously", "sameTime", "throughout", "votes",
                 "while", "women", "year"} \cup IF kind = "date" THEN {"month", "otherTerm"} ELSE {}

\* Who represents a constituency on the reference date
SameQuestion(x, y) ==
  \/ x = y
  \/ /\ y.kind = "sitting" /\ x.kind = "date" /\ x.number = Nothing
     /\ x.place = y.place /\ x.date = AsOf

\* Whatever is drafted for a question that relates Members to terms, to each
\* other, to an office or to both Houses: the plan is that question, listed or
\* counted as it was asked.  A draft of a question with fewer conditions, other
\* terms, dates or constituencies is refused, and so is any draft when more is
\* asked than the plan could say, but for what is Unheeded.
PlanIsTheQuestion ==
  /\ q.at = "planned" /\ q.question.kind \in {"members", "date", "terms", "neighbours", "during_office", "both"}
  /\ q.extra \notin Unheeded(q.question.kind)
  => /\ SameQuestion(q.question, QuestionOf(q.plan))
     /\ q.plan.answer.kind = "count" <=> CountIntent(Asked)
     /\ q.extra \in {Nothing, "count", "unqualified"}
=============================================================================

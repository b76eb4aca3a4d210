---------------------------- MODULE PlanValidation ----------------------------
(***************************************************************************)
(* What a plan must be to be executed: its referents, the graph of its     *)
(* relations, its constraints and its answer are exactly those of one of   *)
(* the shapes for which there is a compiler.  A plan is a draft that was   *)
(* completed with the reference date, and says whether that date was only  *)
(* inferred from the wording.                                              *)
(*                                                                         *)
(* And a draft against the wording it is a draft of: each family of        *)
(* questions has a validator; the words of a condition it cannot express   *)
(* refuse the draft, what it names is in the wording, what the wording     *)
(* names is kept, and the graph is the whole graph of one of the shapes.   *)
(***************************************************************************)
EXTENDS QuestionPlans

Has(d, roles) == DOMAIN d.refs = roles
PlainIn(d, roles) == \A r \in roles : d.refs[r] = Plain

\* _validate_named_composition_ref, and the same contract inside each family
OneName(ref) == Cardinality(ref.named) = 1 /\ ref.selector = None
OnlyNames(d, role) == OneName(d.refs[role]) /\ PlainIn(d, DOMAIN d.refs \ {role})
IsNumbered(ref) == ref.named = {} /\ ref.selector[1] = "termNumber"
IsCurrent(ref) == ref = Selects(Current)

MemberList == List("member", {})
MemberCount == Count("member")
PartyEvidence(membership) == {"affiliation", "episode", membership}

----------------------------------------------------------------------------
\* The shapes

IsOneTerm(d) == Has(d, {"member", "membership", "term", "constituency"})
IsTwoTerms(d) == Has(d, {"member", "membership", "membership2", "term", "term2"})
IsParty(d) == "episode" \in DOMAIN d.refs
IsSeanadParty(d) == Has(d, {"member", "seanad_membership", "episode", "party", "seanad_term", "affiliation"})
IsPartyOnly(d) == Has(d, InParty \cup {"term", "affiliation"}) \/ IsSeanadParty(d)
IsPartyInPlace(d) == Has(d, InParty \cup {"term", "affiliation", "constituency"})
IsHouses(d) == DOMAIN d.refs \cap {"seanad_membership", "seanad_term"} # {}
HouseRoles == {"member", "seanad_membership", "seanad_term", "membership", "term"}
SharedRoles == {"member", "membership", "term", "constituency", "anchorMember", "anchorMembership"}
AnchoredRoles ==
  InParty \cup {"term", "affiliation", "constituency", "anchor", "anchor_membership", "holding", "office"}

\* Each membership leads to a term of its own.
TwoTermGraph(edges) ==
  \E term \in Bijection({"membership", "membership2"}, {"term", "term2"}) :
    edges = Path("member", "membership", term["membership"]) \cup Path("member", "membership2", term["membership2"])

SharedGraph == Representation \cup Shared("anchorMember", "anchorMembership")
SharedTermsGraph(edges) ==
  \E membership \in Bijection({"member", "member2"}, {"membership", "membership2"}) :
    edges = Path("member", membership["member"], "term") \cup Path("member2", membership["member2"], "term")

OfficeGraph ==
  PartyOf("membership", "term") \cup SeatFor("membership") \cup Occurrence \cup Shared("anchor", "anchor_membership") \cup Office

----------------------------------------------------------------------------
\* The validators

\* _validate_member_relationship_composition_plan: its referents, its graph,
\* and what the rest may be of either.
RelationshipReferents(d) ==
  /\ IsOneTerm(d) \/ IsTwoTerms(d)
  /\ PlainIn(d, DOMAIN d.refs \ {"term", "term2", "constituency"})
  /\ \A r \in {"term", "term2"} \cap DOMAIN d.refs : IsNumbered(d.refs[r]) \/ IsCurrent(d.refs[r])
  /\ IsOneTerm(d) => OneName(d.refs["constituency"])

RelationshipGraph(d) ==
  \/ IsOneTerm(d) /\ d.edges = Representation
  \/ IsTwoTerms(d) /\ TwoTermGraph(d.edges) /\ \A r \in {"term", "term2"} : IsNumbered(d.refs[r])

RelationshipPlan(p) ==
  /\ RelationshipReferents(p) /\ RelationshipGraph(p)
  /\ IsTwoTerms(p) => p.refs["term"] # p.refs["term2"]
  /\ p.answer \in IF IsOneTerm(p) THEN {MemberList, MemberCount} ELSE {MemberList}
  /\ p.constraints # {} => IsOneTerm(p) /\ \E c \in p.constraints : p.constraints = {c} /\ c[3] = "on"
  /\ p.inferred => IsOneTerm(p) /\ IsCurrent(p.refs["term"]) /\ p.constraints = {On(AsOf)}

SharedConstituencyPlan(p) ==
  /\ Has(p, SharedRoles) /\ ~p.inferred
  /\ PlainIn(p, {"member", "membership", "constituency", "anchorMembership"})
  /\ OneName(p.refs["anchorMember"])
  /\ IsNumbered(p.refs["term"]) \/ p.refs["term"] = Selects(Before)
  /\ p.edges = SharedGraph
  /\ p.constraints = {}
  /\ p.answer \in {MemberList, MemberCount}

CrossHousePlan(p) ==
  /\ Has(p, HouseRoles) /\ ~p.inferred
  /\ PlainIn(p, {"member", "seanad_membership", "membership"})
  /\ IsCurrent(p.refs["seanad_term"]) /\ IsCurrent(p.refs["term"])
  /\ p.edges = Houses /\ p.constraints = {}
  /\ p.answer = MemberList

PriorDailPlan(p) ==
  /\ Has(p, HouseRoles) /\ ~p.inferred
  /\ PlainIn(p, HouseRoles \ {"seanad_term"}) /\ IsCurrent(p.refs["seanad_term"])
  /\ p.edges = Houses /\ p.constraints = {}
  /\ p.answer \in {List("member", HouseRoles \ {"member"}), MemberCount}

\* A named party, or all parties of the term; its Members, in one or a few
\* constituencies or those the anchor held the office for.
Anchored(p) == "anchor" \in DOMAIN p.refs
PartyMembership(p) == IF IsSeanadParty(p) THEN "seanad_membership" ELSE "membership"
PartyTerm(p) == IF IsSeanadParty(p) THEN "seanad_term" ELSE "term"
ListsParties(p) == p.answer.referent = "affiliation"

PartyRoles(p) ==
  /\ Has(p, AnchoredRoles) \/ IsPartyInPlace(p) \/ IsPartyOnly(p)
  /\ PlainIn(p, {"member", PartyMembership(p), "episode", "party"})
  /\ Anchored(p) => /\ PlainIn(p, {"term", "constituency", "anchor_membership", "holding"}) /\ ~p.inferred
                     /\ OneName(p.refs["anchor"]) /\ OneName(p.refs["office"])
  /\ IsPartyOnly(p) => IF IsSeanadParty(p) THEN IsCurrent(p.refs["seanad_term"]) ELSE IsNumbered(p.refs["term"])
  /\ IsPartyInPlace(p) => IsNumbered(p.refs["term"]) \/ IsCurrent(p.refs["term"])
  /\ p.inferred => IsPartyOnly(p) \/ IsCurrent(p.refs["term"])

PartyNames(p) ==
  /\ IsPartyInPlace(p) => /\ p.refs["constituency"].selector = None
                          /\ Cardinality(p.refs["constituency"].named) \in 1..4
  /\ IF ListsParties(p) THEN IsPartyInPlace(p) /\ p.refs["affiliation"] = Plain ELSE OneName(p.refs["affiliation"])

PartyGraph(p) ==
  p.edges = CASE Anchored(p) -> OfficeGraph
              [] IsPartyOnly(p) -> PartyOf(PartyMembership(p), PartyTerm(p))
              [] OTHER -> PartyOf("membership", "term") \cup SeatFor("membership") \cup Occurrence

PartyAnswers(p) ==
  LET evidence == PartyEvidence(PartyMembership(p))
  IN CASE Anchored(p) -> {List("member", evidence \cup {"holding", "anchor_membership", "constituency"})}
       [] IsPartyOnly(p) -> {List("member", evidence), MemberCount}
       [] OTHER -> {List("member", evidence), List("affiliation", {"member", "episode", "membership"})}

PartyPlan(p) ==
  /\ PartyRoles(p) /\ PartyNames(p) /\ PartyGraph(p)
  /\ p.constraints = {Overlap(PartyMembership(p))} \cup IF Anchored(p) THEN {Other, AllAtOnce} ELSE {}
  /\ p.answer \in PartyAnswers(p)

SharedTermsPlan(p) ==
  /\ Has(p, {"member", "member2", "membership", "membership2", "term"})
  /\ OneName(p.refs["member"]) /\ OneName(p.refs["member2"])
  /\ p.refs["member"].named # p.refs["member2"].named
  /\ PlainIn(p, {"membership", "membership2", "term"})
  /\ SharedTermsGraph(p.edges)
  /\ p.constraints = {} /\ p.answer = List("term", {})

\* validate_representation_plan
RepresentationPlan(p) ==
  LET named == {r \in {"member", "constituency"} : p.refs[r].named # {}}
  IN /\ IsOneTerm(p) /\ Cardinality(named) = 1
     /\ p.refs["term"] \in {Plain, Selects(Current), Selects(Latest)}
     /\ p.refs["term"].selector \in {None, Latest} => named = {"member"}
     /\ PlainIn(p, {"membership", "member", "constituency"} \ named) /\ \A r \in named : OneName(p.refs[r])
     /\ p.answer = List(IF named = {"member"} THEN "constituency" ELSE "member", {"term"})
     /\ p.inferred => IsCurrent(p.refs["term"]) /\ named = {"constituency"}
     /\ p.edges = Representation /\ p.constraints = {}

\* validate_government_plan
GovernmentPlan(p) ==
  /\ Has(p, {"member", "cabinet", "government", "episode", "party", "affiliation"})
  /\ OnlyNames(p, "affiliation")
  /\ p.edges = Affiliated \cup Cabinets
  /\ p.constraints = {} /\ p.answer = List("member", {"affiliation", "cabinet", "episode"})

HistoryPlan(p) ==
  /\ Has(p, {"member", "episode", "party", "affiliation"}) /\ OnlyNames(p, "member")
  /\ p.edges = Affiliated /\ p.constraints = {} /\ p.answer = List("affiliation", {})

\* The plan for the previous Dail: of one constituency, named.
PreviousPlan(p) ==
  /\ Has(p, {"member", "membership", "term", "constituency"})
  /\ p.refs["term"].selector = Before /\ OneName(p.refs["constituency"])
  /\ p.edges = Representation /\ p.constraints = {} /\ p.answer = List("member", {})

\* The Bills of a Member, or the number of those published in a year
SponsorshipPlan(p) ==
  /\ OnlyNames(p, "member")
  /\ IF p.constraints = {}
     THEN Has(p, {"member", "participation", "bill"}) /\ p.edges = Sponsors /\ p.answer = List("bill", {})
     ELSE /\ Has(p, {"member", "participation", "bill", "process", "activity"}) /\ p.edges = Lifecycle \cup Participants
          /\ \E c \in p.constraints : p.constraints = SponsoredIn(c[4])
          /\ p.answer = Count("bill")

\* _validate_stage_a_plan: the path of the family and no other referents; of
\* the House terms alone, all of them or those of a date or a month.
ServicePlan(p) ==
  IF "member" \in DOMAIN p.refs
  THEN LET path == ServicePaths[p.family]
       IN /\ Has(p, {"member"} \cup Ends(path)) /\ OneName(p.refs["member"])
          /\ p.edges = path /\ p.answer = Whole("member")
  ELSE /\ Has(p, {"term"}) /\ p.edges = {} /\ p.constraints = {}
       /\ IF p.family = "term_count" THEN p.refs["term"] = Plain /\ p.answer = Count("term")
          ELSE /\ p.refs["term"].named = {} /\ p.answer = List("term", {})
               /\ LET s == p.refs["term"].selector IN s = None \/ (s[1] = "during" /\ s[2] <= s[3])

\* validate_stage_b_plan: the path of the family, and of the Bill what it asks.
BillPlan(p) ==
  LET path == BillPaths[p.family]
      bill == p.refs["bill"]
  IN /\ Has(p, {"bill"} \cup Ends(path)) /\ PlainIn(p, DOMAIN p.refs \ {"bill"})
     /\ p.edges = path /\ p.answer = Whole("bill")
     /\ CASE p.family = "bill_lookup" -> bill.named = {} /\ bill.selector[1] = "numberYear" /\ p.constraints = {}
          [] p.family = "bills_published" -> bill = Plain /\ \E c \in p.constraints : p.constraints = PublishedIn(c[4])
          [] p.family = "non_enacted_bills" ->
               bill = Plain /\ \E c \in p.constraints : c[1] = "bill" /\ p.constraints = NotEnacted(c[4])
          [] OTHER -> OneName(bill) /\ p.constraints = {}

\* validate_stage_c_plan: a numbered Dail, and for its parties their path.
DailPlan(p) ==
  LET path == DailPaths[p.family]
  IN /\ Has(p, {"term"} \cup Ends(path)) /\ IsNumbered(p.refs["term"]) /\ PlainIn(p, DOMAIN p.refs \ {"term"})
     /\ p.edges = path /\ p.constraints = {} /\ p.answer = Whole(Object(p.family))

ARelationship(p) ==
  CASE "anchorMember" \in DOMAIN p.refs -> SharedConstituencyPlan(p)
    [] IsHouses(p) /\ ~IsParty(p) -> IF p.refs["term"].selector = None THEN PriorDailPlan(p) ELSE CrossHousePlan(p)
    [] IsParty(p) -> PartyPlan(p)
    [] OTHER -> RelationshipPlan(p)

\* validate_plan
ValidPlan(p) ==
  CASE p.family = "relationship" -> ARelationship(p)
    [] p.family = "shared_dail_terms" -> SharedTermsPlan(p)
    [] p.family = "constituency_representation" -> RepresentationPlan(p)
    [] p.family = "government_party_members" -> GovernmentPlan(p)
    [] p.family = "member_party_history" -> HistoryPlan(p)
    [] p.family = "previous_dail" -> PreviousPlan(p)
    [] p.family = "member_bill_sponsorship" -> SponsorshipPlan(p)
    [] p.family \in DOMAIN ServicePaths \cup {"house_terms"} -> ServicePlan(p)
    [] p.family \in DOMAIN BillPaths -> BillPlan(p)
    [] p.family \in DOMAIN DailPaths -> DailPlan(p)
    [] OTHER -> p.family \in Capabilities

----------------------------------------------------------------------------
\* A draft against the wording

Says(w, words) == w.words \cap words # {}
CurrentWords == {"current", "now"}
Representing == {"represent", "represented"}
PartyWords == {"party", "parties"}
SaysDigits(w) == w.ordinals # {} \/ w.times # {}
Dates(w) == {t \in w.times : t[1] = "date"}
Bare(d) == d @@ [inferred |-> FALSE]
CountIntent(w) == Says(w, {"howMany"})
Grounded(d, w) == \A r \in DOMAIN d.refs : d.refs[r].named \subseteq w.names

----------------------------------------------------------------------------
\* interpretation: defaults of the wording, and what no family can answer

UnsupportedIntent(w) ==
  \/ Says(w, {"elected"})
  \/ Says(w, {"constituency", "TDs"} \cup Representing) /\ CountIntent(w) /\ Says(w, {"seats"})
  \/ Says(w, {"office", "minister"}) /\ Says(w, {"throughout"})

NotPresent == {"did", "were", "was", "previousDail", "elected", "throughout", "before", "on", "seanad"}
PresentDefault(w) ==
  /\ Says(w, {"are", "is", "represent"})
  /\ ~Says(w, NotPresent) /\ ~SaysDigits(w)

\* "in this Dáil" is the whole term, unless the wording is also of today.
AsOfDefault(w) ==
  CASE Says(w, {"thisDail"}) /\ ~Says(w, CurrentWords) -> FALSE
    [] Says(w, CurrentWords) -> ~Says(w, NotPresent) /\ ~SaysDigits(w)
    [] OTHER -> PresentDefault(w)

----------------------------------------------------------------------------
\* Existing capabilities with a graph of their own

LeavesCondition(w) ==
  Says(w, {"except", "before", "while", "howMany", "elected"}) \/ \E t \in w.times : t[1] # "seanad"

RepresentationDraft(d, w) ==
  LET selector == d.refs["term"].selector
      member == d.refs["member"].named # {}
      place == d.refs["constituency"].named # {}
  IN /\ RepresentationPlan(Bare(d))
     /\ ~LeavesCondition(w) /\ ~Says(w, {"seanad", "panel", "label"} \cup PartyWords)
     /\ selector = None => ~Says(w, CurrentWords \cup {"does", "are", "latestTerm"})
     /\ selector = Latest <=> Says(w, {"latestTerm"})
     /\ selector = Latest => member /\ w.ordinals = {} /\ ~Says(w, CurrentWords)
     /\ selector = Current => \/ Says(w, CurrentWords)
                              \/ IF member THEN Says(w, {"does"}) ELSE PresentDefault(w)
     /\ place /\ PresentDefault(w) => selector = Current

GovernmentDraft(d, w) ==
  /\ GovernmentPlan(d)
  /\ ~LeavesCondition(w) /\ ~Says(w, {"committee", "constituency"})

HistoryDraft(d, w) ==
  /\ HistoryPlan(d)
  /\ ~LeavesCondition(w)
  /\ ~Says(w, CurrentWords \cup {"government", "minister", "constituency"})

SponsorshipDraft(d, w) == SponsorshipPlan(d) /\ d.constraints = {} /\ ~LeavesCondition(w)

----------------------------------------------------------------------------
\* Selections of capabilities that have parameters only

LookupDraft(d, w) ==
  /\ \E house \in {Nothing, "dail", "seanad"} :
       /\ d.constraints = IF house = Nothing THEN {} ELSE {<<"house", house>>}
       /\ Says(w, {"TDs", "dail"}) <=> house = "dail"
       /\ Says(w, {"seanad"}) <=> house = "seanad"
  /\ ~Says(w, PartyWords \cup CurrentWords
              \cup {"constituency", "elected", "minister", "when", "before", "served", "howMany", "and", "except", "bills",
                    "sponsor", "committee", "votes"})
  /\ ~SaysDigits(w)

EntryDraft(w) ==
  ~Says(w, CurrentWords \cup Representing \cup {"dail", "panel", "constituency", "party", "howMany", "elected"})

\* current_office_point_mention: "Who is the Taoiseach?"
CurrentOffice(w) ==
  /\ {"who", "is"} \subseteq w.words /\ ~SaysDigits(w)
  /\ ~Says(w, PartyWords \cup {"on", "before", "throughout", "elected", "and", "while", "members", "TDs", "constituency",
                               "howMany", "sponsor"})

\* A window is two months, or one; a year is the only one in the wording.
OfficeWindowDraft(d, w) ==
  \E period \in d.constraints :
    /\ d.constraints = {period}
    /\ ~Says(w, {"throughout"})
    /\ \/ period = HeldIn(AsOf, AsOf) /\ CurrentOffice(w)
       \/ \E t \in w.times : /\ period = HeldIn(t[2], t[3])
                             /\ \/ t[1] = "year" /\ w.times = {t}
                                \/ t[1] \in {"window", "date"} /\ \A s \in w.times : s[1] = t[1] => s = t
    /\ ~Says(w, PartyWords \cup {"and", "while", "constituency", "TDs", "members", "elected", "howMany", "except", "before"})

\* Only "When was Ann Taoiseach?" and its like.
OfficeEvidenceDraft(d, w) ==
  /\ w.words = {"when", "was", "office"} /\ ~SaysDigits(w)
  /\ w.names = d.refs["member"].named \cup d.refs["office"].named

\* One number and year, the only ones in the wording
BillLookupDraft(d, w) ==
  /\ {Selects(<<"numberYear", t[2], t[3]>>) : t \in {x \in w.times : x[1] = "bill"}} = {d.refs["bill"]}
  /\ ~Says(w, {"sponsor", "votes", "constituency", "party", "minister", "before"} \cup Representing)

\* The parties of a numbered Dail and no Members; a year is a condition.
GroupsDraft(d, w) ==
  /\ IsNumbered(d.refs["term"]) /\ w.ordinals = {d.refs["term"].selector[2]}
  /\ ~Says(w, CurrentWords \cup {"represent", "constituency", "TDs", "members", "minister", "before", "howMany", "except",
                                 "bills", "sponsor", "votes", "committee"})
  /\ \A t \in w.times : t[1] = "seanad"

CapabilityDraft(d, w) ==
  /\ d.edges = {} /\ (d.family \notin {"office_holding_window", "member_lookup"} => d.constraints = {}) /\ d.answer = List("none", {})
  /\ CASE d.family = "member_lookup" -> Has(d, {"member"}) /\ OneName(d.refs["member"]) /\ LookupDraft(d, w)
       [] d.family = "seanad_entry" -> Has(d, {"member"}) /\ OneName(d.refs["member"]) /\ EntryDraft(w)
       [] d.family = "bill_lookup" -> Has(d, {"bill"}) /\ BillLookupDraft(d, w)
       [] d.family = "dail_parties_and_groups" -> Has(d, {"term"}) /\ GroupsDraft(d, w)
       [] d.family = "office_holding_window" -> Has(d, {"office"}) /\ OneName(d.refs["office"]) /\ OfficeWindowDraft(d, w)
       [] OTHER -> /\ Has(d, {"member", "office"}) /\ OneName(d.refs["member"]) /\ OneName(d.refs["office"])
                   /\ OfficeEvidenceDraft(d, w)

----------------------------------------------------------------------------
\* Relationships of Members with terms and constituencies

\* Mutant: the ordinals are not compared with the selected terms.
ForgetsOrdinals(d, w) == TRUE

Terms(d) == {r \in {"term", "term2"} \cap DOMAIN d.refs : d.refs[r].selector # None}
KeepsOrdinals(d, w) ==
  /\ {<<"termNumber", n>> : n \in w.ordinals} = {d.refs[r].selector : r \in Terms(d)} \ {Current}
  /\ Cardinality({r \in Terms(d) : IsNumbered(d.refs[r])}) = Cardinality(w.ordinals)

KeepsDate(d, w) ==
  /\ Cardinality(Dates(w)) <= 1
  /\ IF d.constraints = {} THEN Dates(w) = {} /\ \A t \in w.times : t[1] # "window"
     ELSE \E t \in Dates(w) : d.constraints = {On(t[2])}

RelationshipRefs(d, w) ==
  /\ RelationshipReferents(d)
  /\ \A r \in Terms(d) : IsCurrent(d.refs[r]) => Says(w, CurrentWords \cup {"thisDail", "currentDail"})

RelationshipAnswer(w) == IF CountIntent(w) THEN MemberCount ELSE MemberList

RelationshipDraft(d, w) ==
  /\ ~Says(w, {"seanad", "party", "label"})
  /\ RelationshipRefs(d, w)
  /\ KeepsOrdinals(d, w)
  /\ KeepsDate(d, w)
  /\ RelationshipGraph(d)
  /\ CountIntent(w) \/ d.constraints # {} => IsOneTerm(d)
  /\ d.answer = RelationshipAnswer(w)

\* Words that may remain when the names and ordinals are taken away
NeighbourWords ==
  {"who", "which", "howMany", "other", "TDs", "members", "same", "constituency", "sameConstituency", "were", "was", "are", "is", "did", "does",
   "served", "dail", "previousDail"} \cup Representing
BoundedWords ==
  (NeighbourWords \cup CurrentWords \cup {"while", "when", "and", "or", "currentDail", "latestTerm", "office"})
    \ {"howMany", "previousDail"}

SharedConstituencyDraft(d, w) ==
  /\ SharedConstituencyPlan(Bare(d))
  /\ Says(w, {"constituency"}) /\ Says(w, {"same"}) /\ Says(w, {"other"})
  /\ \/ IsNumbered(d.refs["term"]) /\ w.ordinals = {d.refs["term"].selector[2]} /\ Says(w, {"dail"})
     \/ d.refs["term"] = Selects(Before) /\ w.ordinals = {} /\ Says(w, {"previousDail"})
  /\ d.answer = IF CountIntent(w) THEN MemberCount ELSE MemberList
  /\ w.times = {} /\ w.words \subseteq NeighbourWords /\ w.names \subseteq d.refs["anchorMember"].named

\* The anchor of an office, or several constituencies
IsBounded(d) ==
  \/ "anchor" \in DOMAIN d.refs
  \/ "constituency" \in DOMAIN d.refs /\ Cardinality(d.refs["constituency"].named) > 1

BoundedDraft(d, w) ==
  LET mentions == UNION {d.refs[r].named : r \in DOMAIN d.refs}
  IN /\ ValidPlan(Bare(d))
     /\ ~Says(w, {"except", "before", "howMany", "votes", "bills", "elected"}) /\ w.times = {}
     /\ w.words \ {"label"} \subseteq BoundedWords /\ w.names \subseteq mentions
     /\ IF "anchor" \in DOMAIN d.refs
        THEN /\ Says(w, {"sameConstituency"}) /\ Says(w, {"while", "when"})
             /\ w.ordinals = {} /\ ~Says(w, CurrentWords)
        ELSE /\ d.answer.referent = "member"
             /\ \/ IsCurrent(d.refs["term"]) /\ w.ordinals = {} /\ (Says(w, CurrentWords) \/ PresentDefault(w))
                \/ IsNumbered(d.refs["term"]) /\ w.ordinals = {d.refs["term"].selector[2]}
             /\ Says(w, {"and", "or"})

----------------------------------------------------------------------------
\* Parties

PartyDraftShape(d) ==
  /\ PlainIn(d, {"member", PartyMembership(d), "episode", "party"})
  /\ d.edges = PartyOf(PartyMembership(d), PartyTerm(d))
               \cup IF IsPartyOnly(d) THEN {} ELSE SeatFor("membership") \cup Occurrence
  /\ d.constraints = {Overlap(PartyMembership(d))}

\* A list of all parties names none; any other answer keeps the party.
KeepsParty(d, w) ==
  IF Says(w, {"whichParties"}) THEN d.refs["affiliation"].named = {} /\ ~IsPartyOnly(d)
  ELSE d.refs["affiliation"].named # {}

PartyAnswer(d, w) ==
  CASE Says(w, {"whichParties"}) -> d.answer = List("affiliation", {"member", "episode", "membership"})
    [] CountIntent(w) -> IsPartyOnly(d) /\ d.answer = MemberCount
    [] OTHER -> d.answer = List("member", PartyEvidence(PartyMembership(d)))

SeanadPartyDraft(d, w) ==
  /\ IsCurrent(d.refs["seanad_term"]) /\ Says(w, {"currentSeanad"})
  /\ w.ordinals = {} /\ Dates(w) = {}
  /\ ~Says(w, Representing \cup {"previously", "previousDail", "before", "elected", "votes", "bills", "seats", "TDs"})

DailPartyDraft(d, w) ==
  /\ ~Says(w, {"seanad"})
  /\ IsPartyOnly(d) \/ IsPartyInPlace(d)
  /\ IsPartyInPlace(d) => OneName(d.refs["constituency"])
  /\ \/ IsNumbered(d.refs["term"]) /\ w.ordinals = {d.refs["term"].selector[2]}
     \/ /\ IsCurrent(d.refs["term"]) /\ ~IsPartyOnly(d) /\ w.ordinals = {}
        /\ Says(w, CurrentWords) \/ PresentDefault(w)

PartyDraftFits(d, w) ==
  /\ "affiliation" \in DOMAIN d.refs
  /\ Cardinality(d.refs["affiliation"].named) <= 1 /\ d.refs["affiliation"].selector = None
  /\ IF IsSeanadParty(d) THEN SeanadPartyDraft(d, w) ELSE DailPartyDraft(d, w)
  /\ ~Says(w, {"and", "or", "while", "same", "other", "elected"})
  /\ KeepsParty(d, w) /\ PartyDraftShape(d) /\ PartyAnswer(d, w)

----------------------------------------------------------------------------
\* Both Houses

CrossHouseDraft(d, w) ==
  /\ CrossHousePlan(Bare(d))
  /\ {"currentSeanad", "currentDail"} \subseteq w.words
  /\ ~Says(w, PartyWords \cup {"now", "sameTime", "previously", "previousDail", "before", "constituency", "minister", "elected", "bills", "votes",
                               "howMany", "seats"})
  /\ Dates(w) = {} /\ w.ordinals = {}

PriorDailDraft(d, w) ==
  /\ PriorDailPlan(Bare(d))
  /\ Says(w, {"currentSenators", "currentSeanad"}) /\ Says(w, {"dail", "TDs"}) /\ Says(w, {"previously", "previousDail", "before"})
  /\ ~Says(w, PartyWords \cup {"label", "sameTime", "constituency", "minister", "elected", "bills", "votes", "seats",
                               "currentDail", "thisDail"})
  /\ ~SaysDigits(w)

SharedTermsDraft(d, w) == SharedTermsPlan(d)

----------------------------------------------------------------------------

\* validate_composable_plan_draft
Accepts(d, w) ==
  /\ ~UnsupportedIntent(w)
  /\ ~(CountIntent(w) /\ Says(w, {"seats"}) /\ d.family = "relationship")
  /\ CountIntent(w) => d.family \in {"relationship", "member_bill_sponsorship"} /\ d.answer.kind = "count"
  /\ Says(w, {"sameConstituency"}) =>
       d.family = "relationship" /\ {"anchor", "anchorMember"} \cap DOMAIN d.refs # {}
  /\ Grounded(d, w)
  /\ CASE d.family \in Capabilities -> CapabilityDraft(d, w)
       [] d.family = "constituency_representation" -> RepresentationDraft(d, w)
       [] d.family = "government_party_members" -> GovernmentDraft(d, w)
       [] d.family = "member_party_history" -> HistoryDraft(d, w)
       [] d.family = "member_bill_sponsorship" -> SponsorshipDraft(d, w)
       [] d.family = "shared_dail_terms" -> SharedTermsDraft(d, w)
       [] "anchorMember" \in DOMAIN d.refs -> SharedConstituencyDraft(d, w)
       [] IsBounded(d) -> BoundedDraft(d, w)
       [] IsParty(d) -> PartyDraftFits(d, w)
       [] IsHouses(d) -> IF "term" \in DOMAIN d.refs /\ d.refs["term"] = Plain THEN PriorDailDraft(d, w) ELSE CrossHouseDraft(d, w)
       [] OTHER -> RelationshipDraft(d, w)

\* The wording implies the reference date: complete_v2_plan adds it to a
\* representation in the current term.
Inferred(d, w) ==
  /\ "term" \in DOMAIN d.refs /\ IsCurrent(d.refs["term"]) /\ "constituency" \in DOMAIN d.refs
  /\ d.refs["constituency"].named # {}
  /\ CASE d.family = "constituency_representation" -> PresentDefault(w) /\ ~Says(w, CurrentWords)
       [] IsParty(d) -> ~Says(w, CurrentWords)
       [] OTHER -> AsOfDefault(w)

Completed(d, w) ==
  LET inferred == Inferred(d, w)
      active == d.family = "relationship" /\ inferred /\ ~IsParty(d) /\ d.constraints = {}
  IN [d EXCEPT !.constraints = IF active THEN {On(AsOf)} ELSE @] @@ [inferred |-> inferred]
=============================================================================

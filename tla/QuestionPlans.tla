----------------------------- MODULE QuestionPlans -----------------------------
(***************************************************************************)
(* How a question becomes a plan.  The service recognizes the wording of    *)
(* some questions; for the others a language model drafts a plan: referents,*)
(* the relations between them, constraints and what is to be answered.  A   *)
(* draft may be any: local code compares it with the wording, and refuses   *)
(* it rather than answer a simpler question than the one that was asked.    *)
(*                                                                         *)
(* A wording is what the patterns of the code tell apart: the words, the    *)
(* ordinals, the names and the times in it.  A word stands for the          *)
(* alternatives of a pattern and for its inflections: "before" also for     *)
(* after, since, until and between, "current" and "now" for the adjective   *)
(* and the adverbs of the present, "office" for the title of an office,     *)
(* "label" for a party label that has been reviewed; two words that have to *)
(* be next to each other are one more.  A referent is named    *)
(* after its type, a second one of a type ends in 2, and what a draft gives *)
(* of it are the names it mentions and the selector of a term.              *)
(***************************************************************************)
EXTENDS QuestionService

None == <<"none", 0>>
Current == <<"currentTerm", 0>>
Latest == <<"latestRecorded", 0>>
Before == <<"previousTerm", 0>>
Numbered(n) == <<"termNumber", n>>

Plain == [named |-> {}, selector |-> None]
Names(mentions) == [Plain EXCEPT !.named = mentions]
Selects(selector) == [Plain EXCEPT !.selector = selector]
Selector(number) ==
  CASE number = Nothing -> Current [] number = Previous -> Before [] OTHER -> Numbered(number)

List(referent, details) == [kind |-> "entities", referent |-> referent, details |-> details]
Count(referent) == [kind |-> "count", referent |-> referent, details |-> {}]
On(date) == <<"membership", "membershipInterval", "on", date>>
HeldIn(from, to) == <<"holding", "interval", from, to>>

----------------------------------------------------------------------------
\* The graphs of relations

Path(member, membership, term) ==
  {<<"member_has_membership", member, membership>>, <<"membership_in_term", membership, term>>}
SeatFor(membership) == {<<"membership_represents", membership, "constituency">>}
Occurrence == {<<"constituency_in_term", "constituency", "term">>}
Representation == Path("member", "membership", "term") \cup SeatFor("membership") \cup Occurrence
Affiliated ==
  {<<"member_party_membership", "member", "episode">>, <<"episode_in_parliamentary_party", "episode", "party">>,
   <<"parliamentary_party_has_affiliation_identity", "party", "affiliation">>}
PartyOf(membership, term) ==
  Path("member", membership, term) \cup Affiliated
    \cup {<<"party_episode_in_membership", "episode", membership>>, <<"party_active_during_term", "party", term>>}
Shared(anchor, membership) == Path(anchor, membership, "term") \cup SeatFor(membership)
Office == {<<"member_has_office_holding", "anchor", "holding">>, <<"office_holding_of_office", "holding", "office">>}
Cabinets ==
  {<<"member_has_cabinet_membership", "member", "cabinet">>, <<"cabinet_membership_of_government", "cabinet", "government">>}
Houses == Path("member", "seanad_membership", "seanad_term") \cup Path("member", "membership", "term")
Sponsors ==
  {<<"bill_has_sponsor_participation", "bill", "participation">>, <<"participation_has_participant", "participation", "member">>}
Lifecycle ==
  {<<"bill_process_cocontained", "bill", "process">>, <<"activity_forms_part_of_process", "activity", "process">>}
Participants ==
  {<<"process_has_participation", "process", "participation">>, <<"participation_has_participant", "participation", "member">>}

Overlap(membership) == <<"episode", "partyEpisodeInterval", "overlaps", membership>>
Other == <<"member", "identity", "distinctFrom", "anchor">>
AllAtOnce == <<"holding", "interval", "commonIntersection", "all">>
SponsoredIn(year) == {<<"activity", "publishedDate", "inCalendarYear", year>>}
PublishedIn(year) == {<<"activity", "activityTypeAndDate", "publishedInCalendarYear", year>>}
NotEnacted(year) == {<<"bill", "legislativeYear", "equals", year>>, <<"process", "processStatus", "knownExcept", "Enacted">>}

----------------------------------------------------------------------------
\* The parts of a draft

Draft(family, refs, edges, constraints, answer) ==
  [family |-> family, refs |-> refs, edges |-> edges, constraints |-> constraints, answer |-> answer]

\* A selection of an existing capability has parameters and nothing else.
Capability(name, refs, parameters) == Draft(name, refs, {}, parameters, List("none", {}))
Whole(referent) == [kind |-> "family_result", referent |-> referent, details |-> {}]
Capabilities ==
  {"member_lookup", "seanad_entry", "office_holding_window", "office_holding_evidence", "bill_lookup",
   "dail_parties_and_groups"}

\* The plain roles of a draft and those with a mention or a selector.
Roles(plain, others) == [r \in plain |-> Plain] @@ others

\* draft-schema: what the instructions ask for each question.
TermRole(number) == "term" :> Selects(Selector(number))
InParty == {"member", "membership", "episode", "party"}

MemberDraft(x) ==
  CASE x.kind \in {"members", "date"} ->
         Draft("relationship",
               Roles({"member", "membership"}, TermRole(x.number) @@ "constituency" :> Names({x.place})), Representation,
               IF x.kind = "date" /\ x.number # Nothing THEN {On(x.date)} ELSE {}, List("member", {}))
    [] x.kind = "terms" ->
         Draft("relationship",
               Roles({"member", "membership", "membership2"}, TermRole(x.number) @@ "term2" :> Selects(Numbered(x.other))),
               Path("member", "membership", "term") \cup Path("member", "membership2", "term2"), {}, List("member", {}))
    [] x.kind = "neighbours" ->
         Draft("relationship",
               Roles({"member", "membership", "constituency", "anchorMembership"},
                     TermRole(x.number) @@ "anchorMember" :> Names({x.name})),
               Representation \cup Shared("anchorMember", "anchorMembership"), {}, List("member", {}))

PartyDraft(x) ==
  CASE x.kind \in {"party", "parties"} ->
         Draft("relationship",
               Roles(InParty, TermRole(x.number) @@ "constituency" :> Names(x.places)
                              @@ "affiliation" :> Names(IF x.kind = "party" THEN {x.identity} ELSE {})),
               PartyOf("membership", "term") \cup SeatFor("membership") \cup Occurrence, {Overlap("membership")},
               IF x.kind = "party" THEN List("member", {"affiliation", "episode", "membership"})
               ELSE List("affiliation", {"member", "episode", "membership"}))
    [] x.kind = "term_party" ->
         LET membership == IF x.house = "seanad" THEN "seanad_membership" ELSE "membership"
             term == IF x.house = "seanad" THEN "seanad_term" ELSE "term"
         IN Draft("relationship",
                  Roles({"member", membership, "episode", "party"},
                        term :> Selects(Selector(x.number)) @@ "affiliation" :> Names({x.identity})),
                  PartyOf(membership, term), {Overlap(membership)}, List("member", {"affiliation", "episode", membership}))
    [] x.kind = "during_office" ->
         Draft("relationship",
               Roles(InParty \cup {"term", "constituency", "anchor_membership", "holding"},
                     "affiliation" :> Names({x.identity}) @@ "anchor" :> Names({x.name}) @@ "office" :> Names({x.office})),
               PartyOf("membership", "term") \cup SeatFor("membership") \cup Occurrence
                 \cup Shared("anchor", "anchor_membership") \cup Office,
               {Overlap("membership"), Other, AllAtOnce},
               List("member", {"affiliation", "episode", "membership", "holding", "anchor_membership", "constituency"}))

HouseDraft(x) ==
  CASE x.kind = "shared" ->
         Draft("shared_dail_terms",
               Roles({"membership", "membership2", "term"}, "member" :> Names({x.name}) @@ "member2" :> Names({x.second})),
               Path("member", "membership", "term") \cup Path("member2", "membership2", "term"), {}, List("term", {}))
    [] x.kind = "both" ->
         Draft("relationship",
               Roles({"member", "seanad_membership", "membership"},
                     "seanad_term" :> Selects(Current) @@ "term" :> Selects(Current)), Houses, {}, List("member", {}))
    [] x.kind = "returned" ->
         Draft("relationship",
               Roles({"member", "seanad_membership", "membership", "term"}, "seanad_term" :> Selects(Current)), Houses, {},
               List("member", {"seanad_membership", "seanad_term", "membership", "term"}))

TenureDraft(x) ==
  CASE x.kind = "office" ->
         Capability("office_holding_window", "office" :> Names({x.office}), {HeldIn(x.from, x.to)})
    [] x.kind = "government" ->
         Draft("government_party_members",
               Roles({"member", "cabinet", "government", "episode", "party"}, "affiliation" :> Names({x.identity})),
               Affiliated \cup Cabinets, {}, List("member", {"affiliation", "cabinet", "episode"}))
    [] x.kind = "affiliation" ->
         Draft("member_party_history",
               Roles({"episode", "party", "affiliation"}, "member" :> Names({x.name})), Affiliated, {}, List("affiliation", {}))
    [] x.kind \in {"seat", "latest", "career"} ->
         Draft("constituency_representation",
               Roles({"membership", "constituency"},
                     "member" :> Names({x.name})
                     @@ "term" :> Selects(CASE x.kind = "seat" -> Current [] x.kind = "latest" -> Latest [] OTHER -> None)),
               Representation, {}, List("constituency", {"term"}))

OtherDraft(x) ==
  CASE x.kind = "entry" -> Capability("seanad_entry", "member" :> Names({x.name}), {})
    [] x.kind = "lookup" ->
         Capability("member_lookup", "member" :> Names({x.name}), IF x.house = Nothing THEN {} ELSE {<<"house", x.house>>})
    [] x.kind = "episodes" ->
         Capability("office_holding_evidence", "member" :> Names({x.name}) @@ "office" :> Names({x.office}), {})
    [] x.kind = "held" ->
         Capability("office_overlap", "member" :> Names({x.name}) @@ "office" :> Names({x.office}), {HeldIn(x.from, x.to)})
    [] x.kind = "previous" ->
         Draft("previous_dail", Roles({"member", "membership"}, TermRole(Previous) @@ "constituency" :> Names({x.place})),
               Representation, {}, List("member", {}))
    [] x.kind = "bills" ->
         Draft("member_bill_sponsorship", Roles({"bill", "participation"}, "member" :> Names({x.name})), Sponsors, {},
               List("bill", {}))
    [] x.kind = "billcount" ->
         Draft("member_bill_sponsorship", Roles({"bill", "participation", "process", "activity"}, "member" :> Names({x.name})),
               Lifecycle \cup Participants, SponsoredIn(x.year), Count("bill"))
    [] x.kind = "sitting" ->
         Draft("constituency_representation",
               Roles({"member", "membership"}, "term" :> Selects(Current) @@ "constituency" :> Names({x.place})),
               Representation, {}, List("member", {"term"}))

\* StageARequest: what a recognized question about service asks of whom.
Requests ==
  [served |-> "previous_service", duration |-> "dail_duration", sat |-> "term_count", panel |-> "seanad_representation",
   collection |-> "current_collection", committee |-> "committee_boolean", committees |-> "committee_count",
   namesakes |-> "dail_all"]

ServiceDraft(x) ==
  CASE x.kind = "listing" -> Draft("house_terms", "term" :> Plain, {}, {}, List("term", {}))
    [] x.kind = "scope" -> Draft("house_terms", "term" :> Selects(<<"during", x.from, x.to>>), {}, {}, List("term", {}))
    [] x.kind = "all_terms" -> Draft("term_count", "term" :> Plain, {}, {}, Count("term"))
    [] x.kind = "panel" -> Capability(Requests[x.kind], "member" :> Names({x.name}), {Numbered(x.number)})
    [] x.kind = "committee" ->
         Capability(Requests[x.kind], "member" :> Names({x.name}) @@ "committee" :> Names({x.committee}), {})
    [] OTHER -> Capability(Requests[x.kind], "member" :> Names({x.name}), {})

\* The path each of them takes from the Member.
SeanadPath == Path("member", "seanad_membership", "seanad_term")
CommitteePath ==
  {<<"member_has_committee_membership", "member", "committee_membership">>,
   <<"committee_membership_of_committee", "committee_membership", "committee">>}
ServicePaths ==
  [f \in {"previous_service", "dail_duration", "dail_all", "term_count"} |-> Path("member", "membership", "term")]
  @@ [member_lookup |-> {}, seanad_entry |-> SeanadPath,
      seanad_representation |->
        SeanadPath \cup {<<"seanad_membership_represents_resource", "seanad_membership", "representation">>},
      current_collection |->
        {<<"member_has_collection_membership", "member", "collection_membership">>,
         <<"collection_membership_of_collection", "collection_membership", "collection">>},
      committee_count |-> CommitteePath,
      committee_boolean |-> CommitteePath \cup {<<"committee_in_term", "committee", "term">>}]

\* Stage B: questions about Bills, and what is asked of which
BillFamilies ==
  [bill |-> "bill_lookup", published |-> "bills_published", unenacted |-> "non_enacted_bills",
   titled |-> "bill_title_search", status |-> "bill_status_history", sponsors |-> "bill_sponsors"]
BillPaths ==
  [f \in {"bills_published", "non_enacted_bills", "bill_title_search", "bill_status_history"} |-> Lifecycle]
  @@ [bill_sponsors |-> Lifecycle \cup Participants,
      bill_lookup |-> Lifecycle \cup {<<"bill_has_explanatory_memo_work", "bill", "memo">>}]

BillDraft(x) ==
  CASE x.kind = "bill" ->
         Capability("bill_lookup", "bill" :> Selects(<<"numberYear", x.bill[1], x.bill[2]>>), {})
    [] x.kind \in {"published", "unenacted"} ->
         Capability(BillFamilies[x.kind], "bill" :> Plain,
                    IF x.kind = "published" THEN PublishedIn(x.year) ELSE NotEnacted(x.year))
    [] OTHER -> Capability(BillFamilies[x.kind], "bill" :> Names({x.title}), {})

\* Stage C: what one Dail had
DailFamilies == [seats |-> "dail_seats", groups |-> "dail_parties_and_groups"]
DailPaths == [dail_seats |-> {}, dail_parties_and_groups |-> {<<"party_active_during_term", "party", "term">>}]
DailDraft(x) == Capability(DailFamilies[x.kind], "term" :> Selects(Numbered(x.number)), {})

Ends(edges) == UNION {{e[2], e[3]} : e \in edges}

Paths == ServicePaths @@ BillPaths @@ DailPaths

\* The referent a path starts at, and the one the result is of
Subject(family) ==
  CASE family \in DOMAIN ServicePaths -> "member" [] family \in DOMAIN BillPaths -> "bill" [] OTHER -> "term"
Object(family) == IF family = "dail_parties_and_groups" THEN "party" ELSE Subject(family)

\* _member_outcome_plan, _plan, _make_plan: with the whole path, and the family's own result.
WithPath(d) ==
  IF d.family \in DOMAIN Paths /\ Subject(d.family) \in DOMAIN d.refs
  THEN LET edges == Paths[d.family]
       IN [d EXCEPT !.refs = Roles(Ends(edges) \ DOMAIN @, @), !.edges = edges, !.answer = Whole(Object(d.family))]
  ELSE d

\* The draft that gives the whole of a question.
Proposal(x) ==
  CASE x.kind \in {"members", "date", "terms", "neighbours"} -> MemberDraft(x)
    [] x.kind \in {"party", "parties", "term_party", "during_office"} -> PartyDraft(x)
    [] x.kind \in {"shared", "both", "returned"} -> HouseDraft(x)
    [] x.kind \in {"office", "government", "affiliation", "seat", "latest", "career"} -> TenureDraft(x)
    [] x.kind \in DOMAIN Requests \cup {"listing", "scope", "all_terms"} -> ServiceDraft(x)
    [] x.kind \in DOMAIN BillFamilies -> BillDraft(x)
    [] x.kind \in DOMAIN DailFamilies -> DailDraft(x)
    [] OTHER -> OtherDraft(x)

\* Kinds the service recognizes and has no draft for; that of a count of Bills
\* is only for the wording that is recognized.
Undrafted ==
  {"previous", "held", "listing", "scope", "all_terms", "billcount", "seats"} \cup DOMAIN Requests
    \cup (DOMAIN BillFamilies \ {"bill"})

\* Drafts with one thing changed.
Flawed(d, mentions) ==
  {[d EXCEPT !.edges = @ \ {e}] : e \in d.edges}
  \cup {[d EXCEPT !.edges = (@ \ {e}) \cup {<<e[1], e[2], r>>}] : e \in d.edges, r \in DOMAIN d.refs}
  \cup {[d EXCEPT !.constraints = @ \ {c}] : c \in d.constraints}
  \cup {[d EXCEPT !.constraints = @ \cup {c}] : c \in {On(AsOf), On(AsOf + 1), Other}}
  \cup {[d EXCEPT !.refs = Restrict(@, DOMAIN @ \ {r})] : r \in DOMAIN d.refs}
  \cup {[d EXCEPT !.refs[r] = Names({n})] : r \in DOMAIN d.refs, n \in mentions}
  \cup {[d EXCEPT !.refs[r] = Plain] : r \in DOMAIN d.refs}
  \cup {[d EXCEPT !.refs[r] = Selects(s)] :
          r \in DOMAIN d.refs, s \in {Current, Latest, Before, Numbered(1), Numbered(2)}}
  \cup {[d EXCEPT !.answer = List(r, {})] : r \in DOMAIN d.refs}
  \cup {[d EXCEPT !.answer = Count(r)] : r \in DOMAIN d.refs}

----------------------------------------------------------------------------
\* The wording of a question

Worded(words, names) == [words |-> words, ordinals |-> {}, names |-> names, times |-> {}]
Dated(w, times) == [w EXCEPT !.times = times]

\* "in the 2nd Dáil", "in the previous Dáil", "in this Dáil"
InTerm(w, number) ==
  CASE number = Nothing -> [w EXCEPT !.words = @ \cup {"dail", "thisDail"}]
    [] number = Previous -> [w EXCEPT !.words = @ \cup {"dail", "previousDail"}]
    [] OTHER -> [w EXCEPT !.words = @ \cup {"dail"}, !.ordinals = {number}]

InTermOrNow(words, names, number) ==
  IF number = Nothing THEN Worded(words \cup {"now", "represent"}, names)
  ELSE InTerm(Worded(words \cup {"represented"}, names), number)

MemberWording(x) ==
  CASE x.kind = "members" -> InTerm(Worded({"which", "TDs", "represented"}, {x.place}), x.number)
    [] x.kind = "date" ->
         IF x.number = Nothing THEN Worded({"who", "now", "represent", "dail"}, {x.place})
         ELSE Dated(InTerm(Worded({"which", "TDs", "represented", "on"}, {x.place}), x.number), {<<"date", x.date, x.date>>})
    [] x.kind = "previous" -> InTerm(Worded({"which", "TDs", "represented"}, {x.place}), Previous)
    [] x.kind = "terms" ->
         [Worded({"which", "TDs", "were", "and", "dail"}, {}) EXCEPT !.ordinals = {x.number, x.other}]
    [] x.kind = "neighbours" ->
         InTerm(Worded({"which", "other", "TDs", "same", "constituency", "sameConstituency"}, {x.name}), x.number)

PartyWording(x) ==
  CASE x.kind = "party" ->
         InTermOrNow({"which", "label", "TDs"} \cup IF Cardinality(x.places) > 1 THEN {"or"} ELSE {},
                     {x.identity} \cup x.places, x.number)
    [] x.kind = "parties" -> InTermOrNow({"whichParties", "parties", "TDs"}, x.places, x.number)
    [] x.kind = "term_party" ->
         IF x.house = "seanad" THEN Worded({"which", "label", "seanad", "are", "currentSeanad", "current"}, {x.identity})
         ELSE InTerm(Worded({"which", "label", "TDs", "were"}, {x.identity}), x.number)
    [] x.kind = "during_office" ->
         Worded({"which", "other", "label", "TDs", "served", "same", "constituency", "sameConstituency", "while", "was", "office"},
                {x.identity, x.name, x.office})

HouseWording(x) ==
  CASE x.kind = "shared" -> Worded({"which", "whichDail", "dail", "did", "and", "served"}, {x.name, x.second})
    [] x.kind = "both" ->
         Worded({"who", "is", "seanad", "currentSeanad", "current", "and", "TDs", "dail", "currentDail"}, {})
    [] x.kind = "returned" ->
         Worded({"which", "current", "seanad", "currentSenators", "were", "previously", "TDs"}, {})

\* An office at the reference date, for one year, or from one month to another
TenureWording(x) ==
  CASE x.kind = "office" ->
         IF x.to = x.from THEN Worded({"who", "is", "office"}, {x.office})
         ELSE Dated(Worded({"who", "was", "office"}, {x.office}),
                    {<<IF x.to > AsOf THEN "window" ELSE "year", x.from, x.to>>})
    [] x.kind = "held" -> Dated(Worded({"was", "office"}, {x.name, x.office}), {<<"window", x.from, x.to>>})
    [] x.kind = "episodes" -> Worded({"when", "was", "office"}, {x.name, x.office})
    [] x.kind = "government" -> Worded({"which", "label", "members", "are", "government"}, {x.identity})
    [] x.kind = "affiliation" -> Worded({"whichParties", "parties", "was", "members"}, {x.name})
    [] x.kind = "seat" -> Worded({"which", "constituency", "does", "represent"}, {x.name})
    [] x.kind = "latest" -> Worded({"which", "constituency", "did", "represent", "latestTerm", "dail"}, {x.name})
    [] x.kind = "career" -> Worded({"which", "constituency", "did", "represent"}, {x.name})

\* "was in force in March 2020", a month, or "on 1 March 2020", a date
ServiceWording(x) ==
  CASE x.kind = "served" -> Worded({"was", "TDs", "dail", "previousDail"}, {x.name})
    [] x.kind = "duration" -> Worded({"howLong", "was", "TDs"}, {x.name})
    [] x.kind = "sat" -> Worded({"howMany", "dail", "served"}, {x.name})
    [] x.kind = "panel" ->
         Dated(Worded({"which", "panel", "did", "represent", "seanad"}, {x.name}), {<<"seanad", x.number, x.number>>})
    [] x.kind = "collection" -> Worded({"whichParties", "party", "does", "belong", "now"}, {x.name})
    [] x.kind = "committee" -> Worded({"was", "members", "committee"}, {x.name, x.committee})
    [] x.kind = "committees" -> Worded({"howMany", "committee", "was", "members"}, {x.name})
    [] x.kind = "namesakes" -> Worded({"which", "members", "named", "served", "dail"}, {x.name})
    [] x.kind = "listing" -> Worded({"when", "did", "each", "and", "dail"}, {})
    [] x.kind = "scope" ->
         Dated(Worded({"which", "whichDail", "was", "inForce", "dail"}, {}),
               {<<IF x.to = x.from THEN "date" ELSE "window", x.from, x.to>>})
    [] x.kind = "all_terms" -> Worded({"howMany", "listed", "dail"}, {})

\* "Tell me about Bill 2 from 3" has a time of its own.
BillWording(x) ==
  CASE x.kind = "bill" -> Dated(Worded({"tell", "bills"}, {}), {<<"bill", x.bill[1], x.bill[2]>>})
    [] x.kind = "published" -> Dated(Worded({"what", "bills", "were", "published"}, {}), {<<"year", x.year, x.year>>})
    [] x.kind = "unenacted" -> Dated(Worded({"what", "bills", "enacted"}, {}), {<<"year", x.year, x.year>>})
    [] x.kind = "titled" -> Worded({"find", "title", "bills"}, {x.title})
    [] x.kind = "status" -> Worded({"what", "is", "bills", "happening"}, {x.title})
    [] x.kind = "sponsors" -> Worded({"who", "is", "sponsor", "bills"}, {x.title})

DailWording(x) ==
  InTerm(Worded(IF x.kind = "seats" THEN {"howMany", "members", "were"} ELSE {"what", "are", "groups", "and", "parties"}, {}),
         x.number)

OtherWording(x) ==
  CASE x.kind = "entry" -> Worded({"when", "did", "seanad"}, {x.name})
    [] x.kind = "lookup" ->
         Worded({"who", "is"} \cup CASE x.house = "dail" -> {"TDs"} [] x.house = "seanad" -> {"seanad"} [] OTHER -> {}, {x.name})
    [] x.kind = "bills" -> Worded({"which", "bills", "did", "sponsor"}, {x.name})
    [] x.kind = "billcount" ->
         Dated(Worded({"howMany", "bills", "did", "sponsor", "published"}, {x.name}), {<<"year", x.year, x.year>>})
    [] x.kind = "sitting" -> Worded({"which", "TDs", "represent"}, {x.place})

Plainly(x) ==
  CASE x.kind \in {"members", "date", "previous", "terms", "neighbours"} -> MemberWording(x)
    [] x.kind \in {"party", "parties", "term_party", "during_office"} -> PartyWording(x)
    [] x.kind \in {"shared", "both", "returned"} -> HouseWording(x)
    [] x.kind \in {"office", "held", "episodes", "government", "affiliation", "seat", "latest", "career"} -> TenureWording(x)
    [] x.kind \in DOMAIN Requests \cup {"listing", "scope", "all_terms"} -> ServiceWording(x)
    [] x.kind \in DOMAIN BillFamilies -> BillWording(x)
    [] x.kind \in DOMAIN DailFamilies -> DailWording(x)
    [] OTHER -> OtherWording(x)

----------------------------------------------------------------------------
\* What a question may ask beyond one of these

Phrases ==
  [elected |-> {"elected"}, while |-> {"while", "was", "office"}, orPlace |-> {"or"}, before |-> {"before"},
   year |-> {}, month |-> {}, except |-> {"except"}, throughout |-> {"throughout"}, votes |-> {"votes"},
   women |-> {"women"}, now |-> {"now"}, senators |-> {"seanad"}, previously |-> {"previously"},
   latest |-> {"latestTerm"}, sameTime |-> {"same", "sameTime"}, minister |-> {"minister"}, party |-> {"party"},
   otherTerm |-> {"and", "dail"}, seats |-> {"seats"}, count |-> {}, unqualified |-> {}]

InterrogativeWords == {"which", "what", "who", "when", "whichParties", "whichDail"}

\* Other names, times and terms come with some of the phrases.
Wording(x, extra) ==
  LET w == Plainly(x)
      words == IF extra = "unqualified" THEN w.words \ {"now"}
               ELSE IF extra \in {"count", "seats"} /\ w.words \cap InterrogativeWords # {}
                    THEN (w.words \ InterrogativeWords) \cup {"howMany"} ELSE w.words
  IN IF extra = Nothing THEN w
     ELSE [words |-> words \cup Phrases[extra],
           ordinals |-> w.ordinals \cup IF extra = "otherTerm" THEN {9} ELSE {},
           names |-> w.names \cup CASE extra = "while" -> {"Guy", "P"} [] extra = "except" -> {"Guy"} [] extra = "orPlace" -> {"z"} [] OTHER -> {},
           times |-> w.times \cup CASE extra \in {"before", "year", "throughout"} -> {<<"year", 1, 1>>}
                                    [] extra = "month" -> {<<"window", 1, 1>>}
                                    [] OTHER -> {}]
=============================================================================

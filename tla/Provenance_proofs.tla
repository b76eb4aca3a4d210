------------------------- MODULE Provenance_proofs -------------------------
(***************************************************************************)
(* Where an answer and a status come from.  First the proof that whatever  *)
(* is published while a question runs, its answer is one that some store   *)
(* of the time shows; then the proofs about RunCatalog, for any set of     *)
(* runs, endpoints, bills and times.                                       *)
(***************************************************************************)
EXTENDS RunCatalog, Questions, FiniteSetTheorems, TLAPS

----------------------------------------------------------------------------
\* What holds while a question runs: its rows are rows of stores of the time,
\* all of one store where the evaluation puts several of them together.

Running == q.at \notin {"asked", "planning", "planned", "done"}

Fields == {"at", "family", "question", "extra", "plan", "ids", "refusals", "offset", "rows", "left", "pages", "status",
           "answer"}

Shape == /\ q = [f \in Fields |-> q[f]]
         /\ q.ids = [r \in Referents |-> q.ids[r]]

\* A question is executed by the executor of its kind.
KindInv == Running \/ Answered => q.family \in DOMAIN FamilyKinds /\ Kind \in FamilyKinds[q.family]

StatusInv == /\ Answered => q.at = "done"
             /\ Running => store \in seen
             /\ \A in \in seen : IsStore(in)

TenureRows(in) ==
  CASE Kind = "affiliation" -> AffiliationRows(in)
    [] Kind = "government" -> GovernmentRows(in)
    [] Kind = "episodes" -> HoldingRows(in)
    [] OTHER -> SeatRows(in)

Rows(in) ==
  CASE q.family = "members" -> MemberRows(in)
    [] q.family = "houses" -> HouseRows(in)
    [] q.family = "tenures" -> TenureRows(in)
    [] q.family = "parties" -> Evidence(in)
    [] OTHER -> SponsorshipRows(in)

\* From its first page on, an executor has rows; a service question has rows of
\* several queries and is told below.
Collecting == {"rows", "evidence", "terms", "evaluate", "coverage"}

Witnessed == \A r \in q.rows : \E in \in seen : r \in Rows(in)

CollectInv ==
  Running /\ q.family # "service" =>
    /\ q.at \notin Collecting \cup {"answer"} => q.rows = {}
    /\ q.at \in Collecting => Witnessed

\* What is put together comes from one query.
OneStoreInv ==
  /\ Running /\ Kind = "during_office" /\ q.at \in {"terms", "evaluate"} => \E in \in seen : q.rows = Evidence(in)
  /\ Running /\ Kind \in ContextKinds =>
       /\ q.at \in {"member", "context", "labels"} => q.left = {}
       /\ q.at \in {"labels", "term", "evaluate"} => \E in \in seen : q.rows = ServiceRows(in)
       /\ q.at = "evaluate" /\ Kind = "panel" => \E in \in seen : q.left = LabelsOf(in, Represented(q.rows))

\* Names and service of candidates are of separate queries.
Calls(in, m) == \E x \in in.members : x.member = m /\ x.name = q.question.name
Serves(in, m) ==
  CASE ServiceHouse = Nothing -> TRUE
    [] Kind = "lookup" /\ ServiceHouse = "dail" -> \E x \in in.members : x.member = m /\ x.house = "dail"
    [] OTHER -> \E x \in Recorded(in, ServiceHouse) : x.member = m

CandidateInv ==
  Running /\ Kind \in Candidates =>
    /\ q.at = "member" => q.rows = {}
    /\ q.at = "qualify" => q.left # {}
    /\ q.at \in {"qualify", "labels"} => \A m \in q.left : \E in \in seen : Calls(in, m)
    /\ q.at \in {"qualify", "labels", "evaluate"} =>
         \A x \in q.rows : x[2] => (\E in \in seen : Calls(in, x[1])) /\ (\E in \in seen : Serves(in, x[1]))

\* The places each executor comes to, and for which of its kinds
AtsOf ==
  [members |-> {"member", "term", "other", "anchor", "place", "rows", "evaluate"},
   parties |-> {"member", "office", "holdings", "term", "place", "party", "listing", "evidence", "terms", "evaluate"},
   houses |-> {"member", "second", "evidence", "rows", "term", "other", "evaluate", "houseTerms", "parties", "presence"},
   tenures |-> {"term", "member", "office", "identity", "place", "service", "chronology", "holdings", "answer", "rows",
                "evaluate"},
   service |-> {"catalogue", "member", "context", "labels", "term", "evaluate", "links", "qualify", "offer", "offerLabels",
                "choosing"},
   bills |-> {"member", "rows", "coverage", "evaluate", "bills"}]

Reasons == {"ambiguous", "source_data_unavailable", "not_found"}

AtInv ==
  Running =>
    /\ q.at \in AtsOf[q.family]
    /\ q.at = "terms" => Kind = "during_office"
    /\ q.family = "tenures" /\ q.at \in {"holdings", "answer"} => Kind \in {"office", "held"}
    /\ q.at = "context" => Kind \in ContextKinds
    /\ q.at = "catalogue" => Kind = "committee"
    /\ q.at \in {"qualify", "offer", "offerLabels", "choosing"} => Kind \in Candidates
    /\ q.at # "answer" => q.refusals \subseteq Reasons

\* The inductive invariant: an answer is witnessed because the rows it is made
\* of are.
QuestionInv == Shape /\ KindInv /\ StatusInv /\ AtInv /\ CollectInv /\ OneStoreInv /\ CandidateInv /\ AnswerIsWitnessed

LEMMA InitInv == QuestionInit => QuestionInv
<1> SUFFICES ASSUME NEW family \in DOMAIN Questions, NEW question \in Questions[family], NEW extra \in Extras,
                    q = [Idle(family, question) EXCEPT !.extra = extra], seen = {}
             PROVE  QuestionInv
  BY DEF QuestionInit
<1> q = [at |-> "asked", family |-> family, question |-> question, extra |-> extra, plan |-> Nothing,
         ids |-> [r \in Referents |-> Nothing], refusals |-> {}, offset |-> 0, rows |-> {}, left |-> {}, pages |-> 0,
         status |-> "none", answer |-> {}]
  BY DEF Idle
<1> ~Running /\ ~Answered
  BY DEF Running, Answered
<1> q.ids = [r \in Referents |-> Nothing]
  OBVIOUS
<1> q = [f \in Fields |-> q[f]]
  BY DEF Fields
<1> Shape
  BY DEF Shape
<1> QED
  BY DEF QuestionInv, KindInv, StatusInv, AtInv, CollectInv, OneStoreInv, CandidateInv, AnswerIsWitnessed

\* Without a running question or an answer there is nothing to show.
LEMMA Over ==
  ASSUME QuestionInv, Shape', q'.at = "done", q'.status # "success", seen' = seen
  PROVE  QuestionInv'
<1>1. ~Running' /\ ~Answered'
  BY DEF Running, Answered
<1>2. StatusInv'
  BY <1>1 DEF StatusInv, QuestionInv
<1>3. KindInv' /\ AtInv'
  BY <1>1 DEF KindInv, AtInv
<1>4. CollectInv' /\ OneStoreInv' /\ CandidateInv'
  BY <1>1 DEF CollectInv, OneStoreInv, CandidateInv
<1>5. AnswerIsWitnessed'
  BY <1>1 DEF AnswerIsWitnessed
<1> QED
  BY <1>2, <1>3, <1>4, <1>5 DEF QuestionInv

IsShape(r) == r = [f \in Fields |-> r[f]] /\ r.ids = [x \in Referents |-> r.ids[x]]

LEMMA EndedShape ==
  ASSUME NEW r, IsShape(r), NEW reason
  PROVE  /\ IsShape(Ended(r, reason))
         /\ Ended(r, reason).at = "done" /\ Ended(r, reason).status = reason
BY DEF IsShape, Fields, Ended

LEMMA EndsQuestion ==
  ASSUME QuestionInv, NEW STATE r, IsShape(r), NEW STATE reason, reason # "success", q' = Ended(r, reason),
         seen' = seen
  PROVE  QuestionInv'
<1>1. Shape' /\ q'.at = "done" /\ q'.status = reason
  BY EndedShape DEF IsShape, Shape
<1> QED
  BY <1>1, Over

\* A step of the evaluation goes on with the same question.
LEMMA GoesOn ==
  ASSUME QuestionInv, Running, Running', Shape', seen' = seen, store' = store,
         q'.family = q.family, q'.question = q.question, q'.status \in {q.status, "ambiguous"},
         AtInv', CollectInv', OneStoreInv', CandidateInv'
  PROVE  QuestionInv'
<1>1. ~Answered /\ ~Answered'
  BY DEF QuestionInv, StatusInv, Running, Answered
<1>2. KindInv'
  BY DEF QuestionInv, KindInv, Kind
<1>3. StatusInv'
  BY <1>1 DEF QuestionInv, StatusInv
<1>4. AnswerIsWitnessed'
  BY <1>1 DEF AnswerIsWitnessed
<1> QED
  BY <1>2, <1>3, <1>4 DEF QuestionInv

\* Where no evidence has been read yet
Places(kind) ==
  {"member", "term", "other", "anchor", "place", "rows", "office", "party", "listing", "evidence", "second",
   "houseTerms", "parties", "presence", "identity", "service", "chronology", "links", "bills"}
    \cup (IF kind \in ContextKinds THEN {"context"} ELSE {})
    \cup (IF kind \in {"office", "held", "during_office"} THEN {"holdings"} ELSE {})

\* What a look-up leaves alone
Same(r) ==
  /\ IsShape(r)
  /\ r.family = q.family /\ r.question = q.question /\ r.rows = q.rows /\ r.left = q.left /\ r.status = q.status

LEMMA Searches ==
  ASSUME QuestionInv, Running, Shape', seen' = seen, store' = store,
         q'.family = q.family, q'.question = q.question, q'.status = q.status, q'.rows = {}, Kind \notin Candidates,
         Kind \in ContextKinds => q'.left = {} /\ q'.at \in {"member", "context"},
         q'.at \in AtsOf[q.family] \cap Places(Kind), q'.refusals \subseteq Reasons
  PROVE  QuestionInv'
<1>1. Kind' = Kind /\ q.family \in DOMAIN FamilyKinds /\ Kind \in FamilyKinds[q.family]
  BY DEF QuestionInv, KindInv, Kind
<1>2. Running'
  BY DEF Running, Places
<1>3. AtInv'
  BY <1>1 DEF AtInv, Places, Candidates, ContextKinds, FamilyKinds
<1>4. CollectInv'
  BY DEF CollectInv, Witnessed, Places
<1>5. OneStoreInv'
  BY <1>1 DEF OneStoreInv, Places, ContextKinds
<1>6. CandidateInv'
  BY <1>1 DEF CandidateInv
<1> QED
  BY <1>2, <1>3, <1>4, <1>5, <1>6, GoesOn

LEMMA ResolvedSame ==
  ASSUME QuestionInv, q.refusals \subseteq Reasons, NEW rows, NEW candidates, NEW none \in Reasons,
         NEW referent \in Referents
  PROVE  /\ Same(Resolved(rows, referent, candidates, none))
         /\ Resolved(rows, referent, candidates, none).at = q.at
         /\ Resolved(rows, referent, candidates, none).refusals \subseteq Reasons
         /\ \A x \in Referents \ {referent} : Resolved(rows, referent, candidates, none).ids[x] = q.ids[x]
<1> q = [f \in Fields |-> q[f]] /\ q.ids = [r \in Referents |-> q.ids[r]]
  BY DEF QuestionInv, Shape
<1> DEFINE why(s) == [q EXCEPT !.refusals = @ \cup {s}]
           found == [q EXCEPT !.ids[referent] = The(candidates)]
<1>1. \A s \in Reasons : Same(why(s)) /\ why(s).at = q.at /\ why(s).ids = q.ids /\ why(s).refusals \subseteq Reasons
  BY DEF Same, IsShape, Fields
<1>2. /\ Same(found) /\ found.at = q.at /\ found.refusals = q.refusals
      /\ \A x \in Referents \ {referent} : found.ids[x] = q.ids[x]
  BY DEF Same, IsShape, Fields
<1>3. \/ \E s \in Reasons : Resolved(rows, referent, candidates, none) = why(s)
      \/ Resolved(rows, referent, candidates, none) = found
  BY DEF Resolved, Reasons
<1> QED
  BY <1>1, <1>2, <1>3

LEMMA SettledSame ==
  ASSUME NEW r, Same(r), r.refusals \subseteq Reasons, NEW next
  PROVE  \/ /\ Settled(r, next).refusals = {} /\ Settled(r, next).at = next
            /\ Same(Settled(r, next)) /\ Settled(r, next).ids = r.ids
         \/ \E s \in Reasons : Settled(r, next) = Ended(r, s)
<1> DEFINE worst == CHOOSE s \in r.refusals :
                 \/ s = "ambiguous"
                 \/ "ambiguous" \notin r.refusals /\ s = "source_data_unavailable"
                 \/ r.refusals = {s}
<1>1. CASE r.refusals = {}
  <2>1. Settled(r, next) = [r EXCEPT !.at = next]
    BY <1>1 DEF Settled
  <2> QED
    BY <1>1, <2>1 DEF Same, IsShape, Fields
<1>2. CASE r.refusals # {}
  <2>1. \E s \in r.refusals :
          \/ s = "ambiguous"
          \/ "ambiguous" \notin r.refusals /\ s = "source_data_unavailable"
          \/ r.refusals = {s}
    BY <1>2 DEF Reasons
  <2>2. worst \in r.refusals
    BY <2>1
  <2> QED
    BY <1>2, <2>2 DEF Settled
<1> QED
  BY <1>1, <1>2

\* An identity is looked up before anything is read of the answer.
LEMMA LooksUp ==
  ASSUME QuestionInv, Running, q.at # "answer", q.rows = {}, Kind \notin Candidates,
         NEW STATE rows, NEW STATE candidates, NEW CONSTANT none \in Reasons, NEW CONSTANT referent \in Referents,
         NEW STATE next, next \in AtsOf[q.family] \cap Places(Kind),
         Kind \in ContextKinds => q.left = {} /\ next \in {"member", "context"},
         q' = Settled(Resolved(rows, referent, candidates, none), next), seen' = seen, store' = store
  PROVE  QuestionInv'
<1> DEFINE r == Resolved(rows, referent, candidates, none)
<1>1. Same(r) /\ r.refusals \subseteq Reasons
  BY ResolvedSame DEF QuestionInv, AtInv
<1>2. CASE \E s \in Reasons : q' = Ended(r, s)
  BY <1>1, <1>2, EndsQuestion DEF Same, Reasons
<1>3. CASE q'.refusals = {} /\ q'.at = next /\ Same(q')
  BY <1>3, Searches DEF Same, IsShape, Shape
<1> HIDE DEF r
<1>4. \/ /\ Settled(r, next).refusals = {} /\ Settled(r, next).at = next /\ Same(Settled(r, next))
      \/ \E s \in Reasons : Settled(r, next) = Ended(r, s)
  BY <1>1, SettledSame
<1>5. q' = Settled(r, next)
  BY DEF r
<1> QED
  BY <1>2, <1>3, <1>4, <1>5

----------------------------------------------------------------------------
\* The rows of a step and of the next one

\* Rows of a store are those of the question and of what it has resolved.
SameSubject == q'.family = q.family /\ q'.question = q.question /\ q'.ids = q.ids
LEMMA MemberFrame ==
  ASSUME SameSubject, NEW CONSTANT in
  PROVE  MemberRows(in)' = MemberRows(in)
<1>1. SeatedIn(in)' = SeatedIn(in)
  BY DEF SeatedIn, Listed, TermListed, Kind, SameSubject
<1>2. Neighbouring(in)' = Neighbouring(in)
  BY <1>1 DEF Neighbouring, AnchorPaths, SameSubject
<1>3. InBothTerms(in)' = InBothTerms(in)
  BY DEF InBothTerms, TermListed, SameSubject
<1> QED
  BY <1>1, <1>2, <1>3 DEF MemberRows, Kind, SameSubject

LEMMA HouseFrame ==
  ASSUME SameSubject, NEW CONSTANT in
  PROVE  HouseRows(in)' = HouseRows(in)
<1>1. HousePairs(in)' = HousePairs(in)
  BY DEF HousePairs, DailTerms, Kind, SameSubject
<1> QED
  BY <1>1 DEF HouseRows

LEMMA TenureFrame ==
  ASSUME SameSubject, NEW CONSTANT in
  PROVE  TenureRows(in)' = TenureRows(in)
<1>1. AffiliationRows(in)' = AffiliationRows(in)
  BY DEF AffiliationRows, EpisodePaths, SameSubject
<1>2. GovernmentRows(in)' = GovernmentRows(in)
  BY DEF GovernmentRows, EpisodePaths, SameSubject
<1>3. HoldingRows(in)' = HoldingRows(in)
  BY DEF HoldingRows, NamesOf, Kind, SameSubject
<1>4. SeatRows(in)' = SeatRows(in)
  BY DEF SeatRows, Asks, Kind, SameSubject
<1> QED
  BY <1>1, <1>2, <1>3, <1>4 DEF TenureRows, Kind, SameSubject

LEMMA BillFrame ==
  ASSUME SameSubject, NEW CONSTANT in
  PROVE  SponsorshipRows(in)' = SponsorshipRows(in)
BY DEF SponsorshipRows, Columns, Kind, SameSubject

LEMMA ServiceFrame ==
  ASSUME SameSubject, NEW CONSTANT in
  PROVE  ServiceRows(in)' = ServiceRows(in)
BY DEF ServiceRows, ServiceOf, ServiceHouse, Kind, SameSubject

LEMMA EvidenceFrame ==
  ASSUME q'.question = q.question, \A r \in {"term", "place", "member", "office"} : q'.ids[r] = q.ids[r],
         Kind = "term_party" => q'.left = q.left, NEW CONSTANT in
  PROVE  Evidence(in)' = Evidence(in)
<1>1. \A m : InScope(in, m)' <=> InScope(in, m)
  BY DEF InScope, House, Kind
<1>2. AnchorHoldings(in)' = AnchorHoldings(in)
  BY DEF AnchorHoldings
<1>3. ASSUME NEW CONSTANT m PROVE Anchors(in, m)' = Anchors(in, m)
  <2> DEFINE own == {x \in in.members : /\ m.member # q.ids["member"] /\ x.member = q.ids["member"]
                                        /\ x.place = m.place /\ x.term = m.term}
  <2>1. own' = own
    OBVIOUS
  <2> DEFINE pairs(members, holdings) ==
               {[ids |-> <<a.membership, h.holding>>, periods |-> <<a.period, h.period>>] : a \in members, h \in holdings}
  <2>2. /\ Anchors(in, m) = IF Kind # "during_office" THEN {NoAnchor} ELSE pairs(own, AnchorHoldings(in))
        /\ Anchors(in, m)' = IF Kind' # "during_office" THEN {NoAnchor} ELSE pairs(own', AnchorHoldings(in)')
    BY DEF Anchors, NoAnchor
  <2> HIDE DEF pairs, own
  <2> QED
    BY <1>2, <2>1, <2>2 DEF Kind
<1>4. EvidencePaths(in)' = EvidencePaths(in)
  <2> DEFINE scoped == {x \in in.members : InScope(in, x)}
  <2>1. scoped' = scoped
    BY <1>1
  <2>2. EvidencePaths(in) = UNION {{<<m, e>> : e \in EpisodesOf(in, m)} : m \in scoped}
    BY DEF EvidencePaths
  <2>3. EvidencePaths(in)' = UNION {{<<m, e>> : e \in EpisodesOf(in, m)} : m \in scoped'}
    BY DEF EvidencePaths, EpisodesOf
  <2> QED
    BY <2>1, <2>2, <2>3
<1>5. EvidenceLinks(in)' = EvidenceLinks(in)
  BY <1>4 DEF EvidenceLinks, Kind
<1>6. \A m, e, p, a : EvidenceRow(m, e, p, a)' = EvidenceRow(m, e, p, a)
  BY DEF EvidenceRow, Kind
<1>7. \A r : r \in Evidence(in) <=>
        \E x \in EvidenceLinks(in) : \E a \in Anchors(in, x[1][1]) : r = EvidenceRow(x[1][1], x[1][2], x[2], a)
  BY DEF Evidence
<1>8. \A r : r \in Evidence(in)' <=>
        \E x \in EvidenceLinks(in)' : \E a \in Anchors(in, x[1][1])' : r = EvidenceRow(x[1][1], x[1][2], x[2], a)'
  BY DEF Evidence
<1>9. \A x : Anchors(in, x[1][1])' = Anchors(in, x[1][1])
  BY <1>3
<1> QED
  BY <1>5, <1>6, <1>7, <1>8, <1>9

LEMMA RowsFrame ==
  ASSUME SameSubject, q'.left = q.left \/ Kind # "term_party", NEW CONSTANT in
  PROVE  Rows(in)' = Rows(in)
<1>1. MemberRows(in)' = MemberRows(in) /\ HouseRows(in)' = HouseRows(in) /\ TenureRows(in)' = TenureRows(in)
  BY MemberFrame, HouseFrame, TenureFrame
<1>2. SponsorshipRows(in)' = SponsorshipRows(in)
  BY BillFrame
<1>3. Evidence(in)' = Evidence(in)
  BY EvidenceFrame DEF SameSubject
<1> QED
  BY <1>1, <1>2, <1>3 DEF Rows, SameSubject

LEMMA PageOfRows == ASSUME NEW rows, NEW offset PROVE Page(rows, offset) \subseteq rows
BY DEF Page

\* The kinds of one family are none of another.
LEMMA OtherKinds ==
  ASSUME QuestionInv, Running \/ Answered, q.family # "service"
  PROVE  Kind \notin Candidates \cup ContextKinds
BY DEF QuestionInv, KindInv, FamilyKinds, Candidates, ContextKinds

\* Rows that were read, whatever the page, are rows of a store of the time.
LEMMA Collects ==
  ASSUME QuestionInv, Running, q.family # "service", q.at \in Collecting, Shape', SameSubject, q'.status = q.status,
         q'.left = q.left \/ Kind # "term_party", seen' = seen, store' = store,
         q'.rows \subseteq q.rows \cup Rows(store), q'.refusals \subseteq Reasons,
         q'.at \in Collecting \cap AtsOf[q.family], q'.at # "terms", Kind = "during_office" => q'.at # "evaluate"
  PROVE  QuestionInv'
<1>1. Kind' = Kind /\ Kind \notin Candidates \cup ContextKinds
  BY OtherKinds DEF Kind, SameSubject
<1>2. Running'
  BY DEF Running, Collecting
<1>3. AtInv'
  BY <1>1 DEF AtInv, Collecting, SameSubject
<1>4. CollectInv'
  <2>1. \A r \in q'.rows : \E in \in seen : r \in Rows(in)
    BY DEF QuestionInv, CollectInv, Witnessed, StatusInv
  <2>2. \A in \in seen : Rows(in)' = Rows(in)
    BY RowsFrame
  <2>3. Witnessed'
    BY <2>1, <2>2 DEF Witnessed
  <2> QED
    BY <2>3 DEF CollectInv
<1>5. OneStoreInv'
  BY <1>1 DEF OneStoreInv
<1>6. CandidateInv'
  BY <1>1 DEF CandidateInv
<1> QED
  BY <1>1, <1>2, <1>3, <1>4, <1>5, <1>6, GoesOn DEF SameSubject

LEMMA ReadsPage ==
  ASSUME QuestionInv, Running, q.family # "service", q.at \in {"rows", "evidence"}, Kind # "during_office",
         NEW STATE rows, rows = Rows(store), NEW STATE next, next \in {"evaluate", "coverage"} \cap AtsOf[q.family],
         ReadPage(rows, next), seen' = seen, store' = store
  PROVE  QuestionInv'
<1> DEFINE page == Page(rows, q.offset)
           read == [q EXCEPT !.rows = q.rows \cup page, !.pages = q.pages + 1]
<1> USE DEF IsShape, Fields
<1>1. IsShape(q)
  BY DEF QuestionInv, Shape
<1>2. q.refusals \subseteq Reasons /\ q.at \in AtsOf[q.family]
  BY DEF QuestionInv, AtInv
<1>3. page \subseteq Rows(store)
  BY PageOfRows
<1>4. CASE q' = [read EXCEPT !.at = next, !.offset = 0]
  <2> /\ IsShape(q') /\ q'.family = q.family /\ q'.question = q.question /\ q'.ids = q.ids /\ q'.left = q.left
      /\ q'.status = q.status /\ q'.rows = q.rows \cup page /\ q'.at = next /\ q'.refusals = q.refusals
    BY <1>1, <1>4
  <2> QED
    BY <1>2, <1>3, Collects DEF Shape, SameSubject, Collecting
<1>5. CASE q' = Ended(q, "source_data_unavailable")
  BY <1>1, <1>5, EndsQuestion
<1>6. CASE q' = [read EXCEPT !.offset = q.offset + PageSize]
  <2> /\ IsShape(q') /\ q'.family = q.family /\ q'.question = q.question /\ q'.ids = q.ids /\ q'.left = q.left
      /\ q'.status = q.status /\ q'.rows = q.rows \cup page /\ q'.at = q.at /\ q'.refusals = q.refusals
    BY <1>1, <1>6
  <2> QED
    BY <1>2, <1>3, Collects DEF Shape, SameSubject, Collecting
<1> QED
  BY <1>4, <1>5, <1>6 DEF ReadPage

----------------------------------------------------------------------------
\* Answers

LEMMA MembersMeantFrame ==
  ASSUME SameSubject, NEW CONSTANT in
  PROVE  MembersMeant(in, FALSE)' = MembersMeant(in, FALSE)
BY DEF MembersMeant, SameSubject, Kind, Listed, TermListed
LEMMA HousesMeantFrame ==
  ASSUME SameSubject, NEW CONSTANT in
  PROVE  HousesMeant(in, FALSE)' = HousesMeant(in, FALSE)
BY DEF HousesMeant, SameSubject, Kind, Both, DailTerms, PartiesActive, TermSeats, NumberedTerms, TermRows
LEMMA TenuresMeantFrame ==
  ASSUME SameSubject, NEW CONSTANT in
  PROVE  TenuresMeant(in, FALSE)' = TenuresMeant(in, FALSE)
BY DEF TenuresMeant, SameSubject, Kind, Asks
LEMMA BillsMeantFrame ==
  ASSUME SameSubject, NEW CONSTANT in
  PROVE  BillsMeant(in, FALSE)' = BillsMeant(in, FALSE)
<1>1. PublishedRows(in)' = PublishedRows(in) /\ RowsOfYear(in)' = RowsOfYear(in) /\ RowsOfBill(in)' = RowsOfBill(in)
  BY DEF PublishedRows, RowsOfYear, RowsOfBill, SameSubject, Columns
<1>2. Titled(in)' = Titled(in)
  BY DEF Titled, SameSubject
<1>3. SponsorRows(in)' = SponsorRows(in)
  BY <1>2 DEF SponsorRows, Columns
<1>4. SponsorshipRows(in)' = SponsorshipRows(in)
  BY BillFrame
<1> QED
  BY <1>1, <1>2, <1>3, <1>4 DEF BillsMeant, SameSubject, Kind

LEMMA PartiesMeantFrame ==
  ASSUME SameSubject, NEW CONSTANT in
  PROVE  PartiesMeant(in, FALSE)' = PartiesMeant(in, FALSE)
BY DEF PartiesMeant, SameSubject, Kind, AnchorHoldings, InScope, House

LEMMA Answers ==
  ASSUME QuestionInv, Running, Shape', q'.at = "done", q'.family = q.family, q'.question = q.question, seen' = seen,
         AnswerIsWitnessed'
  PROVE  QuestionInv'
<1>1. ~Running'
  BY DEF Running
<1>2. KindInv'
  BY DEF QuestionInv, KindInv, Kind
<1>3. StatusInv'
  BY <1>1 DEF QuestionInv, StatusInv
<1>4. AtInv' /\ CollectInv' /\ OneStoreInv' /\ CandidateInv'
  BY <1>1 DEF AtInv, CollectInv, OneStoreInv, CandidateInv
<1> QED
  BY <1>2, <1>3, <1>4 DEF QuestionInv

LEMMA MeantFrame ==
  ASSUME SameSubject, q.family # "service", q.family \in DOMAIN FamilyKinds, NEW CONSTANT in
  PROVE  Meant(in, FALSE)' = Meant(in, FALSE)
BY MembersMeantFrame, HousesMeantFrame, TenuresMeantFrame, BillsMeantFrame, PartiesMeantFrame DEF Meant,
   SameSubject, FamilyKinds

\* What the reading of some store of the time gives may be answered.
LEMMA AnswersWith ==
  ASSUME QuestionInv, Running, q.family # "service", NEW STATE answer,
         \A x \in answer : \E in \in seen : x \in Meant(in, FALSE),
         IsShape(q'), SameSubject, q'.at = "done", q'.answer = answer, seen' = seen
  PROVE  QuestionInv'
<1>1. q.family \in DOMAIN FamilyKinds
  BY DEF QuestionInv, KindInv
<1>2. \A in \in seen : Meant(in, FALSE)' = Meant(in, FALSE)
  BY <1>1, MeantFrame
<1>3. AnswerIsWitnessed'
  BY <1>2 DEF AnswerIsWitnessed
<1> QED
  BY <1>3, Answers DEF IsShape, Shape, SameSubject

LEMMA Answered1 ==
  ASSUME QuestionInv, NEW STATE answer, Answer(answer) \/ InOnePage(answer)
  PROVE  IsShape(q') /\ SameSubject /\ q'.at = "done" /\ q'.answer = answer
BY DEF QuestionInv, Shape, IsShape, Fields, Answer, InOnePage, SameSubject

LEMMA MembersAreWitnessed ==
  ASSUME NEW in, NEW r \in MemberRows(in), Kind \in FamilyKinds["members"],
         Kind = "date" => Covers(r[4], q.question.date)
  PROVE  r[1] \in MembersMeant(in, FALSE)
<1>1. CASE Kind = "date"
  <2>1. PICK m \in SeatedIn(in) : r = <<m.member, m.name, m.membership, m.period>>
    BY <1>1 DEF MemberRows
  <2>2. \A p \in {x.period : x \in {y \in in.members : y.membership = m.membership}} :
          Certain({x.period : x \in {y \in in.members : y.membership = m.membership}}) => p = m.period
    BY <2>1 DEF Certain, SeatedIn
  <2> QED
    BY <1>1, <2>1, <2>2 DEF MembersMeant, SeatedIn
<1>2. CASE Kind = "neighbours"
  <2>1. PICK m \in Neighbouring(in) : r = <<m.member, m.name>>
    BY <1>2 DEF MemberRows
  <2>2. PICK a \in AnchorPaths(in) : a.place = m.place
    BY <2>1 DEF Neighbouring
  <2> QED
    BY <1>2, <2>1, <2>2 DEF MembersMeant, SeatedIn, Neighbouring, AnchorPaths
<1>3. CASE Kind = "terms"
  <2>1. PICK m \in InBothTerms(in) : r = <<m.member, m.name>>
    BY <1>3 DEF MemberRows
  <2> QED
    BY <1>3, <2>1 DEF MembersMeant, InBothTerms
<1>4. CASE Kind \in {"members", "previous"}
  <2>1. PICK m \in SeatedIn(in) : r = <<m.member, m.name>>
    BY <1>4 DEF MemberRows
  <2> QED
    BY <1>4, <2>1 DEF MembersMeant, SeatedIn
<1> QED
  BY <1>1, <1>2, <1>3, <1>4 DEF FamilyKinds

----------------------------------------------------------------------------
\* What the steps have in common

\* What every step of a question that runs starts from
LEMMA Starts ==
  ASSUME QuestionInv, Running
  PROVE  /\ IsShape(q) /\ store \in seen
         /\ q.family \in DOMAIN FamilyKinds /\ Kind \in FamilyKinds[q.family] /\ q.at \in AtsOf[q.family]
         /\ q.at # "answer" => q.refusals \subseteq Reasons
         /\ q.family # "service" /\ q.at \notin Collecting \cup {"answer"} => q.rows = {}
         /\ q.family # "service" /\ q.at \in Collecting => Witnessed
BY DEF QuestionInv, Shape, IsShape, StatusInv, KindInv, AtInv, CollectInv

LEMMA Fails ==
  ASSUME QuestionInv, NEW STATE reason, reason # "success", End(reason), seen' = seen
  PROVE  QuestionInv'
BY EndsQuestion DEF End, QuestionInv, Shape, IsShape

LEMMA LooksUpMember ==
  ASSUME QuestionInv, Running, q.at # "answer", q.rows = {}, Kind \notin Candidates,
         NEW CONSTANT referent \in Referents, NEW STATE mention, NEW STATE next,
         next \in AtsOf[q.family] \cap Places(Kind),
         Kind \in ContextKinds => q.left = {} /\ next \in {"member", "context"},
         ResolveMember(referent, mention, next), seen' = seen, store' = store
  PROVE  QuestionInv'
BY LooksUp DEF ResolveMember, Reasons

LEMMA LooksUpTerm ==
  ASSUME QuestionInv, Running, q.at # "answer", q.rows = {}, Kind \notin Candidates \cup ContextKinds,
         NEW CONSTANT referent \in Referents, NEW STATE house, NEW STATE number,
         NEW STATE next, next \in AtsOf[q.family] \cap Places(Kind),
         ResolveTerm(referent, house, number, next), seen' = seen, store' = store
  PROVE  QuestionInv'
BY LooksUp DEF ResolveTerm, TermResolved, Reasons

LEMMA LooksUpPlace ==
  ASSUME QuestionInv, Running, q.at # "answer", q.rows = {}, Kind \notin Candidates \cup ContextKinds,
         NEW STATE next, next \in AtsOf[q.family] \cap Places(Kind),
         ResolveConstituency(next), seen' = seen, store' = store
  PROVE  QuestionInv'
BY LooksUp DEF ResolveConstituency, Reasons, Referents

LEMMA AnswersSet ==
  ASSUME QuestionInv, Running, q.family # "service", NEW STATE answer,
         \A x \in answer : \E in \in seen : x \in Meant(in, FALSE),
         Answer(answer) \/ InOnePage(answer), seen' = seen
  PROVE  QuestionInv'
BY Answered1, AnswersWith

LEMMA LooksOn ==
  ASSUME QuestionInv, Running, q.at # "answer", q.rows = {}, Kind \notin Candidates \cup ContextKinds,
         NEW STATE rows, NEW STATE candidates, NEW CONSTANT none \in Reasons, NEW CONSTANT referent \in Referents,
         NEW STATE next, next \in AtsOf[q.family] \cap Places(Kind),
         q' = [Resolved(rows, referent, candidates, none) EXCEPT !.at = next], seen' = seen, store' = store
  PROVE  QuestionInv'
<1> DEFINE r == Resolved(rows, referent, candidates, none)
<1>1. Same(r) /\ r.refusals \subseteq Reasons
  BY ResolvedSame, Starts
<1> HIDE DEF r
<1>2. q' = [r EXCEPT !.at = next]
  BY DEF r
<1>3. Same(q') /\ q'.refusals = r.refusals /\ q'.at = next
  BY <1>1, <1>2 DEF Same, IsShape, Fields
<1> QED
  BY <1>1, <1>3, Searches DEF Same, IsShape, Shape

\* A second look-up may end because it found what the first had found.
LEMMA LooksUpAgain ==
  ASSUME QuestionInv, Running, q.at # "answer",
         NEW STATE rows, NEW STATE candidates, NEW CONSTANT none \in Reasons, NEW CONSTANT referent \in Referents,
         NEW CONSTANT next, NEW CONSTANT reason, reason # "success",
         q' = Ended(Settled(Resolved(rows, referent, candidates, none), next), reason), seen' = seen
  PROVE  QuestionInv'
<1> DEFINE r == Resolved(rows, referent, candidates, none)
<1>1. Same(r) /\ r.refusals \subseteq Reasons
  BY ResolvedSame, Starts
<1> HIDE DEF r
<1>2. IsShape(Settled(r, next))
  BY <1>1, SettledSame, EndedShape DEF Same
<1>3. q' = Ended(Settled(r, next), reason)
  BY DEF r
<1> QED
  BY <1>2, <1>3, EndsQuestion

----------------------------------------------------------------------------
\* Members of a constituency or a term

LEMMA AnchorStep ==
  ASSUME QuestionInv, ResolveAnchor
  PROVE  QuestionInv'
<1>1. q.family = "members" /\ Running
  BY DEF ResolveAnchor, QuestionInv, KindInv, FamilyKinds, Running
<1>2. "member" \in Referents /\ "term" \in AtsOf["members"] \cap Places(Kind)
  BY DEF Referents, AtsOf, Places
<1> QED
  BY <1>1, <1>2, Starts, OtherKinds, LooksUpMember DEF ResolveAnchor, Read, Collecting

LEMMA SelectedTermStep ==
  ASSUME QuestionInv, ResolveSelectedTerm
  PROVE  QuestionInv'
<1>1. q.family = "members" /\ Running /\ q.rows = {} /\ Kind \notin Candidates \cup ContextKinds
  BY Starts, OtherKinds DEF ResolveSelectedTerm, Running, Collecting
<1>2. "term" \in Referents /\ {AfterTerm, "other"} \subseteq AtsOf["members"] \cap Places(Kind)
  BY DEF Referents, AtsOf, Places, AfterTerm
<1>3. CASE Kind = "terms"
  BY <1>1, <1>2, <1>3, LooksOn DEF ResolveSelectedTerm, TermResolved, Read, Reasons
<1>4. CASE Kind # "terms"
  BY <1>1, <1>2, <1>4, LooksUpTerm DEF ResolveSelectedTerm, Read
<1> QED
  BY <1>3, <1>4

LEMMA OtherTermStep ==
  ASSUME QuestionInv, ResolveOtherTerm
  PROVE  QuestionInv'
<1>1. q.family = "members" /\ Running
  BY DEF ResolveOtherTerm, QuestionInv, KindInv, FamilyKinds, Running
<1>2. q.rows = {} /\ Kind \notin Candidates \cup ContextKinds
  BY <1>1, Starts, OtherKinds DEF ResolveOtherTerm, Collecting
<1>3. "other" \in Referents /\ "rows" \in AtsOf["members"] \cap Places(Kind)
  BY DEF Referents, AtsOf, Places
<1>4. CASE q' = Settled(TermResolved("other", "dail", q.question.other), "rows")
  BY <1>1, <1>2, <1>3, <1>4, LooksUp DEF ResolveOtherTerm, TermResolved, Read, Reasons
<1>5. CASE q' = Ended(Settled(TermResolved("other", "dail", q.question.other), "rows"), "source_data_unavailable")
  BY <1>1, <1>3, <1>5, LooksUpAgain DEF ResolveOtherTerm, TermResolved, Read, Reasons
<1> QED
  BY <1>4, <1>5 DEF ResolveOtherTerm

LEMMA PlaceStep ==
  ASSUME QuestionInv, ResolvePlace
  PROVE  QuestionInv'
<1>1. q.family = "members" /\ Running /\ q.rows = {} /\ Kind \notin Candidates \cup ContextKinds
  BY Starts, OtherKinds DEF ResolvePlace, Running, Collecting
<1>2. "rows" \in AtsOf["members"] \cap Places(Kind)
  BY DEF AtsOf, Places
<1> QED
  BY <1>1, <1>2, LooksUpPlace DEF ResolvePlace, Read

LEMMA AnchorPlaceStep ==
  ASSUME QuestionInv, ResolveAnchorPlace
  PROVE  QuestionInv'
<1>1. q.family = "members" /\ Running
  BY DEF ResolveAnchorPlace, QuestionInv, KindInv, AtInv, AtsOf, FamilyKinds, Running
<1>2. q.rows = {} /\ Kind \notin Candidates \cup ContextKinds
  BY <1>1, Starts, OtherKinds DEF ResolveAnchorPlace, Collecting
<1>3. "place" \in Referents /\ "rows" \in AtsOf["members"] \cap Places(Kind)
  BY DEF Referents, AtsOf, Places
<1> QED
  BY <1>1, <1>2, <1>3, LooksUp DEF ResolveAnchorPlace, Read, Reasons

LEMMA ReadMembersStep ==
  ASSUME QuestionInv, ReadMembers
  PROVE  QuestionInv'
<1>1. q.family = "members" /\ Running /\ Kind # "during_office" /\ "evaluate" \in AtsOf[q.family]
  BY Starts DEF ReadMembers, Running, FamilyKinds, AtsOf
<1> QED
  BY <1>1, ReadsPage DEF ReadMembers, Read, Rows

LEMMA PreviousStep ==
  ASSUME QuestionInv, AnswerPrevious
  PROVE  QuestionInv'
<1>1. q.family = "members" /\ Running
  BY DEF AnswerPrevious, QuestionInv, KindInv, FamilyKinds, Running
<1> DEFINE answer == {r[1] : r \in Page(MemberRows(store), 0)}
<1>2. \A x \in answer : \E in \in seen : x \in Meant(in, FALSE)
  BY <1>1, Starts, PageOfRows, MembersAreWitnessed DEF AnswerPrevious, Meant
<1>3. IsShape(q') /\ SameSubject /\ q'.at = "done" /\ q'.answer = answer
  BY DEF AnswerPrevious, QuestionInv, Shape, IsShape, Fields, SameSubject
<1> QED
  BY <1>1, <1>2, <1>3, AnswersWith DEF AnswerPrevious, Read

LEMMA EvaluateMembersStep ==
  ASSUME QuestionInv, EvaluateMembers
  PROVE  QuestionInv'
<1> DEFINE selected == IF Kind = "date" THEN {r \in q.rows : Covers(r[4], q.question.date)} ELSE q.rows
           answer == {r[1] : r \in selected}
<1>1. q.family = "members" /\ Running
  BY DEF EvaluateMembers, Running
<1>2. ASSUME NEW r \in selected
      PROVE  \E in \in seen : r[1] \in Meant(in, FALSE)
  <2>1. PICK in \in seen : r \in MemberRows(in)
    BY <1>1, Starts DEF Witnessed, EvaluateMembers, Collecting, Rows
  <2> QED
    BY <1>1, <2>1, Starts, MembersAreWitnessed DEF Meant
<1>3. CASE Answer(answer)
  <2>1. \A x \in answer : \E in \in seen : x \in Meant(in, FALSE)
    BY <1>2
  <2> HIDE DEF answer
  <2> QED
    BY <1>1, <1>3, <2>1, AnswersSet DEF EvaluateMembers, Read
<1>4. CASE End("source_data_unavailable")
  BY <1>4, Fails DEF EvaluateMembers, Read
<1> QED
  BY <1>3, <1>4 DEF EvaluateMembers

LEMMA MemberStepInv ==
  ASSUME QuestionInv, MemberStep
  PROVE  QuestionInv'
BY AnchorStep, SelectedTermStep, OtherTermStep, PlaceStep, AnchorPlaceStep, ReadMembersStep, PreviousStep,
   EvaluateMembersStep DEF MemberStep

----------------------------------------------------------------------------
\* Terms and Houses

LEMMA HouseStart ==
  ASSUME QuestionInv, Kind \in FamilyKinds["houses"], q.at \notin {"asked", "planning", "planned", "done"}
  PROVE  q.family = "houses" /\ Running /\ Kind \notin Candidates \cup ContextKinds
<1>1. Running
  BY DEF Running
<1>2. q.family = "houses"
  BY <1>1 DEF QuestionInv, KindInv, FamilyKinds
<1> QED
  BY <1>1, <1>2, OtherKinds

LEMMA FirstMemberStep ==
  ASSUME QuestionInv, ResolveFirstMember
  PROVE  QuestionInv'
<1>1. q.family = "houses" /\ Running /\ Kind \notin Candidates \cup ContextKinds
  BY HouseStart DEF ResolveFirstMember, FamilyKinds
<1>2. "member" \in Referents /\ "second" \in AtsOf["houses"] \cap Places(Kind)
  BY DEF Referents, AtsOf, Places
<1>3. q.rows = {}
  BY <1>1, Starts DEF ResolveFirstMember, Collecting
<1> QED
  BY <1>1, <1>2, <1>3, LooksOn DEF ResolveFirstMember, Read, Reasons

LEMMA SecondMemberStep ==
  ASSUME QuestionInv, ResolveSecondMember
  PROVE  QuestionInv'
<1>1. q.family = "houses" /\ Running
  BY DEF ResolveSecondMember, QuestionInv, KindInv, AtInv, AtsOf, FamilyKinds, Running
<1>2. q.rows = {} /\ Kind \notin Candidates \cup ContextKinds
  BY <1>1, Starts, OtherKinds DEF ResolveSecondMember, Collecting
<1>3. "identity" \in Referents /\ "evidence" \in AtsOf["houses"] \cap Places(Kind)
  BY DEF Referents, AtsOf, Places
<1> DEFINE rows == Labelled(store, q.question.second)
           r == Settled(Resolved(rows, "identity", {x[1] : x \in rows}, "not_found"), "evidence")
<1>4. CASE q' = r
  BY <1>1, <1>2, <1>3, <1>4, LooksUp DEF ResolveSecondMember, Read, Reasons
<1>5. CASE q' = Ended(r, "identity_collision")
  BY <1>1, <1>3, <1>5, LooksUpAgain DEF ResolveSecondMember, Read, Reasons
<1> QED
  BY <1>4, <1>5 DEF ResolveSecondMember

LEMMA TermEvidenceStep ==
  ASSUME QuestionInv, ReadTermEvidence
  PROVE  QuestionInv'
<1>1. q.family = "houses" /\ Running /\ Kind \notin Candidates \cup ContextKinds /\ Kind = "shared"
  BY HouseStart DEF ReadTermEvidence, FamilyKinds
<1> DEFINE shared == TermsServed(store, q.ids["member"]) \cap TermsServed(store, q.ids["identity"])
<1>2. CASE End("source_data_unavailable")
  BY <1>2, Fails DEF ReadTermEvidence, Read
<1>3. CASE q' = [q EXCEPT !.left = shared, !.at = "rows"]
  <2>1. /\ IsShape(q') /\ q'.family = q.family /\ q'.question = q.question /\ q'.ids = q.ids /\ q'.status = q.status
        /\ q'.rows = q.rows /\ q'.at = "rows" /\ q'.refusals = q.refusals
    BY <1>3 DEF QuestionInv, Shape, IsShape, Fields
  <2>2. "rows" \in AtsOf["houses"]
    BY DEF AtsOf
  <2> QED
    BY <1>1, <2>1, <2>2, Starts, Collects DEF ReadTermEvidence, Read, SameSubject, IsShape, Shape, Collecting
<1> QED
  BY <1>2, <1>3 DEF ReadTermEvidence

LEMMA SharedTermsStep ==
  ASSUME QuestionInv, ReadSharedTerms
  PROVE  QuestionInv'
<1>1. q.family = "houses" /\ Running /\ Kind \notin Candidates \cup ContextKinds /\ Kind = "shared"
  BY HouseStart DEF ReadSharedTerms, FamilyKinds
<1> DEFINE answer == {r[1] : r \in SharedTerms(store)}
<1>2. CASE End("source_data_unavailable")
  BY <1>2, Fails DEF ReadSharedTerms, Read
<1>3. CASE InOnePage(answer)
  <2>1. ASSUME NEW x \in answer
        PROVE  x \in Meant(store, FALSE)
    <3>1. \A member \in Both : x \in TermsServed(store, member)
      BY DEF SharedTerms
    <3>2. x \in DailTerms(store)
      BY <3>1 DEF TermsServed, Both
    <3> QED
      BY <1>1, <3>1, <3>2 DEF Meant, HousesMeant, TermsServed
  <2>2. \A x \in answer : \E in \in seen : x \in Meant(in, FALSE)
    BY <1>1, <2>1, Starts
  <2> HIDE DEF answer
  <2> QED
    BY <1>1, <1>3, <2>2, AnswersSet DEF ReadSharedTerms, Read
<1> QED
  BY <1>2, <1>3 DEF ReadSharedTerms, InOnePage

LEMMA CurrentDailStep ==
  ASSUME QuestionInv, ResolveCurrentDail
  PROVE  QuestionInv'
<1>1. q.family = "houses" /\ Running /\ Kind \notin Candidates \cup ContextKinds
  BY HouseStart DEF ResolveCurrentDail, FamilyKinds
<1>2. q.rows = {}
  BY <1>1, Starts DEF ResolveCurrentDail, Collecting
<1>3. "term" \in Referents /\ "other" \in AtsOf["houses"] \cap Places(Kind)
  BY DEF Referents, AtsOf, Places
<1> QED
  BY <1>1, <1>2, <1>3, LooksOn DEF ResolveCurrentDail, TermResolved, Read, Reasons

LEMMA CurrentSeanadStep ==
  ASSUME QuestionInv, ResolveCurrentSeanad
  PROVE  QuestionInv'
<1>1. q.family = "houses" /\ Running /\ q.rows = {} /\ Kind \notin Candidates \cup ContextKinds
  BY Starts, OtherKinds DEF ResolveCurrentSeanad, Running, Collecting
<1>2. "other" \in Referents /\ "rows" \in AtsOf["houses"] \cap Places(Kind)
  BY DEF Referents, AtsOf, Places
<1> QED
  BY <1>1, <1>2, LooksUp DEF ResolveCurrentSeanad, TermResolved, Read, Reasons

LEMMA ReadHousesStep ==
  ASSUME QuestionInv, ReadHouses
  PROVE  QuestionInv'
<1>1. q.family = "houses" /\ Running /\ Kind # "during_office" /\ "evaluate" \in AtsOf[q.family]
  BY Starts DEF ReadHouses, Running, FamilyKinds, AtsOf
<1> QED
  BY <1>1, ReadsPage DEF ReadHouses, Read, Rows

LEMMA BothHousesStep ==
  ASSUME QuestionInv, EvaluateBothHouses
  PROVE  QuestionInv'
<1> DEFINE answer == {r[1] : r \in q.rows}
<1>1. q.family = "houses" /\ Running /\ Kind = "both"
  BY HouseStart DEF EvaluateBothHouses, FamilyKinds
<1>2. ASSUME NEW r \in q.rows
      PROVE  \E in \in seen : r[1] \in Meant(in, FALSE)
  <2>1. PICK in \in seen : r \in HouseRows(in)
    BY <1>1, Starts DEF Witnessed, EvaluateBothHouses, Collecting, Rows
  <2>2. PICK x \in HousePairs(in) : r[1] = x[1].member
    BY <2>1 DEF HouseRows
  <2> QED
    BY <1>1, <2>2 DEF Meant, HousesMeant, HousePairs
<1>3. CASE Answer(answer)
  <2>1. \A x \in answer : \E in \in seen : x \in Meant(in, FALSE)
    BY <1>2
  <2> HIDE DEF answer
  <2> QED
    BY <1>1, <1>3, <2>1, AnswersSet DEF EvaluateBothHouses, Read
<1>4. CASE End("source_data_unavailable")
  BY <1>4, Fails DEF EvaluateBothHouses, Read
<1> QED
  BY <1>3, <1>4 DEF EvaluateBothHouses

LEMMA ReturnedStep ==
  ASSUME QuestionInv, EvaluateReturned
  PROVE  QuestionInv'
<1> DEFINE before == {r \in {x \in q.rows : Covers(x[4], AsOf)} : r[6].to # Open /\ r[6].to < r[4].from}
           answer == {r[1] : r \in before}
<1>1. q.family = "houses" /\ Running /\ Kind = "returned"
  BY HouseStart DEF EvaluateReturned, FamilyKinds
<1>2. ASSUME NEW r \in before
      PROVE  \E in \in seen : r[1] \in Meant(in, FALSE)
  <2>1. PICK in \in seen : r \in HouseRows(in)
    BY <1>1, Starts DEF Witnessed, EvaluateReturned, Collecting, Rows
  <2>2. PICK x \in HousePairs(in) : /\ r[1] = x[1].member /\ r[4] = x[1].period /\ r[6] = x[2].period
    BY <2>1 DEF HouseRows
  <2> DEFINE periods(m) == {y.period : y \in {z \in in.members : z.membership = m.membership /\ z.member = m.member}}
  <2>3. ASSUME NEW i \in {1, 2}, Certain(periods(x[i]))
        PROVE  The(periods(x[i])) = x[i].period
    <3>1. x[i] \in in.members
      BY <2>2 DEF HousePairs
    <3>2. periods(x[i]) = {x[i].period}
      BY <3>1, <2>3 DEF Certain
    <3> QED
      BY <3>2 DEF The
  <2>4. Covers(x[1].period, AsOf) /\ x[2].period.to < x[1].period.from
    BY <2>2
  <2> DEFINE senators == {m \in in.members : m.house = "seanad" /\ m.term = q.ids["other"]}
             deputies == {m \in in.members : m.house = "dail" /\ m.term \in DailTerms(in)}
             ended(s, d) ==
               CASE Certain(periods(s)) /\ Certain(periods(d)) ->
                      /\ The(periods(s)).from <= AsOf /\ AsOf <= The(periods(s)).to
                      /\ The(periods(d)).to < The(periods(s)).from
                 [] Certain(periods(s)) /\ ~Certain(periods(d)) -> Covers(The(periods(s)), AsOf)
                 [] OTHER -> TRUE
  <2>5. ended(x[1], x[2])
    BY <2>3, <2>4 DEF Covers
  <2>6. x[1] \in senators /\ x[2] \in deputies /\ x[1].member = x[2].member
    BY <2>2 DEF HousePairs
  <2>7. HousesMeant(in, FALSE) =
          {s.member : s \in {m \in senators : \E d \in deputies : m.member = d.member /\ ended(m, d)}}
    BY <1>1 DEF HousesMeant
  <2> HIDE DEF ended, senators, deputies
  <2> QED
    BY <1>1, <2>2, <2>5, <2>6, <2>7 DEF Meant
<1>3. CASE Answer(answer)
  <2>1. \A x \in answer : \E in \in seen : x \in Meant(in, FALSE)
    BY <1>2
  <2> HIDE DEF answer
  <2> QED
    BY <1>1, <1>3, <2>1, AnswersSet DEF EvaluateReturned, Read
<1>4. CASE End("source_data_unavailable")
  BY <1>4, Fails DEF EvaluateReturned, Read
<1> QED
  BY <1>3, <1>4 DEF EvaluateReturned
LEMMA ListTermsStep ==
  ASSUME QuestionInv, ListTerms
  PROVE  QuestionInv'
<1>1. q.family = "houses" /\ Running /\ Kind = "listing"
  BY HouseStart DEF ListTerms, FamilyKinds
<1>2. \A x \in Listing(store) : \E in \in seen : x \in Meant(in, FALSE)
  BY <1>1, Starts DEF Meant, HousesMeant
<1> QED
  BY <1>1, <1>2, Fails, AnswersSet DEF ListTerms, Read

LEMMA CountTermsStep ==
  ASSUME QuestionInv, CountTerms
  PROVE  QuestionInv'
<1>1. q.family = "houses" /\ Running /\ Kind = "all_terms"
  BY HouseStart DEF CountTerms, FamilyKinds
<1>2. \A x \in DailTerms(store) : \E in \in seen : x \in Meant(in, FALSE)
  BY <1>1, Starts DEF Meant, HousesMeant
<1> QED
  BY <1>1, <1>2, AnswersSet DEF CountTerms, Read

LEMMA SelectTermsStep ==
  ASSUME QuestionInv, SelectTerms
  PROVE  QuestionInv'
<1> DEFINE scope == [from |-> q.question.from, to |-> q.question.to]
           answer == {t.term : t \in {x \in Dails(store) : ~Disjoint(x.period, scope)}}
<1>1. q.family = "houses" /\ Running /\ Kind = "scope"
  BY HouseStart DEF SelectTerms, FamilyKinds
<1>2. \A x \in answer : \E in \in seen : x \in Meant(in, FALSE)
  BY <1>1, Starts DEF Meant, HousesMeant
<1>3. \/ End("clarification_required") \/ End("source_data_unavailable")
      \/ InOnePage(answer)
  BY DEF SelectTerms
<1> HIDE DEF answer
<1> QED
  BY <1>1, <1>2, <1>3, Fails, AnswersSet DEF SelectTerms, Read

LEMMA SeatsStep ==
  ASSUME QuestionInv, AnswerSeats
  PROVE  QuestionInv'
<1>1. q.family = "houses" /\ Running /\ Kind = "seats"
  BY HouseStart DEF AnswerSeats, FamilyKinds
<1>2. CASE InOnePage(TermSeats(store)) /\ \A r \in TermSeats(store) : r[2] # Nothing
  <2>1. \A x \in TermSeats(store) : \E in \in seen : x \in Meant(in, FALSE)
    BY <1>1, <1>2, Starts DEF Meant, HousesMeant
  <2> QED
    BY <1>1, <1>2, <2>1, AnswersSet DEF AnswerSeats, Read
<1>3. CASE End("source_data_unavailable")
  BY <1>3, Fails DEF AnswerSeats, Read
<1> QED
  BY <1>2, <1>3 DEF AnswerSeats

LEMMA NumberedTermStep ==
  ASSUME QuestionInv, ResolveNumberedTerm
  PROVE  QuestionInv'
<1>1. q.family = "houses" /\ Running /\ Kind \notin Candidates \cup ContextKinds
  BY HouseStart DEF ResolveNumberedTerm, FamilyKinds
<1>2. q.rows = {}
  BY <1>1, Starts DEF ResolveNumberedTerm, Collecting
<1>3. "term" \in Referents /\ "parties" \in AtsOf["houses"] \cap Places(Kind)
  BY DEF Referents, AtsOf, Places
<1> QED
  BY <1>1, <1>2, <1>3, LooksUp DEF ResolveNumberedTerm, Read, Reasons

LEMMA GroupsStep ==
  ASSUME QuestionInv, ListGroups
  PROVE  QuestionInv'
<1>1. q.family = "houses" /\ Running /\ Kind = "groups" /\ Kind \notin Candidates \cup ContextKinds
  BY HouseStart DEF ListGroups, FamilyKinds
<1>2. CASE End("source_data_unavailable")
  BY <1>2, Fails DEF ListGroups, Read
<1>3. CASE q' = [q EXCEPT !.at = "presence"]
  <2>1. /\ IsShape(q') /\ q'.family = q.family /\ q'.question = q.question /\ q'.status = q.status
        /\ q'.rows = q.rows /\ q'.at = "presence" /\ q'.refusals = q.refusals
    BY <1>3 DEF QuestionInv, Shape, IsShape, Fields
  <2>2. "presence" \in AtsOf["houses"] \cap Places(Kind) /\ q.rows = {} /\ q.refusals \subseteq Reasons
    BY <1>1, Starts DEF AtsOf, Places, ListGroups, Collecting
  <2> QED
    BY <1>1, <2>1, <2>2, Searches DEF ListGroups, Read, IsShape, Shape
<1>4. CASE InOnePage(PartiesActive(store))
  <2>1. \A x \in PartiesActive(store) : \E in \in seen : x \in Meant(in, FALSE)
    BY <1>1, Starts DEF Meant, HousesMeant
  <2> QED
    BY <1>1, <1>4, <2>1, AnswersSet DEF ListGroups, Read
<1> QED
  BY <1>2, <1>3, <1>4 DEF ListGroups

LEMMA HouseStepInv ==
  ASSUME QuestionInv, HouseStep
  PROVE  QuestionInv'
<1>1. CASE AskPresence
  BY <1>1, Fails DEF AskPresence, Read
<1> QED
  BY <1>1, SeatsStep, NumberedTermStep, GroupsStep, ListTermsStep, CountTermsStep, SelectTermsStep, FirstMemberStep,
     SecondMemberStep, TermEvidenceStep, SharedTermsStep, CurrentDailStep, CurrentSeanadStep, ReadHousesStep,
     BothHousesStep, ReturnedStep DEF HouseStep

----------------------------------------------------------------------------
\* Offices, parties and seats over time

LEMMA CertainIs ==
  ASSUME NEW S, NEW p \in S, Certain(S)
  PROVE  S = {p} /\ The(S) = p
BY DEF Certain, The

LEMMA TenureStart ==
  ASSUME QuestionInv, Kind \in FamilyKinds["tenures"], q.at \notin {"asked", "planning", "planned", "done"}
  PROVE  q.family = "tenures" /\ Running /\ Kind \notin Candidates \cup ContextKinds
<1>1. Running
  BY DEF Running
<1>2. q.family = "tenures"
  BY <1>1 DEF QuestionInv, KindInv, FamilyKinds
<1> QED
  BY <1>1, <1>2, OtherKinds

LEMMA SeatTermStep ==
  ASSUME QuestionInv, ResolveSeatTerm
  PROVE  QuestionInv'
<1>1. q.family = "tenures" /\ Running /\ Kind \notin Candidates \cup ContextKinds
  BY TenureStart DEF ResolveSeatTerm, FamilyKinds
<1>2. q.rows = {}
  BY <1>1, Starts DEF ResolveSeatTerm, Collecting
<1>3. "term" \in Referents /\ {"member", "place"} \subseteq AtsOf["tenures"] \cap Places(Kind)
  BY DEF Referents, AtsOf, Places
<1> QED
  BY <1>1, <1>2, <1>3, LooksUpTerm DEF ResolveSeatTerm, Read

LEMMA SeatPlaceStep ==
  ASSUME QuestionInv, ResolveSeatPlace
  PROVE  QuestionInv'
<1>1. q.family = "tenures" /\ Running /\ Kind \notin Candidates \cup ContextKinds
  BY TenureStart DEF ResolveSeatPlace, FamilyKinds
<1>2. q.rows = {}
  BY <1>1, Starts DEF ResolveSeatPlace, Collecting
<1>3. "rows" \in AtsOf["tenures"] \cap Places(Kind)
  BY DEF AtsOf, Places
<1> QED
  BY <1>1, <1>2, <1>3, LooksUpPlace DEF ResolveSeatPlace, Read

LEMMA HolderStep ==
  ASSUME QuestionInv, ResolveHolder
  PROVE  QuestionInv'
<1>1. q.family = "tenures" /\ Running /\ q.rows = {} /\ Kind \notin Candidates \cup ContextKinds
  BY Starts, OtherKinds DEF ResolveHolder, Running, Collecting
<1>2. "member" \in Referents /\ {"office", "service", "rows"} \subseteq AtsOf["tenures"] \cap Places(Kind)
  BY DEF Referents, AtsOf, Places
<1> DEFINE next == CASE Kind \in {"held", "episodes"} -> "office" [] Kind = "latest" -> "service" [] OTHER -> "rows"
<1>3. next \in {"office", "service", "rows"}
  OBVIOUS
<1>4. ResolveMember("member", q.question.name, next) /\ seen' = seen /\ store' = store /\ q.at # "answer"
  BY DEF ResolveHolder, Read
<1> HIDE DEF next
<1> QED
  BY <1>1, <1>2, <1>3, <1>4, LooksUpMember

LEMMA OfficeStep ==
  ASSUME QuestionInv, ResolveOffice
  PROVE  QuestionInv'
<1>1. /\ q.family = "tenures" /\ Running /\ Kind \notin Candidates \cup ContextKinds
      /\ Kind \in {"office", "held", "episodes"}
  BY TenureStart DEF ResolveOffice, FamilyKinds
<1>2. q.rows = {}
  BY <1>1, Starts DEF ResolveOffice, Collecting
<1>3. /\ "office" \in Referents /\ "rows" \in AtsOf["tenures"] \cap Places(Kind)
      /\ Kind # "episodes" => "holdings" \in AtsOf["tenures"] \cap Places(Kind)
  BY <1>1 DEF Referents, AtsOf, Places
<1> DEFINE rows == {<<o.office, o.label>> : o \in {x \in store.offices : x.label = q.question.office}}
           found == {r[1] : r \in rows}
<1>4. \/ End("clarification_required")
      \/ q' = Settled(Resolved(rows, "office", found, "source_data_unavailable"), "rows")
      \/ Kind # "episodes" /\ q' = Settled(Resolved(rows, "office", found, "not_found"), "holdings")
  BY DEF ResolveOffice
<1> HIDE DEF rows, found
<1>5. seen' = seen /\ store' = store /\ q.at # "answer"
  BY DEF ResolveOffice, Read
<1> QED
  BY <1>1, <1>2, <1>3, <1>4, <1>5, Fails, LooksUp DEF Reasons

LEMMA IdentityStep ==
  ASSUME QuestionInv, ResolveIdentity
  PROVE  QuestionInv'
<1>1. q.family = "tenures" /\ Running /\ Kind \notin Candidates \cup ContextKinds
  BY TenureStart DEF ResolveIdentity, FamilyKinds
<1>2. q.rows = {}
  BY <1>1, Starts DEF ResolveIdentity, Collecting
<1>3. "identity" \in Referents /\ "rows" \in AtsOf["tenures"] \cap Places(Kind)
  BY DEF Referents, AtsOf, Places
<1> QED
  BY <1>1, <1>2, <1>3, LooksUp DEF ResolveIdentity, Read, Reasons

LEMMA InspectStep ==
  ASSUME QuestionInv, InspectHoldings
  PROVE  QuestionInv'
<1>1. q.family = "tenures" /\ Running /\ Kind \notin Candidates \cup ContextKinds
  BY OtherKinds DEF InspectHoldings, Running
<1>2. CASE End("insufficient_holding_evidence") \/ End("source_data_unavailable")
  BY <1>2, Fails DEF InspectHoldings, Read
<1>3. CASE ~(End("insufficient_holding_evidence") \/ End("source_data_unavailable"))
  <2>1. /\ IsShape(q') /\ q'.family = q.family /\ q'.question = q.question /\ q'.status = q.status /\ q'.at = "answer"
    BY <1>3 DEF InspectHoldings, QuestionInv, Shape, IsShape, Fields
  <2>2. Kind' = Kind /\ Running' /\ Kind \in {"office", "held"}
    BY <1>1, <2>1 DEF Kind, Running, InspectHoldings, QuestionInv, AtInv
  <2>3. AtInv' /\ CollectInv' /\ OneStoreInv' /\ CandidateInv'
    BY <1>1, <2>1, <2>2 DEF AtInv, AtsOf, CollectInv, Collecting, OneStoreInv, CandidateInv
  <2> QED
    BY <1>1, <2>1, <2>2, <2>3, GoesOn DEF InspectHoldings, Read, IsShape, Shape
<1> QED
  BY <1>2, <1>3

\* A row of the holdings and what it says of the office
LEMMA HoldingIsRecorded ==
  ASSUME NEW in, NEW r \in HoldingRows(in)
  PROVE  \E h \in in.holdings :
           /\ h.office = q.ids["office"] /\ NamesOf(in, h.member) # {}
           /\ (Kind # "office" => h.member = q.ids["member"])
           /\ r[1] = h.member /\ r[3] = h.holding /\ r[4] = h.period
BY DEF HoldingRows

LEMMA AnswerHoldingsStep ==
  ASSUME QuestionInv, AnswerHoldings
  PROVE  QuestionInv'
<1> DEFINE answer == {r[1] : r \in {x \in HoldingRows(store) : Within(x[4])}}
<1>1. q.family = "tenures" /\ Running /\ Kind \in {"office", "held"}
  BY DEF AnswerHoldings, QuestionInv, AtInv, AtsOf, KindInv, FamilyKinds, Running
<1>2. CASE End("source_data_unavailable") \/ End("insufficient_holding_evidence")
  BY <1>2, Fails DEF AnswerHoldings, Read
<1>3. CASE InOnePage(answer)
  <2>1. ASSUME NEW r \in HoldingRows(store), Within(r[4])
        PROVE  r[1] \in TenuresMeant(store, FALSE)
    <3>1. PICK h \in store.holdings :
           /\ h.office = q.ids["office"] /\ NamesOf(store, h.member) # {}
           /\ (Kind # "office" => h.member = q.ids["member"])
           /\ r[1] = h.member /\ r[3] = h.holding /\ r[4] = h.period
      BY HoldingIsRecorded
    <3> DEFINE periods == {x.period : x \in {y \in store.holdings : y.holding = h.holding}}
    <3>2. h.period \in periods
      OBVIOUS
    <3>3. \A p \in periods : periods = {p} => p.from <= q.question.to
      BY <2>1, <3>1, <3>2 DEF Within
    <3>4. Certain(periods) => \A p \in periods : p.from <= q.question.to /\ q.question.from <= p.to
      BY <2>1, <3>1, <3>2, CertainIs DEF Within
    <3> QED
      BY <1>1, <3>1, <3>3, <3>4 DEF TenuresMeant
  <2>2. \A x \in answer : \E in \in seen : x \in Meant(in, FALSE)
    BY <1>1, <2>1, Starts DEF Meant
  <2> HIDE DEF answer
  <2> QED
    BY <1>1, <1>3, <2>2, AnswersSet DEF AnswerHoldings, Read
<1> QED
  BY <1>2, <1>3 DEF AnswerHoldings, InOnePage
LEMMA ServiceTermsStep ==
  ASSUME QuestionInv, ReadService
  PROVE  QuestionInv'
<1>1. q.family = "tenures" /\ Running
  BY DEF ReadService, QuestionInv, AtInv, AtsOf, KindInv, FamilyKinds, Running
<1>2. CASE End("source_data_unavailable")
  BY <1>2, Fails DEF ReadService, Read
<1>3. CASE ~End("source_data_unavailable")
  <2>1. /\ IsShape(q') /\ q'.family = q.family /\ q'.question = q.question /\ q'.status = q.status
        /\ q'.rows = q.rows /\ q'.at = "chronology" /\ q'.refusals = q.refusals
    BY <1>3 DEF ReadService, QuestionInv, Shape, IsShape, Fields
  <2>2. "chronology" \in AtsOf["tenures"] \cap Places(Kind) /\ q.rows = {} /\ q.refusals \subseteq Reasons
    BY <1>1, Starts DEF AtsOf, Places, ReadService, Collecting
  <2> QED
    BY <1>1, <2>1, <2>2, OtherKinds, Searches DEF ReadService, Read, IsShape, Shape
<1> QED
  BY <1>2, <1>3

LEMMA LatestTermStep ==
  ASSUME QuestionInv, SelectLatestTerm
  PROVE  QuestionInv'
<1>1. q.family = "tenures" /\ Running
  BY DEF SelectLatestTerm, QuestionInv, AtInv, AtsOf, KindInv, FamilyKinds, Running
<1>2. CASE End("source_data_unavailable")
  BY <1>2, Fails DEF SelectLatestTerm, Read
<1>3. CASE ~End("source_data_unavailable")
  <2>0. PICK t : q' = [q EXCEPT !.ids["term"] = t, !.left = {}, !.at = "rows"]
    BY <1>3 DEF SelectLatestTerm
  <2>1. /\ IsShape(q') /\ q'.family = q.family /\ q'.question = q.question /\ q'.status = q.status
        /\ q'.rows = q.rows /\ q'.at = "rows" /\ q'.refusals = q.refusals
    BY <2>0 DEF QuestionInv, Shape, IsShape, Fields, Referents
  <2>2. "rows" \in AtsOf["tenures"] \cap Places(Kind) /\ q.rows = {} /\ q.refusals \subseteq Reasons
    BY <1>1, Starts DEF AtsOf, Places, SelectLatestTerm, Collecting
  <2> QED
    BY <1>1, <2>1, <2>2, OtherKinds, Searches DEF SelectLatestTerm, Read, IsShape, Shape
<1> QED
  BY <1>2, <1>3

LEMMA ReadTenuresStep ==
  ASSUME QuestionInv, ReadTenures
  PROVE  QuestionInv'
<1>1. q.family = "tenures" /\ Running /\ Kind # "during_office" /\ "evaluate" \in AtsOf[q.family]
  BY Starts DEF ReadTenures, Running, FamilyKinds, AtsOf
<1>2. ReadPage(Rows(store), "evaluate")
  BY <1>1 DEF ReadTenures, Rows, TenureRows
<1> QED
  BY <1>1, <1>2, ReadsPage DEF ReadTenures, Read

LEMMA EpisodesStep ==
  ASSUME QuestionInv, EvaluateEpisodes
  PROVE  QuestionInv'
<1> DEFINE answer == {<<r[3], r[4]>> : r \in q.rows}
<1>1. q.family = "tenures" /\ Running /\ Kind = "episodes"
  BY TenureStart DEF EvaluateEpisodes, FamilyKinds
<1>2. ASSUME NEW r \in q.rows
      PROVE  \E in \in seen : <<r[3], r[4]>> \in Meant(in, FALSE)
  <2>1. PICK in \in seen : r \in HoldingRows(in)
    BY <1>1, Starts DEF Witnessed, EvaluateEpisodes, Collecting, Rows, TenureRows
  <2> QED
    BY <1>1, <2>1, HoldingIsRecorded DEF Meant, TenuresMeant
<1>3. CASE Answer(answer)
  <2>1. \A x \in answer : \E in \in seen : x \in Meant(in, FALSE)
    BY <1>2
  <2> HIDE DEF answer
  <2> QED
    BY <1>1, <1>3, <2>1, AnswersSet DEF EvaluateEpisodes, Read
<1>4. CASE End("source_data_unavailable")
  BY <1>4, Fails DEF EvaluateEpisodes, Read
<1> QED
  BY <1>3, <1>4 DEF EvaluateEpisodes

LEMMA AffiliationStep ==
  ASSUME QuestionInv, EvaluateAffiliation
  PROVE  QuestionInv'
<1> DEFINE answer == {r[2] : r \in q.rows}
<1>1. q.family = "tenures" /\ Running /\ Kind = "affiliation"
  BY TenureStart DEF EvaluateAffiliation, FamilyKinds
<1>2. ASSUME NEW r \in q.rows
      PROVE  \E in \in seen : r[2] \in Meant(in, FALSE)
  <2>1. PICK in \in seen : r \in AffiliationRows(in)
    BY <1>1, Starts DEF Witnessed, EvaluateAffiliation, Collecting, Rows, TenureRows
  <2>2. PICK x \in EpisodePaths(in) : x[1].member = q.ids["member"] /\ r[2] = x[3].identity
    BY <2>1 DEF AffiliationRows
  <2> QED
    BY <1>1, <2>2 DEF Meant, TenuresMeant, EpisodePaths
<1>3. CASE Answer(answer)
  <2>1. \A x \in answer : \E in \in seen : x \in Meant(in, FALSE)
    BY <1>2
  <2> HIDE DEF answer
  <2> QED
    BY <1>1, <1>3, <2>1, AnswersSet DEF EvaluateAffiliation, Read
<1>4. CASE End("source_data_unavailable") \/ End("missing_identity_link")
  BY <1>4, Fails DEF EvaluateAffiliation, Read
<1> QED
  BY <1>3, <1>4 DEF EvaluateAffiliation

LEMMA GovernmentStep ==
  ASSUME QuestionInv, EvaluateGovernment
  PROVE  QuestionInv'
<1> DEFINE current(i) == {r \in q.rows : \A j \in 1..i : Covers(r.periods[j], AsOf)}
           answer == {r.member : r \in current(4)}
<1>1. q.family = "tenures" /\ Running /\ Kind = "government"
  BY TenureStart DEF EvaluateGovernment, FamilyKinds
<1>2. ASSUME NEW r \in current(4)
      PROVE  \E in \in seen : r.member \in Meant(in, FALSE)
  <2>1. PICK in \in seen : r \in GovernmentRows(in)
    BY <1>1, Starts DEF Witnessed, EvaluateGovernment, Collecting, Rows, TenureRows
  <2>2. PICK e \in in.episodes, m \in in.members, p \in in.parties, c \in in.cabinets, t \in in.terms :
          /\ e.member = m.member /\ e.of = m.membership /\ p.party = e.party /\ p.term = m.term
          /\ p.identity = q.ids["identity"] /\ c.member = m.member /\ t.term = m.term
          /\ r.member = m.member /\ r.periods = <<c.period, e.period, m.period, t.period>>
    <3>1. PICK x \in EpisodePaths(in) \X in.cabinets \X in.terms :
            /\ x[1][3].identity = q.ids["identity"] /\ x[2].member = x[1][1].member /\ x[3].term = x[1][2].term
            /\ r.member = x[1][2].member /\ r.periods = <<x[2].period, x[1][1].period, x[1][2].period, x[3].period>>
      BY <2>1 DEF GovernmentRows
    <3>2. /\ x[1][1] \in in.episodes /\ x[1][2] \in in.members /\ x[1][3] \in in.parties
          /\ x[2] \in in.cabinets /\ x[3] \in in.terms
          /\ x[1][1].member = x[1][2].member /\ x[1][1].of = x[1][2].membership
          /\ x[1][3].party = x[1][1].party /\ x[1][3].term = x[1][2].term
      BY <3>1 DEF EpisodePaths
    <3> QED
      BY <3>1, <3>2
  <2>3. Covers(c.period, AsOf) /\ Covers(e.period, AsOf) /\ Covers(m.period, AsOf) /\ Covers(t.period, AsOf)
    BY <2>2
  <2> DEFINE now(periods) == IF Certain(periods) THEN \A i \in periods : Covers(i, AsOf) ELSE TRUE
  <2>4. \A periods : (\E i \in periods : Covers(i, AsOf)) => now(periods)
    BY CertainIs
  <2>5. /\ now({y.period : y \in {z \in in.cabinets : z.cabinet = c.cabinet}})
        /\ now({y.period : y \in {z \in in.episodes : z.episode = e.episode}})
        /\ now({y.period : y \in {z \in in.members : z.membership = m.membership}})
        /\ now({y.period : y \in {z \in in.terms : z.term = m.term}})
    <3> HIDE DEF now
    <3> QED
      BY <2>2, <2>3, <2>4
  <2>6. m.member \in TenuresMeant(in, FALSE)
    <3> DEFINE governs(m1, e1, p1, c1) ==
                 /\ e1.member = m1.member /\ e1.of = m1.membership /\ p1.party = e1.party /\ p1.term = m1.term
                 /\ p1.identity = q.ids["identity"] /\ c1.member = m1.member
                 /\ now({y.period : y \in {z \in in.cabinets : z.cabinet = c1.cabinet}})
                 /\ now({y.period : y \in {z \in in.episodes : z.episode = e1.episode}})
                 /\ now({y.period : y \in {z \in in.members : z.membership = m1.membership}})
                 /\ now({y.period : y \in {z \in in.terms : z.term = m1.term}})
    <3>1. TenuresMeant(in, FALSE) =
            {x.member : x \in {y \in in.members :
                                \E e1 \in in.episodes, p1 \in in.parties, c1 \in in.cabinets : governs(y, e1, p1, c1)}}
      BY <1>1 DEF TenuresMeant
    <3>2. governs(m, e, p, c)
      BY <2>2, <2>5
    <3> HIDE DEF governs
    <3> QED
      BY <3>1, <3>2
  <2> QED
    BY <1>1, <2>2, <2>6 DEF Meant
<1>3. CASE Answer(answer)
  <2>1. \A x \in answer : \E in \in seen : x \in Meant(in, FALSE)
    BY <1>2
  <2> HIDE DEF answer
  <2> QED
    BY <1>1, <1>3, <2>1, AnswersSet DEF EvaluateGovernment, Read
<1>4. CASE End("source_data_unavailable")
  BY <1>4, Fails DEF EvaluateGovernment, Read
<1> QED
  BY <1>3, <1>4 DEF EvaluateGovernment

LEMMA SeatStep ==
  ASSUME QuestionInv, EvaluateSeat
  PROVE  QuestionInv'
<1> DEFINE today == Kind \in {"seat", "sitting"}
           active == {r \in q.rows : today => Covers(r[4], AsOf)}
           answer == {r[2] : r \in active}
<1>1. q.family = "tenures" /\ Running /\ Kind \in {"seat", "sitting", "latest", "career"}
  BY TenureStart DEF EvaluateSeat, FamilyKinds
<1>2. ASSUME NEW r \in active
      PROVE  \E in \in seen : r[2] \in Meant(in, FALSE)
  <2>1. PICK in \in seen : r \in SeatRows(in)
    BY <1>1, Starts DEF Witnessed, EvaluateSeat, Collecting, Rows, TenureRows
  <2>2. PICK m \in in.members :
          /\ m.house = "dail" /\ Asks(m) /\ \E p \in in.places : p.place = m.place /\ p.term = m.term
          /\ r[2] = IF Kind = "sitting" THEN m.member ELSE m.place
          /\ r[4] = m.period
    BY <2>1 DEF SeatRows
  <2> DEFINE periods == {x.period : x \in {y \in in.members : y.membership = m.membership}}
  <2>3. today => (IF Certain(periods) THEN \A p \in periods : Covers(p, AsOf) ELSE TRUE)
    BY <2>2, CertainIs
  <2> QED
    BY <1>1, <2>2, <2>3 DEF Meant, TenuresMeant
<1>3. CASE Answer(answer)
  <2>1. \A x \in answer : \E in \in seen : x \in Meant(in, FALSE)
    BY <1>2
  <2> HIDE DEF answer
  <2> QED
    BY <1>1, <1>3, <2>1, AnswersSet DEF EvaluateSeat, Read
<1>4. CASE End("source_data_unavailable")
  BY <1>4, Fails DEF EvaluateSeat, Read
<1> QED
  BY <1>3, <1>4 DEF EvaluateSeat

LEMMA TenureStepInv ==
  ASSUME QuestionInv, TenureStep
  PROVE  QuestionInv'
BY SeatTermStep, SeatPlaceStep, HolderStep, OfficeStep, IdentityStep, InspectStep, AnswerHoldingsStep,
   ServiceTermsStep,
   LatestTermStep, ReadTenuresStep, EpisodesStep, AffiliationStep, GovernmentStep, SeatStep DEF TenureStep

----------------------------------------------------------------------------
\* Bills

LEMMA ToldIsRecorded ==
  ASSUME NEW rows, NEW b \in BillsIn(rows), NEW column
  PROVE  \E r \in rows : r.bill = b /\ r[column] \in Told(rows, b, column) /\ r[column] = The(Told(rows, b, column))
<1>1. PICK r \in rows : r.bill = b
  BY DEF BillsIn
<1>2. CASE Values(rows, b, column) = {}
  <2>1. r[column] = Nothing /\ Told(rows, b, column) = {Nothing}
    BY <1>1, <1>2 DEF Values, Told
  <2> QED
    BY <1>1, <2>1 DEF The
<1>3. CASE Values(rows, b, column) # {}
  <2>1. The(Told(rows, b, column)) \in Values(rows, b, column)
    BY <1>3 DEF The, Told
  <2> QED
    BY <1>3, <2>1 DEF Values, Told
<1> QED
  BY <1>2, <1>3

\* What is shown of a Bill is one account of it.
LEMMA ShownIsAccount ==
  ASSUME NEW rows, NEW columns
  PROVE  Shown(rows, columns) \subseteq Accounts(rows, columns)
<1> SUFFICES ASSUME NEW b \in BillsIn(rows)
             PROVE  [i \in DOMAIN columns |-> The(Told(rows, b, columns[i]))] \in Accounts(rows, columns)
  BY DEF Shown
<1> DEFINE of == {r \in rows : r.bill = b}
           pick == [i \in DOMAIN columns |-> CHOOSE r \in of : /\ r[columns[i]] \in Told(rows, b, columns[i])
                                                               /\ r[columns[i]] = The(Told(rows, b, columns[i]))]
<1>1. \A i \in DOMAIN columns : /\ pick[i] \in of
                                /\ pick[i][columns[i]] \in Told(rows, b, columns[i])
                                /\ pick[i][columns[i]] = The(Told(rows, b, columns[i]))
  BY ToldIsRecorded
<1>2. pick \in [DOMAIN columns -> of]
  BY <1>1
<1>3. [i \in DOMAIN columns |-> The(Told(rows, b, columns[i]))] = [i \in DOMAIN columns |-> pick[i][columns[i]]]
  BY <1>1
<1> HIDE DEF pick
<1> QED
  BY <1>1, <1>2, <1>3 DEF Accounts

LEMMA ToldOfColumns ==
  ASSUME NEW rows, NEW set, "bill" \in set
  PROVE  /\ BillsIn(Columns(rows, set)) = BillsIn(rows)
         /\ \A b : \A c \in set : Told(Columns(rows, set), b, c) = Told(rows, b, c)
<1>1. \A r : Restrict(r, set).bill = r.bill /\ \A c \in set : Restrict(r, set)[c] = r[c]
  BY DEF Restrict
<1>2. BillsIn(Columns(rows, set)) = BillsIn(rows)
  BY <1>1 DEF BillsIn, Columns
<1>3. \A b : \A c \in set : Values(Columns(rows, set), b, c) = Values(rows, b, c)
  BY <1>1 DEF Values, Columns
<1> QED
  BY <1>2, <1>3 DEF Told

LEMMA ShownOfColumns ==
  ASSUME NEW rows, NEW set, "bill" \in set, NEW columns, \A i \in DOMAIN columns : columns[i] \in set
  PROVE  Shown(Columns(rows, set), columns) = Shown(rows, columns)
BY ToldOfColumns DEF Shown

\* A Bill is left out as a whole.
LEMMA ShownOfUnenacted ==
  ASSUME NEW rows, NEW columns
  PROVE  Shown(Unenacted(rows), columns) \subseteq Shown(rows, columns)
<1>1. ASSUME NEW b \in BillsIn(Unenacted(rows)), NEW c
      PROVE  Told(Unenacted(rows), b, c) = Told(rows, b, c)
  <2>1. Values(rows, b, "status") # {"enacted"}
    BY DEF BillsIn, Unenacted
  <2>2. {x \in Unenacted(rows) : x.bill = b} = {x \in rows : x.bill = b}
    BY <2>1 DEF Unenacted
  <2> QED
    BY <2>2 DEF Told, Values
<1>2. BillsIn(Unenacted(rows)) \subseteq BillsIn(rows)
  BY DEF BillsIn, Unenacted
<1> QED
  BY <1>1, <1>2 DEF Shown

LEMMA BillStart ==
  ASSUME QuestionInv, Kind \in FamilyKinds["bills"], q.at \notin {"asked", "planning", "planned", "done"}
  PROVE  q.family = "bills" /\ Running /\ Kind \notin Candidates \cup ContextKinds
<1>1. Running
  BY DEF Running
<1>2. q.family = "bills"
  BY <1>1 DEF QuestionInv, KindInv, FamilyKinds
<1> QED
  BY <1>1, <1>2, OtherKinds

LEMMA ProjectStep ==
  ASSUME QuestionInv, Kind \in FamilyKinds["bills"], q.at = "bills", NEW STATE rows, NEW STATE verdict,
         NEW STATE answer,
         verdict = "success" => answer \subseteq BillsMeant(store, FALSE), Project(rows, verdict, answer)
  PROVE  QuestionInv'
<1>1. q.family = "bills" /\ Running /\ store \in seen
  BY BillStart, Starts
<1>2. CASE End("incomplete_results")
  BY <1>2, Fails DEF Project, Read
<1>3. CASE verdict # "success" /\ End(verdict)
  BY <1>3, Fails DEF Project, Read
<1>4. CASE verdict = "success" /\ InOnePage(answer)
  <2>1. \A x \in answer : \E in \in seen : x \in Meant(in, FALSE)
    BY <1>1, <1>4 DEF Meant
  <2> QED
    BY <1>1, <1>4, <2>1, AnswersSet DEF Project, Read
<1> QED
  BY <1>2, <1>3, <1>4 DEF Project

LEMMA SponsorStep ==
  ASSUME QuestionInv, ResolveSponsor
  PROVE  QuestionInv'
<1>1. q.family = "bills" /\ Running /\ q.rows = {} /\ Kind \notin Candidates \cup ContextKinds
  BY Starts, OtherKinds DEF ResolveSponsor, Running, Collecting
<1>2. "member" \in Referents /\ "rows" \in AtsOf["bills"] \cap Places(Kind)
  BY DEF Referents, AtsOf, Places
<1> QED
  BY <1>1, <1>2, LooksUpMember DEF ResolveSponsor, Read

LEMMA ReadSponsorshipsStep ==
  ASSUME QuestionInv, ReadSponsorships
  PROVE  QuestionInv'
<1>1. q.family = "bills" /\ Running /\ Kind # "during_office" /\ {"evaluate", "coverage"} \subseteq AtsOf[q.family]
  BY Starts DEF ReadSponsorships, Running, FamilyKinds, AtsOf
<1> DEFINE rows == SponsorshipRows(store)
           next == IF q.rows \cup rows = {} THEN "coverage" ELSE "evaluate"
<1>2. rows = Rows(store)
  BY <1>1 DEF Rows
<1>3. ReadPage(rows, next) /\ next \in {"evaluate", "coverage"} /\ seen' = seen /\ store' = store /\ q.at = "rows"
  BY DEF ReadSponsorships, Read
<1> HIDE DEF rows, next
<1> QED
  BY <1>1, <1>2, <1>3, ReadsPage

LEMMA CoverageStep ==
  ASSUME QuestionInv, AskCoverage
  PROVE  QuestionInv'
<1>1. CASE End("missing_sponsorship_evidence") \/ End("source_data_unavailable")
  BY <1>1, Fails DEF AskCoverage, Read
<1> QED
  BY <1>1 DEF AskCoverage

LEMMA CountStep ==
  ASSUME QuestionInv, CountBills
  PROVE  QuestionInv'
<1> DEFINE answer == {r.bill : r \in {x \in q.rows : x.published = q.question.year}}
<1>1. q.family = "bills" /\ Running /\ Kind = "billcount"
  BY BillStart DEF CountBills, FamilyKinds
<1>2. ASSUME NEW r \in q.rows, r.published = q.question.year
      PROVE  \E in \in seen : r.bill \in Meant(in, FALSE)
  <2>1. PICK in \in seen : r \in SponsorshipRows(in)
    BY <1>1, Starts DEF Witnessed, CountBills, Collecting, Rows
  <2> QED
    BY <1>1, <1>2, <2>1 DEF Meant, BillsMeant, BillsIn
<1>3. CASE Answer(answer)
  <2>1. \A x \in answer : \E in \in seen : x \in Meant(in, FALSE)
    BY <1>2
  <2> HIDE DEF answer
  <2> QED
    BY <1>1, <1>3, <2>1, AnswersSet DEF CountBills, Read
<1>4. CASE End("source_data_unavailable")
  BY <1>4, Fails DEF CountBills, Read
<1> QED
  BY <1>3, <1>4 DEF CountBills

LEMMA SponsorshipsStep ==
  ASSUME QuestionInv, EvaluateSponsorships
  PROVE  QuestionInv'
<1> DEFINE answer == {<<r.participation, r.bill, r.primary>> : r \in q.rows}
<1>1. q.family = "bills" /\ Running /\ Kind = "bills"
  BY BillStart DEF EvaluateSponsorships, FamilyKinds
<1>2. ASSUME NEW r \in q.rows
      PROVE  \E in \in seen : <<r.participation, r.bill, r.primary>> \in Meant(in, FALSE)
  <2>1. PICK in \in seen : r \in SponsorshipRows(in)
    BY <1>1, Starts DEF Witnessed, EvaluateSponsorships, Collecting, Rows
  <2> QED
    BY <1>1, <2>1 DEF Meant, BillsMeant
<1>3. CASE Answer(answer)
  <2>1. \A x \in answer : \E in \in seen : x \in Meant(in, FALSE)
    BY <1>2
  <2> HIDE DEF answer
  <2> QED
    BY <1>1, <1>3, <2>1, AnswersSet DEF EvaluateSponsorships, Read
<1> DEFINE verdict == SponsorshipVerdict(q.rows)
<1>4. CASE verdict # "success" /\ End(verdict)
  <2> HIDE DEF verdict
  <2> QED
    BY <1>4, Fails DEF EvaluateSponsorships, Read
<1> QED
  BY <1>3, <1>4 DEF EvaluateSponsorships

LEMMA PublishedBillsStep ==
  ASSUME QuestionInv, ListPublished
  PROVE  QuestionInv'
<1> DEFINE rows == PublishedRows(store)
           verdict == CASE rows = {} -> "source_data_unavailable"
                        [] \E b \in BillsIn(rows) : ~One(rows, b, "title") \/ ~One(rows, b, "year") ->
                             "incomplete_display_evidence"
                        [] OTHER -> "success"
           answer == Shown(rows, <<"bill", "title", "year">>)
<1>1. answer \subseteq BillsMeant(store, FALSE)
  BY ShownIsAccount DEF ListPublished, BillsMeant
<1>2. Kind \in FamilyKinds["bills"] /\ q.at = "bills" /\ Project(rows, verdict, answer)
  BY DEF ListPublished, FamilyKinds
<1> HIDE DEF rows, verdict, answer
<1> QED
  BY <1>1, <1>2, ProjectStep

LEMMA UnenactedStep ==
  ASSUME QuestionInv, ListUnenacted
  PROVE  QuestionInv'
<1> DEFINE rows == RowsOfYear(store)
           columns == <<"bill", "status", "title", "year">>
           verdict == UnenactedVerdict(rows)
           answer == Shown(Unenacted(rows), columns)
<1>1. answer \subseteq Accounts(rows, columns)
  BY ShownIsAccount, ShownOfUnenacted
<1>2. ASSUME verdict = "success", NEW b \in BillsIn(Unenacted(rows))
      PROVE  The(Told(Unenacted(rows), b, "status")) # "enacted"
  <2> DEFINE statuses == Values(rows, b, "status")
  <2>1. statuses # {"enacted"} /\ {x \in Unenacted(rows) : x.bill = b} = {x \in rows : x.bill = b} /\ b \in BillsIn(rows)
    BY DEF BillsIn, Unenacted
  <2>2. Told(Unenacted(rows), b, "status") = statuses
    <3>1. Values(Unenacted(rows), b, "status") = statuses
      BY <2>1 DEF Values
    <3>2. statuses # {}
      BY <1>2, <2>1 DEF UnenactedVerdict
    <3> QED
      BY <3>1, <3>2 DEF Told
  <2>3. ~Several(statuses) /\ statuses # {}
    BY <1>2, <2>1 DEF UnenactedVerdict
  <2> HIDE DEF statuses
  <2> QED
    BY <2>1, <2>2, <2>3 DEF Several, The
<1>3. verdict = "success" => \A a \in answer : a[2] # "enacted"
  BY <1>2 DEF Shown
<1>4. verdict = "success" => answer \subseteq BillsMeant(store, FALSE)
  BY <1>1, <1>3 DEF ListUnenacted, BillsMeant
<1>5. Kind \in FamilyKinds["bills"] /\ q.at = "bills" /\ Project(rows, verdict, answer)
  BY DEF ListUnenacted, FamilyKinds
<1> HIDE DEF rows, verdict, answer
<1> QED
  BY <1>4, <1>5, ProjectStep

LEMMA TitleStep ==
  ASSUME QuestionInv, FindTitle
  PROVE  QuestionInv'
<1> DEFINE rows == Columns(Titled(store), {"bill", "title", "year"})
           verdict == TitleVerdict(rows, "success")
           answer == Shown(rows, <<"bill", "title">>)
<1>1. answer \subseteq BillsMeant(store, FALSE)
  BY ShownIsAccount, ShownOfColumns DEF FindTitle, BillsMeant
<1>2. Kind \in FamilyKinds["bills"] /\ q.at = "bills" /\ Project(rows, verdict, answer)
  BY DEF FindTitle, FamilyKinds
<1> HIDE DEF rows, verdict, answer
<1> QED
  BY <1>1, <1>2, ProjectStep

LEMMA StatusStep ==
  ASSUME QuestionInv, ReadStatus
  PROVE  QuestionInv'
<1> DEFINE rows == Columns(Titled(store), {"bill", "title", "year", "status"})
           verdict == TitleVerdict(rows, StatusVerdict(StatusesOf(rows)))
           answer == Shown(rows, <<"bill", "status", "title">>)
<1>1. answer \subseteq BillsMeant(store, FALSE)
  BY ShownIsAccount, ShownOfColumns DEF ReadStatus, BillsMeant
<1>2. Kind \in FamilyKinds["bills"] /\ q.at = "bills" /\ Project(rows, verdict, answer)
  BY DEF ReadStatus, FamilyKinds
<1> HIDE DEF rows, verdict, answer
<1> QED
  BY <1>1, <1>2, ProjectStep

LEMMA SponsorsStep ==
  ASSUME QuestionInv, ReadSponsors
  PROVE  QuestionInv'
<1> DEFINE rows == SponsorRows(store)
           verdict == TitleVerdict(rows, SponsorsVerdict(rows))
           answer == Sponsorships(rows)
<1>1. answer \subseteq BillsMeant(store, FALSE)
  BY DEF ReadSponsors, BillsMeant
<1>2. Kind \in FamilyKinds["bills"] /\ q.at = "bills" /\ Project(rows, verdict, answer)
  BY DEF ReadSponsors, FamilyKinds
<1> HIDE DEF rows, verdict, answer
<1> QED
  BY <1>1, <1>2, ProjectStep

LEMMA LookUpBillStep ==
  ASSUME QuestionInv, LookUpBill
  PROVE  QuestionInv'
<1> DEFINE rows == RowsOfBill(store)
           recorded == StatusVerdict(StatusesOf(rows))
           documented == IF recorded = "success" /\ \E r \in rows : r.memo = "partial"
                         THEN "incomplete_document_evidence" ELSE recorded
           verdict == TitleVerdict(rows, documented)
           answer == Shown(rows, <<"bill", "status", "title", "memo">>)
<1>1. answer \subseteq BillsMeant(store, FALSE)
  BY ShownIsAccount DEF LookUpBill, BillsMeant
<1>2. Kind \in FamilyKinds["bills"] /\ q.at = "bills" /\ Project(rows, verdict, answer)
  BY DEF LookUpBill, FamilyKinds
<1> HIDE DEF rows, verdict, answer
<1> QED
  BY <1>1, <1>2, ProjectStep

LEMMA BillStepInv ==
  ASSUME QuestionInv, BillStep
  PROVE  QuestionInv'
BY SponsorStep, ReadSponsorshipsStep, CoverageStep, CountStep, SponsorshipsStep, PublishedBillsStep, UnenactedStep,
   TitleStep,
   StatusStep, SponsorsStep, LookUpBillStep DEF BillStep

----------------------------------------------------------------------------
\* Members of a party

LEMMA PartyStart ==
  ASSUME QuestionInv, q.family = "parties", q.at \notin {"asked", "planning", "planned", "done"}
  PROVE  Running /\ Kind \notin Candidates \cup ContextKinds
<1>1. Running
  BY DEF Running
<1> QED
  BY <1>1, OtherKinds

LEMMA DuringOfficeStart ==
  ASSUME QuestionInv, Kind = "during_office", q.at \notin {"asked", "planning", "planned", "done"}
  PROVE  q.family = "parties" /\ Running /\ Kind \notin Candidates \cup ContextKinds
<1>1. Running
  BY DEF Running
<1>2. q.family = "parties"
  BY <1>1 DEF QuestionInv, KindInv, FamilyKinds
<1> QED
  BY <1>1, <1>2, OtherKinds

LEMMA PartyTermStep ==
  ASSUME QuestionInv, ResolvePartyTerm
  PROVE  QuestionInv'
<1>1. q.family = "parties" /\ Running /\ q.rows = {} /\ Kind \notin Candidates \cup ContextKinds
  BY Starts, PartyStart DEF ResolvePartyTerm, Collecting
<1>2. "term" \in Referents /\ {"party", "place"} \subseteq AtsOf["parties"] \cap Places(Kind)
  BY DEF Referents, AtsOf, Places
<1> DEFINE next == IF Kind = "term_party" THEN "party" ELSE "place"
<1>3. ResolveTerm("term", House, q.question.number, next) /\ seen' = seen /\ store' = store /\ q.at # "answer"
  BY DEF ResolvePartyTerm, Read
<1>4. next \in AtsOf[q.family] \cap Places(Kind)
  BY <1>1, <1>2
<1> HIDE DEF next
<1> QED
  BY <1>1, <1>2, <1>3, <1>4, LooksUpTerm

LEMMA PartyPlaceStep ==
  ASSUME QuestionInv, ResolvePartyPlace
  PROVE  QuestionInv'
<1>1. /\ q.family = "parties" /\ Running /\ q.rows = {} /\ Kind \notin Candidates \cup ContextKinds
      /\ q.refusals \subseteq Reasons /\ q.at = "place"
  BY Starts, PartyStart DEF ResolvePartyPlace, Collecting
<1>2. "place" \in Referents /\ {"place", "party", "evidence"} \subseteq AtsOf["parties"] \cap Places(Kind)
  BY DEF Referents, AtsOf, Places
<1> DEFINE name == CHOOSE n \in q.question.places \ q.left : TRUE
           listed == {p \in store.places : p.term = q.ids["term"]}
           rows == {<<p.place, p.label>> : p \in listed}
           found == {p.place : p \in {x \in listed : x.label = name}}
           r == Resolved(rows, "place", found, "not_found")
           next == IF Kind = "party" THEN "party" ELSE "evidence"
<1>3. \/ q' = Settled(r, next)
      \/ \E places, named : q' = [r EXCEPT !.ids["place"] = places, !.left = named]
      \/ q' = Ended(r, "validation_failure")
      \/ \E places : q' = [r EXCEPT !.ids["place"] = places, !.left = {}, !.at = next]
  BY DEF ResolvePartyPlace
<1>4. seen' = seen /\ store' = store
  BY DEF ResolvePartyPlace, Read
<1>5. next \in {"party", "evidence"}
  OBVIOUS
<1> HIDE DEF next, rows, found
<1>6. Same(r) /\ r.at = q.at /\ r.refusals \subseteq Reasons
  BY <1>1, <1>2, ResolvedSame DEF Reasons
<1>7. CASE q' = Settled(r, next)
  BY <1>1, <1>2, <1>4, <1>5, <1>7, LooksUp DEF Reasons
<1> HIDE DEF r
<1>8. CASE q' = Ended(r, "validation_failure")
  BY <1>4, <1>6, <1>8, EndsQuestion DEF Same
<1>9. CASE \E places, named : q' = [r EXCEPT !.ids["place"] = places, !.left = named]
  <2>1. PICK places, named : q' = [r EXCEPT !.ids["place"] = places, !.left = named]
    BY <1>9
  <2>2. /\ IsShape(q') /\ q'.family = r.family /\ q'.question = r.question /\ q'.status = r.status /\ q'.rows = r.rows
        /\ q'.at = r.at /\ q'.refusals = r.refusals
    BY <1>6, <2>1 DEF Same, IsShape, Fields, Referents
  <2> QED
    BY <1>1, <1>2, <1>4, <1>6, <2>2, Searches DEF Same, IsShape, Shape
<1>10. CASE \E places : q' = [r EXCEPT !.ids["place"] = places, !.left = {}, !.at = next]
  <2>1. PICK places : q' = [r EXCEPT !.ids["place"] = places, !.left = {}, !.at = next]
    BY <1>10
  <2>2. /\ IsShape(q') /\ q'.family = r.family /\ q'.question = r.question /\ q'.status = r.status /\ q'.rows = r.rows
        /\ q'.at = next /\ q'.refusals = r.refusals
    BY <1>6, <2>1 DEF Same, IsShape, Fields, Referents
  <2> QED
    BY <1>1, <1>2, <1>4, <1>5, <1>6, <2>2, Searches DEF Same, IsShape, Shape
<1> QED
  BY <1>3, <1>7, <1>8, <1>9, <1>10

LEMMA PartyStepOn ==
  ASSUME QuestionInv, q.family = "parties", q.at \notin {"asked", "planning", "planned",
         "done"} \cup Collecting \cup {"answer"},
         IsShape(q'), q'.family = q.family, q'.question = q.question, q'.status = q.status, q'.rows = q.rows,
         q'.refusals = q.refusals, q'.at \in AtsOf["parties"] \cap Places(Kind), seen' = seen, store' = store
  PROVE  QuestionInv'
<1>1. Running /\ q.rows = {} /\ Kind \notin Candidates \cup ContextKinds /\ q.refusals \subseteq Reasons
  BY Starts, PartyStart
<1> QED
  BY <1>1, Searches DEF IsShape, Shape

LEMMA PartyIdentityStep ==
  ASSUME QuestionInv, ResolveParty
  PROVE  QuestionInv'
<1>1. q.family = "parties" /\ IsShape(q)
  BY Starts DEF ResolveParty, Running, AtsOf, FamilyKinds
<1> DEFINE resolved == Affiliation(PartiesOf(store, q.ids["term"]))
<1>2. resolved.status # "success"
  BY DEF Affiliation
<1>3. CASE q' = Ended(q, resolved.status)
  <2> HIDE DEF resolved
  <2> QED
    BY <1>1, <1>2, <1>3, EndsQuestion DEF ResolveParty, Read
<1>4. CASE \E identity, left, next :
             next \in {"listing", "evidence"} /\ q' = [q EXCEPT !.ids["identity"] = identity, !.left = left, !.at = next]
  <2>1. PICK identity, left, next :
             next \in {"listing", "evidence"} /\ q' = [q EXCEPT !.ids["identity"] = identity, !.left = left, !.at = next]
    BY <1>4
  <2>2. /\ IsShape(q') /\ q'.family = q.family /\ q'.question = q.question /\ q'.status = q.status /\ q'.rows = q.rows
        /\ q'.at = next /\ q'.refusals = q.refusals
    BY <1>1, <2>1 DEF IsShape, Fields, Referents
  <2>3. next \in AtsOf["parties"] \cap Places(Kind)
    BY <2>1 DEF AtsOf, Places
  <2> QED
    BY <1>1, <2>2, <2>3, PartyStepOn DEF ResolveParty, Read, Collecting
<1> QED
  BY <1>3, <1>4 DEF ResolveParty

LEMMA ListingStep ==
  ASSUME QuestionInv, CheckListing, q.family = "parties"
  PROVE  QuestionInv'
<1>1. IsShape(q)
  BY Starts DEF CheckListing, Running
<1>3. CASE q' = Ended(q, "source_data_unavailable")
  BY <1>1, <1>3, EndsQuestion DEF CheckListing, Read
<1>4. CASE \E left : q' = [q EXCEPT !.left = left, !.at = "evidence"]
  <2>1. PICK left : q' = [q EXCEPT !.left = left, !.at = "evidence"]
    BY <1>4
  <2>2. /\ IsShape(q') /\ q'.family = q.family /\ q'.question = q.question /\ q'.status = q.status /\ q'.rows = q.rows
        /\ q'.at = "evidence" /\ q'.refusals = q.refusals
    BY <1>1, <2>1 DEF IsShape, Fields, Referents
  <2>3. "evidence" \in AtsOf["parties"] \cap Places(Kind)
    BY DEF AtsOf, Places
  <2> QED
    BY <2>2, <2>3, PartyStepOn DEF CheckListing, Read, Collecting
<1> QED
  BY <1>3, <1>4 DEF CheckListing

LEMMA OfficeAnchorStep ==
  ASSUME QuestionInv, ResolveOfficeAnchor
  PROVE  QuestionInv'
<1>1. q.family = "parties" /\ Running /\ q.rows = {} /\ Kind \notin Candidates \cup ContextKinds
  BY Starts, DuringOfficeStart DEF ResolveOfficeAnchor, Collecting
<1>2. "member" \in Referents /\ "office" \in AtsOf["parties"] \cap Places(Kind)
  BY DEF Referents, AtsOf, Places
<1> QED
  BY <1>1, <1>2, LooksUpMember DEF ResolveOfficeAnchor, Read

LEMMA AnchorOfficeStep ==
  ASSUME QuestionInv, ResolveAnchorOffice
  PROVE  QuestionInv'
<1>1. q.family = "parties" /\ Running /\ q.rows = {} /\ Kind \notin Candidates \cup ContextKinds
  BY Starts, DuringOfficeStart DEF ResolveAnchorOffice, Collecting
<1>2. "office" \in Referents /\ "holdings" \in AtsOf["parties"] \cap Places(Kind)
  BY DEF Referents, AtsOf, Places, ResolveAnchorOffice
<1> QED
  BY <1>1, <1>2, LooksUp DEF ResolveAnchorOffice, Read, Reasons

LEMMA HoldingsStep ==
  ASSUME QuestionInv, ReadHoldings
  PROVE  QuestionInv'
<1>1. q.family = "parties" /\ IsShape(q)
  BY Starts, DuringOfficeStart DEF ReadHoldings
<1>2. CASE End("source_data_unavailable")
  BY <1>2, Fails DEF ReadHoldings, Read
<1>3. CASE q' = [q EXCEPT !.at = "evidence"]
  <2>1. /\ IsShape(q') /\ q'.family = q.family /\ q'.question = q.question /\ q'.status = q.status /\ q'.rows = q.rows
        /\ q'.at = "evidence" /\ q'.refusals = q.refusals
    BY <1>1, <1>3 DEF IsShape, Fields
  <2>2. "evidence" \in AtsOf["parties"] \cap Places(Kind)
    BY DEF AtsOf, Places
  <2> QED
    BY <1>1, <2>1, <2>2, PartyStepOn DEF ReadHoldings, Read, Collecting
<1> QED
  BY <1>2, <1>3 DEF ReadHoldings

\* The evidence of an office stays that of one store.
LEMMA HoldsEvidence ==
  ASSUME QuestionInv, Running, Kind = "during_office", IsShape(q'), q'.family = q.family, q'.question = q.question,
         q'.status = q.status, \A r \in {"term", "place", "member", "office"} : q'.ids[r] = q.ids[r],
         NEW STATE in, in \in seen, q'.rows = Evidence(in), q'.at \in {"terms", "evaluate"},
         q'.refusals \subseteq Reasons,
         seen' = seen, store' = store
  PROVE  QuestionInv'
<1>1. q.family = "parties" /\ Kind \notin Candidates \cup ContextKinds /\ Kind' = Kind
  BY DuringOfficeStart DEF Running, Kind
<1>2. Running'
  BY DEF Running
<1>3. \A of \in seen : Evidence(of)' = Evidence(of)
  BY EvidenceFrame
<1>4. AtInv'
  BY <1>1 DEF AtInv, AtsOf
<1>5. CollectInv'
  BY <1>1, <1>3 DEF CollectInv, Witnessed, Rows, Collecting
<1>6. OneStoreInv'
  BY <1>1, <1>3 DEF OneStoreInv
<1>7. CandidateInv'
  BY <1>1 DEF CandidateInv
<1> QED
  BY <1>2, <1>4, <1>5, <1>6, <1>7, GoesOn DEF IsShape, Shape

LEMMA EvidenceStep ==
  ASSUME QuestionInv, ReadEvidence
  PROVE  QuestionInv'
<1>1. Running /\ IsShape(q) /\ store \in seen /\ q.refusals \subseteq Reasons
  BY Starts, PartyStart DEF ReadEvidence
<1>2. {"evaluate", "terms"} \subseteq AtsOf["parties"] /\ Rows(store) = Evidence(store)
  BY DEF AtsOf, Rows, ReadEvidence
<1>3. CASE Kind = "term_party"
  BY <1>1, <1>2, <1>3, ReadsPage DEF ReadEvidence, Read
<1>4. CASE Kind # "term_party"
  <2> DEFINE next == IF Kind = "during_office" /\ Evidence(store) # {} THEN "terms" ELSE "evaluate"
  <2>1. CASE q' = Ended(q, "source_data_unavailable")
    BY <1>1, <2>1, EndsQuestion DEF ReadEvidence, Read
  <2>2. CASE q' = [q EXCEPT !.rows = Evidence(store), !.pages = 1, !.at = next]
    <3> HIDE DEF next
    <3>1. /\ IsShape(q') /\ q'.family = q.family /\ q'.question = q.question /\ q'.status = q.status
          /\ q'.left = q.left
          /\ q'.rows = Evidence(store) /\ q'.at = next /\ q'.refusals = q.refusals /\ q'.ids = q.ids
      BY <1>1, <2>2 DEF IsShape, Fields
    <3> QED
      BY <1>1, <1>2, <3>1, HoldsEvidence, Collects DEF ReadEvidence, Read, next, IsShape, Shape, SameSubject,
         Collecting
  <2> QED
    BY <1>4, <2>1, <2>2 DEF ReadEvidence, ReadAll
<1> QED
  BY <1>3, <1>4

LEMMA PartyOfTermStep ==
  ASSUME QuestionInv, ResolvePartyOfTerm
  PROVE  QuestionInv'
<1>1. Running
  BY DEF ResolvePartyOfTerm, Running
<1>2. Kind = "during_office" /\ IsShape(q) /\ q.refusals \subseteq Reasons
  BY <1>1, Starts DEF QuestionInv, AtInv, ResolvePartyOfTerm
<1>3. PICK in \in seen : q.rows = Evidence(in)
  BY <1>1, <1>2 DEF QuestionInv, OneStoreInv, ResolvePartyOfTerm
<1>4. CASE End("source_data_unavailable") \/ q' = Ended(q, "ambiguous") \/ q' = Ended(q, "source_data_unavailable")
  BY <1>2, <1>4, EndsQuestion DEF ResolvePartyOfTerm, Read, End
<1>5. CASE q' = [q EXCEPT !.at = "evaluate"]
  <2>1. /\ IsShape(q') /\ q'.family = q.family /\ q'.question = q.question /\ q'.status = q.status
        /\ q'.rows = q.rows /\ q'.at = "evaluate" /\ q'.refusals = q.refusals /\ q'.ids = q.ids
    BY <1>2, <1>5 DEF IsShape, Fields
  <2> QED
    BY <1>1, <1>2, <1>3, <2>1, HoldsEvidence DEF ResolvePartyOfTerm, Read
<1>6. CASE \E left, identity : q' = [q EXCEPT !.left = left, !.ids["identity"] = identity]
  <2>1. PICK left, identity : q' = [q EXCEPT !.left = left, !.ids["identity"] = identity]
    BY <1>6
  <2>2. /\ IsShape(q') /\ q'.family = q.family /\ q'.question = q.question /\ q'.status = q.status
        /\ q'.rows = q.rows /\ q'.at = q.at /\ q'.refusals = q.refusals
        /\ \A r \in {"term", "place", "member", "office"} : q'.ids[r] = q.ids[r]
    BY <1>2, <2>1 DEF IsShape, Fields, Referents
  <2> QED
    BY <1>1, <1>2, <1>3, <2>2, HoldsEvidence DEF ResolvePartyOfTerm, Read
<1> QED
  BY <1>4, <1>5, <1>6 DEF ResolvePartyOfTerm

LEMMA EvidenceIs ==
  ASSUME NEW in, NEW y \in Evidence(in)
  PROVE  \E m \in in.members, e \in in.episodes, p \in in.parties : \E a \in Anchors(in, m) :
           /\ InScope(in, m) /\ e.member = m.member /\ e.of = m.membership
           /\ p.party = e.party /\ p.term = m.term
           /\ y.member = m.member /\ y.membership = m.membership /\ y.during = m.period
           /\ y.episode = e.episode /\ y.in = e.period /\ y.party = p.party /\ y.identity = p.identity /\ y.anchor = a
<1>1. PICK x \in EvidenceLinks(in) : \E a \in Anchors(in, x[1][1]) : y = EvidenceRow(x[1][1], x[1][2], x[2], a)
  BY DEF Evidence
<1>2. PICK a \in Anchors(in, x[1][1]) : y = EvidenceRow(x[1][1], x[1][2], x[2], a)
  BY <1>1
<1>3. /\ x[1] \in EvidencePaths(in) /\ x[2] \in in.parties
      /\ x[1][2].party = x[2].party /\ x[1][1].term = x[2].term
  BY DEF EvidenceLinks
<1>4. /\ x[1][1] \in in.members /\ InScope(in, x[1][1]) /\ x[1][2] \in in.episodes
      /\ x[1][2].member = x[1][1].member /\ x[1][2].of = x[1][1].membership
  BY <1>3 DEF EvidencePaths, EpisodesOf
<1>5. /\ y.member = x[1][1].member /\ y.membership = x[1][1].membership /\ y.during = x[1][1].period
      /\ y.episode = x[1][2].episode /\ y.in = x[1][2].period
      /\ y.party = x[2].party /\ y.identity = x[2].identity /\ y.anchor = a
  BY <1>2 DEF EvidenceRow
<1> QED
  BY <1>2, <1>3, <1>4, <1>5

LEMMA AnchorIs ==
  ASSUME NEW in, NEW m, NEW a \in Anchors(in, m), Kind = "during_office"
  PROVE  \E x \in in.members, h \in AnchorHoldings(in) :
           /\ m.member # q.ids["member"] /\ x.member = q.ids["member"] /\ x.place = m.place /\ x.term = m.term
           /\ a.ids = <<x.membership, h.holding>> /\ a.periods = <<x.period, h.period>>
BY DEF Anchors

\* PartiesMeant, whose local definitions these are
Together(periods) ==
  IF \A p \in periods : Certain(p)
  THEN \E d \in {p.from : p \in {The(p) : p \in periods}} \cup {AsOf} :
         /\ \A p \in {The(p) : p \in periods} : Covers(p, d)
         /\ q.question.number = Nothing /\ Kind # "during_office" => d = AsOf
  ELSE TRUE

During(in, m) == {x.period : x \in {y \in in.members : y.membership = m.membership}}
MemberOfParty(in, e) == {x.period : x \in {y \in in.episodes : y.episode = e.episode}}
Holding(in, h) == {x.period : x \in {y \in in.holdings : y.holding = h.holding}}
HeldMeanwhile(in, m, e) ==
  \E a \in in.members, h \in AnchorHoldings(in) :
    /\ a.member = q.ids["member"] /\ m.member # a.member /\ a.place = m.place /\ a.term = m.term
    /\ Together({During(in, m), MemberOfParty(in, e), During(in, a), Holding(in, h)})
Meets(in, m, e) == IF Kind = "during_office" THEN HeldMeanwhile(in, m, e) ELSE Together({During(in, m), MemberOfParty(in, e)})

LEMMA PartiesAreMeant ==
  ASSUME NEW in, NEW m \in in.members, InScope(in, m), NEW e \in in.episodes, e.member = m.member,
         e.of = m.membership,
         NEW p \in in.parties, p.party = e.party, p.term = m.term, p.identity # Nothing, Meets(in, m, e)
  PROVE  /\ Kind = "parties" => p.identity \in PartiesMeant(in, FALSE)
         /\ Kind # "parties" /\ p.identity = q.ids["identity"] => m.member \in PartiesMeant(in, FALSE)
<1> DEFINE identities(e1, m1) == {x.identity : x \in {y \in in.parties : y.party = e1.party /\ y.term = m1.term}}
           known(e1, m1) == identities(e1, m1) \ {Nothing}
           said(e1, m1) == IF known(e1, m1) # {} THEN known(e1, m1) ELSE identities(e1, m1)
           theirs(e1, m1) == \/ known(e1, m1) = {} /\ identities(e1, m1) # {} /\ Kind # "term_party"
                             \/ q.ids["identity"] \in known(e1, m1)
           scoped == {x \in in.members : InScope(in, x)}
           pairs == UNION {{<<x, y>> : y \in {z \in in.episodes : z.of = x.membership /\ z.member = x.member}} : x \in scoped}
<1>1. p.identity \in known(e, m)
  OBVIOUS
<1>2. p.identity \in said(e, m) /\ (p.identity = q.ids["identity"] => theirs(e, m))
  BY <1>1
<1>3. <<m, e>> \in pairs
  <2>1. <<m, e>> \in {<<m, y>> : y \in {z \in in.episodes : z.of = m.membership /\ z.member = m.member}}
    OBVIOUS
  <2>2. m \in scoped
    OBVIOUS
  <2> QED
    BY <2>1, <2>2
<1>4. PartiesMeant(in, FALSE) =
        IF Kind = "parties"
        THEN UNION {said(x[2], x[1]) : x \in {y \in pairs : Meets(in, y[1], y[2])}}
        ELSE {x[1].member : x \in {y \in pairs : theirs(y[2], y[1]) /\ Meets(in, y[1], y[2])}}
  BY DEF PartiesMeant, Meets, HeldMeanwhile, Together, During, MemberOfParty, Holding
<1> HIDE DEF said, theirs, pairs
<1> HIDE DEF identities, known, scoped
<1>5. PICK x \in pairs : x[1] = m /\ x[2] = e
  BY <1>3
<1>6. Meets(in, x[1], x[2]) /\ p.identity \in said(x[2], x[1]) /\ (p.identity = q.ids["identity"] => theirs(x[2], x[1]))
  BY <1>2, <1>5
<1>7. CASE Kind = "parties"
  BY <1>4, <1>6, <1>7
<1>8. CASE Kind # "parties"
  BY <1>4, <1>5, <1>6, <1>8
<1> QED
  BY <1>7, <1>8

\* The latest start is covered by all periods that meet.
LEMMA LatestStart ==
  ASSUME NEW i, NEW j, NEW k, NEW l, IsDated(i), IsDated(j), IsDated(k), IsDated(l), Meeting({i, j, k, l})
  PROVE  \E p \in {i, j, k, l} : \A r \in {i, j, k, l} : Covers(r, p.from)
<1>1. \A p, r \in {i, j, k, l} : p.from <= r.to
  BY DEF Meeting
<1>2. \E p \in {i, j, k, l} : \A r \in {i, j, k, l} : r.from <= p.from
  BY DEF IsDated
<1> QED
  BY <1>1, <1>2 DEF Covers

\* Periods that meet do so in every reading of uncertain ones.
LEMMA TogetherOf ==
  ASSUME NEW A, NEW B, NEW C, NEW D, NEW i \in A, NEW j \in B, NEW k \in C, NEW l \in D,
         IsDated(i), IsDated(j), IsDated(k), IsDated(l), Meeting({i, j, k, l}),
         q.question.number = Nothing /\ Kind # "during_office" => \A r \in {i, j, k, l} : Covers(r, AsOf)
  PROVE  Together({A, B, C, D})
<1> SUFFICES ASSUME \A p \in {A, B, C, D} : Certain(p)
             PROVE  \E d \in {p.from : p \in {The(p) : p \in {A, B, C, D}}} \cup {AsOf} :
                      /\ \A p \in {The(p) : p \in {A, B, C, D}} : Covers(p, d)
                      /\ q.question.number = Nothing /\ Kind # "during_office" => d = AsOf
  BY DEF Together
<1>1. The(A) = i /\ The(B) = j /\ The(C) = k /\ The(D) = l
  BY CertainIs
<1>2. {The(p) : p \in {A, B, C, D}} = {i, j, k, l}
  BY <1>1
<1>3. CASE q.question.number = Nothing /\ Kind # "during_office"
  BY <1>2, <1>3
<1>4. CASE ~(q.question.number = Nothing /\ Kind # "during_office")
  BY <1>2, <1>4, LatestStart
<1> QED
  BY <1>3, <1>4

\* Rows of one path, put together: what they say was in a store of the time.
LEMMA OverlapIsMeant ==
  ASSUME NEW in, IsStore(in), NEW y \in Evidence(in), y.identity # Nothing,
         q.question.number = Nothing /\ Kind # "during_office" => Covers(y.during, AsOf) /\ Covers(y.in, AsOf),
         Meeting({y.during, y.in}),
         NEW r, Kind = "during_office" => r \in Evidence(in) /\ r.anchor.ids = y.anchor.ids
                                          /\ Meeting({y.during, y.in} \cup ToSet(r.anchor.periods))
  PROVE  /\ Kind = "parties" => y.identity \in PartiesMeant(in, FALSE)
         /\ Kind # "parties" /\ y.identity = q.ids["identity"] => y.member \in PartiesMeant(in, FALSE)
<1>1. PICK m \in in.members, e \in in.episodes, p \in in.parties : \E a \in Anchors(in, m) :
           /\ InScope(in, m) /\ e.member = m.member /\ e.of = m.membership
           /\ p.party = e.party /\ p.term = m.term
           /\ y.member = m.member /\ y.membership = m.membership /\ y.during = m.period
           /\ y.episode = e.episode /\ y.in = e.period /\ y.party = p.party /\ y.identity = p.identity /\ y.anchor = a
  BY EvidenceIs
<1>2. m.period \in During(in, m) /\ e.period \in MemberOfParty(in, e)
  BY DEF During, MemberOfParty
<1>3. IsDated(m.period) /\ IsDated(e.period)
  BY DEF IsStore, DatedGraphs, DatedRows
<1>4. Meets(in, m, e)
  <2>1. CASE Kind # "during_office"
    <3>1. Together({During(in, m), MemberOfParty(in, e), During(in, m), MemberOfParty(in, e)})
      <4>1. {m.period, e.period, m.period, e.period} = {y.during, y.in}
        BY <1>1
      <4>2. /\ Meeting({m.period, e.period, m.period, e.period})
            /\ q.question.number = Nothing => \A p1 \in {m.period, e.period, m.period, e.period} : Covers(p1, AsOf)
        BY <2>1, <4>1
      <4> QED
        BY <1>2, <1>3, <2>1, <4>2, TogetherOf
    <3>2. {During(in, m), MemberOfParty(in, e), During(in, m), MemberOfParty(in, e)} = {During(in, m), MemberOfParty(in, e)}
      OBVIOUS
    <3> QED
      BY <2>1, <3>1, <3>2 DEF Meets
  <2>2. CASE Kind = "during_office"
    <3>1. PICK x \in in.members, h \in AnchorHoldings(in) :
             /\ m.member # q.ids["member"] /\ x.member = q.ids["member"] /\ x.place = m.place /\ x.term = m.term
             /\ y.anchor.ids = <<x.membership, h.holding>>
      BY <1>1, <2>2, AnchorIs
    <3>2. PICK x2 \in in.members, h2 \in AnchorHoldings(in) :
             r.anchor.ids = <<x2.membership, h2.holding>> /\ r.anchor.periods = <<x2.period, h2.period>>
      BY <2>2, EvidenceIs, AnchorIs
    <3>3. x2.membership = x.membership /\ h2.holding = h.holding
      BY <2>2, <3>1, <3>2
    <3>4. h2 \in in.holdings
      BY DEF AnchorHoldings
    <3>5. x2.period \in During(in, x) /\ h2.period \in Holding(in, h)
      BY <3>3, <3>4 DEF During, Holding
    <3>6. IsDated(x2.period) /\ IsDated(h2.period)
      BY <3>4 DEF IsStore, DatedGraphs, DatedRows
    <3>7. ToSet(r.anchor.periods) = {x2.period, h2.period}
      BY <3>2 DEF ToSet
    <3>8. Meeting({m.period, e.period, x2.period, h2.period})
      <4>1. {y.during, y.in} \cup {x2.period, h2.period} = {m.period, e.period, x2.period, h2.period}
        BY <1>1
      <4> QED
        BY <2>2, <3>7, <4>1
    <3>9. Together({During(in, m), MemberOfParty(in, e), During(in, x), Holding(in, h)})
      BY <1>2, <1>3, <2>2, <3>5, <3>6, <3>8, TogetherOf
    <3>10. HeldMeanwhile(in, m, e)
      BY <3>1, <3>9 DEF HeldMeanwhile
    <3> QED
      BY <2>2, <3>10 DEF Meets
  <2> QED
    BY <2>1, <2>2
<1> QED
  BY <1>1, <1>4, PartiesAreMeant

LEMMA OverlapStep ==
  ASSUME QuestionInv, EvaluateOverlap
  PROVE  QuestionInv'
<1> DEFINE key(r) == <<r.member, r.membership, r.episode, r.party, r.anchor.ids,
                       IF Kind = "during_office" THEN <<r.place, r.term>> ELSE <<>>>>
           of(r) == {x \in q.rows : key(x) = key(r)}
           identities(r) == {x.identity : x \in of(r)} \ {Nothing}
           relevant == {r \in q.rows : Kind = "parties" \/ identities(r) = {} \/ q.ids["identity"] \in identities(r)}
           during(r) == {x.during : x \in {y \in q.rows : y.membership = r.membership}}
           within(r) == {x.in : x \in {y \in q.rows : y.episode = r.episode}}
           today(r) == q.question.number = Nothing /\ Kind # "during_office" =>
                         Covers(r.during, AsOf) /\ Covers(r.in, AsOf)
           meeting == {r \in relevant : today(r) /\ Meeting({r.during, r.in} \cup ToSet(r.anchor.periods))}
           answer == IF Kind = "parties" THEN UNION {identities(r) : r \in meeting} ELSE {r.member : r \in meeting}
<1>1. q.family = "parties" /\ Running /\ q.at = "evaluate" /\ Witnessed
  BY PartyStart, Starts DEF EvaluateOverlap, Collecting
<1>2. \/ End("source_data_unavailable") \/ End("missing_identity_link")
      \/ /\ Answer(answer) /\ \A r \in relevant : Certain(during(r)) /\ Certain(within(r))
         /\ \A r \in meeting : identities(r) # {}
  BY DEF EvaluateOverlap
<1>3. CASE End("source_data_unavailable") \/ End("missing_identity_link")
  BY <1>3, Fails DEF EvaluateOverlap, Read
<1>4. CASE /\ Answer(answer) /\ \A r \in relevant : Certain(during(r)) /\ Certain(within(r))
           /\ \A r \in meeting : identities(r) # {}
  <2>1. ASSUME NEW r \in meeting, NEW i, i \in identities(r)
        PROVE  \E in \in seen :
                 /\ Kind = "parties" => i \in PartiesMeant(in, FALSE)
                 /\ Kind # "parties" /\ i = q.ids["identity"] => r.member \in PartiesMeant(in, FALSE)
    <3>1. PICK y \in q.rows : key(y) = key(r) /\ y.identity = i
      BY <2>1
    <3>2. /\ y.member = r.member /\ y.membership = r.membership /\ y.episode = r.episode
          /\ y.anchor.ids = r.anchor.ids /\ i # Nothing /\ r \in q.rows /\ r \in relevant
      BY <2>1, <3>1
    <3>3. y.during = r.during /\ y.in = r.in
      <4>1. y.during \in during(r) /\ r.during \in during(r) /\ y.in \in within(r) /\ r.in \in within(r)
        BY <3>2
      <4>2. Certain(during(r)) /\ Certain(within(r))
        BY <1>4, <3>2
      <4> HIDE DEF during, within
      <4> QED
        BY <4>1, <4>2 DEF Certain
    <3>4. /\ today(y) /\ Meeting({y.during, y.in} \cup ToSet(r.anchor.periods))
      BY <3>3
    <3>5. Meeting({y.during, y.in})
      BY <3>4 DEF Meeting
    <3>6. \A in \in seen : IsStore(in)
      BY DEF QuestionInv, StatusInv
    <3>7. PICK in \in seen : y \in Evidence(in) /\ (Kind = "during_office" => r \in Evidence(in))
      BY <1>1, <3>2 DEF QuestionInv, OneStoreInv, Witnessed, Rows
    <3> HIDE DEF key, identities, relevant, during, within, meeting
    <3> QED
      BY <3>1, <3>2, <3>4, <3>5, <3>6, <3>7, OverlapIsMeant
  <2>2. \A r \in meeting : Kind = "parties" \/ q.ids["identity"] \in identities(r)
    BY <1>4
  <2> HIDE DEF identities, relevant, during, within, meeting
  <2>3. ASSUME NEW x \in answer PROVE \E in \in seen : x \in PartiesMeant(in, FALSE)
    <3>1. CASE Kind = "parties"
      <4>1. PICK r \in meeting : x \in identities(r)
        BY <3>1
      <4> QED
        BY <2>1, <3>1, <4>1
    <3>2. CASE Kind # "parties"
      <4>1. PICK r \in meeting : x = r.member
        BY <3>2
      <4> QED
        BY <2>1, <2>2, <3>2, <4>1
    <3> QED
      BY <3>1, <3>2
  <2>4. \A x \in answer : \E in \in seen : x \in Meant(in, FALSE)
    BY <1>1, <2>3 DEF Meant
  <2> HIDE DEF answer
  <2> QED
    BY <1>1, <1>4, <2>4, AnswersSet DEF EvaluateOverlap, Read
<1> QED
  BY <1>2, <1>3, <1>4

LEMMA PartyStepInv ==
  ASSUME QuestionInv, PartyStep
  PROVE  QuestionInv'
<1>1. CheckListing => q.family = "parties"
  BY Starts DEF CheckListing, Running, AtsOf, FamilyKinds
<1> QED
  BY <1>1, PartyTermStep, PartyPlaceStep, PartyIdentityStep, ListingStep, OfficeAnchorStep, AnchorOfficeStep,
     HoldingsStep,
     EvidenceStep, PartyOfTermStep, OverlapStep DEF PartyStep

----------------------------------------------------------------------------
\* Service

LEMMA ServingFrame ==
  ASSUME SameSubject, NEW CONSTANT in
  PROVE  Serving(in)' = Serving(in) /\ ServiceHouse' = ServiceHouse /\ Kind' = Kind
BY DEF Serving, Recorded, ServiceHouse, Kind, SameSubject

LEMMA PanelMeantFrame ==
  ASSUME SameSubject, seen' = seen, NEW CONSTANT in
  PROVE  PanelMeant(in, FALSE)' = PanelMeant(in, FALSE)
BY ServingFrame DEF PanelMeant, LabelsOf, SameSubject

LEMMA WhoMeantFrame ==
  ASSUME SameSubject, seen' = seen, NEW CONSTANT in
  PROVE  WhoMeant(in, FALSE)' = WhoMeant(in, FALSE)
BY ServingFrame DEF WhoMeant, Recorded, SameSubject

LEMMA ServiceMeantFrame ==
  ASSUME SameSubject, seen' = seen, NEW CONSTANT in
  PROVE  ServiceMeant(in, FALSE)' = ServiceMeant(in, FALSE)
<1>1. Kind' = Kind /\ Serving(in)' = Serving(in)
  BY ServingFrame
<1>2. EntryMeant(in, FALSE)' = EntryMeant(in, FALSE) /\ DurationMeant(in, FALSE)' = DurationMeant(in, FALSE)
  BY <1>1 DEF EntryMeant, DurationMeant, Selected, TermRows, SameSubject
<1>3. LinksOf(in)' = LinksOf(in) /\ CommitteesOf(in)' = CommitteesOf(in)
  BY <1>1 DEF LinksOf, CommitteesOf, SatIn, SameSubject
<1>4. CollectionRows(in)' = CollectionRows(in)
  BY DEF CollectionRows, SameSubject
<1>5. CurrentCommittees(in)' = CurrentCommittees(in)
  BY DEF CurrentCommittees, NamedCommittees, CommitteeRows, SameSubject
<1> QED
  BY <1>1, <1>2, <1>3, <1>4, <1>5, PanelMeantFrame, WhoMeantFrame DEF ServiceMeant, SameSubject, Affiliations, Chosen

\* The reading of some store of the time may be answered about service, too.
LEMMA AnswersService ==
  ASSUME QuestionInv, Running, q.family = "service", NEW STATE answer,
         \A x \in answer : \E in \in seen : x \in ServiceMeant(in, FALSE),
         Answer(answer) \/ InOnePage(answer), seen' = seen
  PROVE  QuestionInv'
<1>1. IsShape(q') /\ SameSubject /\ q'.at = "done" /\ q'.answer = answer
  BY Answered1
<1>2. \A in \in seen : ServiceMeant(in, FALSE)' = ServiceMeant(in, FALSE)
  BY <1>1, ServiceMeantFrame
<1>3. q'.family = "service"
  BY <1>1 DEF SameSubject
<1>4. AnswerIsWitnessed'
  BY <1>1, <1>2, <1>3 DEF AnswerIsWitnessed, Meant
<1> QED
  BY <1>1, <1>4, Answers DEF IsShape, Shape, SameSubject

LEMMA ServiceStart ==
  ASSUME QuestionInv, Kind \in FamilyKinds["service"], q.at \notin {"asked", "planning", "planned", "done"}
  PROVE  q.family = "service" /\ Running
<1>1. Running
  BY DEF Running
<1> QED
  BY <1>1 DEF QuestionInv, KindInv, FamilyKinds

LEMMA ServiceAt ==
  ASSUME QuestionInv, q.at \in {"catalogue", "context", "labels", "links", "qualify", "offer", "offerLabels",
         "choosing"}
  PROVE  /\ q.family = "service" /\ Running /\ Kind \in FamilyKinds["service"]
         /\ q.at = "context" => Kind \in ContextKinds
         /\ q.at = "catalogue" => Kind = "committee"
         /\ q.at \in {"qualify", "offer", "offerLabels", "choosing"} => Kind \in Candidates
<1>1. Running
  BY DEF Running
<1> QED
  BY <1>1 DEF QuestionInv, KindInv, AtInv, FamilyKinds, AtsOf

\* A look-up of one Member goes on.
LEMMA ServesOn ==
  ASSUME QuestionInv, Running, q.family = "service", Kind \notin Candidates, IsShape(q'), seen' = seen,
         store' = store,
         q'.family = q.family, q'.question = q.question, q'.status = q.status, q'.refusals \subseteq Reasons,
         q'.at \in {"member", "context", "links"}, Kind \in ContextKinds => q'.left = {},
         q'.at = "context" => Kind \in ContextKinds
  PROVE  QuestionInv'
<1>1. Kind' = Kind /\ Running'
  BY DEF Kind, Running
<1>2. AtInv'
  BY <1>1 DEF AtInv, AtsOf
<1>3. CollectInv' /\ CandidateInv' /\ OneStoreInv'
  BY <1>1 DEF CollectInv, CandidateInv, OneStoreInv, ContextKinds
<1> QED
  BY <1>1, <1>2, <1>3, GoesOn DEF IsShape, Shape

LEMMA ServingStep ==
  ASSUME QuestionInv, ResolveServing
  PROVE  QuestionInv'
<1>1. Running /\ q.refusals \subseteq Reasons
  BY Starts DEF ResolveServing, Running
<1>2. CASE End("validation_failure")
  BY <1>2, Fails DEF ResolveServing, Read
<1> DEFINE next == IF Kind \in ContextKinds THEN "context" ELSE "links"
<1>3. CASE ResolveMember("member", q.question.name, next)
  <2> DEFINE rows == Labelled(store, q.question.name)
             found == {r[1] : r \in rows}
             r == Resolved(rows, "member", found, "not_found")
  <2>1. Same(r) /\ r.refusals \subseteq Reasons
    <3> HIDE DEF rows, found
    <3> QED
      BY <1>1, ResolvedSame DEF Reasons, Referents
  <2>2. q' = Settled(r, next)
    BY <1>3 DEF ResolveMember
  <2> HIDE DEF r
  <2>3. \/ /\ q'.refusals = {} /\ q'.at = next /\ Same(q')
        \/ \E s \in Reasons : q' = Ended(r, s)
    <3> HIDE DEF next
    <3> QED
      BY <2>1, <2>2, SettledSame
  <2>4. CASE \E s \in Reasons : q' = Ended(r, s)
    BY <2>1, <2>4, EndsQuestion DEF Same, Reasons, ResolveServing, Read
  <2>5. CASE q'.refusals = {} /\ q'.at = next /\ Same(q')
    <3>1. Kind \in ContextKinds => q.left = {}
      BY <1>1 DEF QuestionInv, OneStoreInv, ResolveServing
    <3> QED
      BY <1>1, <2>5, <3>1, ServesOn DEF Same, ResolveServing, Read
  <2> QED
    BY <2>3, <2>4, <2>5
<1> QED
  BY <1>2, <1>3 DEF ResolveServing

LEMMA CommitteeStep ==
  ASSUME QuestionInv, ResolveCommittee
  PROVE  QuestionInv'
<1>1. /\ q.family = "service" /\ Running /\ Kind = "committee" /\ Kind \notin Candidates \cup ContextKinds
      /\ q.refusals \subseteq Reasons /\ IsShape(q)
  BY ServiceAt, Starts DEF ResolveCommittee, Candidates, ContextKinds
<1> DEFINE none == IF \E r \in CommitteeRows(store) : r.label = Nothing THEN "source_data_unavailable" ELSE "not_found"
           found == [q EXCEPT !.ids["committee"] = The(CurrentCommittees(store)), !.at = "member"]
<1>2. \/ q' = Ended(q, "source_data_unavailable") \/ q' = Ended(q, "ambiguous") \/ q' = Ended(q, none)
      \/ q' = found
  BY DEF ResolveCommittee
<1>3. CASE q' = Ended(q, "source_data_unavailable") \/ q' = Ended(q, "ambiguous") \/ q' = Ended(q, none)
  <2>1. none # "success"
    OBVIOUS
  <2> HIDE DEF none
  <2> QED
    BY <1>1, <1>3, <2>1, EndsQuestion DEF ResolveCommittee, Read
<1>4. CASE q' = found
  <2>1. PICK c : q' = [q EXCEPT !.ids["committee"] = c, !.at = "member"]
    BY <1>4
  <2>2. /\ IsShape(q') /\ q'.family = q.family /\ q'.question = q.question /\ q'.status = q.status /\ q'.at = "member"
        /\ q'.refusals = q.refusals
    BY <1>1, <2>1 DEF IsShape, Fields, Referents
  <2> QED
    BY <1>1, <2>2, ServesOn DEF ResolveCommittee, Read
<1> QED
  BY <1>2, <1>3, <1>4

\* What was read of the service of one Member is that of one store.
LEMMA HoldsService ==
  ASSUME QuestionInv, Running, Kind \in ContextKinds, IsShape(q'), SameSubject, q'.status = q.status,
         q'.refusals \subseteq Reasons,
         seen' = seen, store' = store, q'.at \in {"labels", "term", "evaluate"},
         q'.at = "labels" => q'.left = {},
         \E in \in seen : q'.rows = ServiceRows(in),
         q'.at = "evaluate" /\ Kind = "panel" => \E in \in seen : q'.left = LabelsOf(in, Represented(q'.rows))
  PROVE  QuestionInv'
<1>1. q.family = "service" /\ Kind' = Kind /\ Kind \notin Candidates \cup {"during_office"}
  BY DEF QuestionInv, KindInv, FamilyKinds, ContextKinds, Candidates, Kind, SameSubject
<1>2. Running'
  BY DEF Running
<1>3. \A in \in seen : ServiceRows(in)' = ServiceRows(in)
  BY ServiceFrame
<1>4. \A in \in seen : LabelsOf(in, Represented(q.rows))' = LabelsOf(in, Represented(q'.rows))
  BY DEF LabelsOf, Represented
<1>5. AtInv'
  BY <1>1 DEF AtInv, AtsOf, SameSubject
<1>6. CollectInv' /\ CandidateInv'
  BY <1>1 DEF CollectInv, CandidateInv, SameSubject
<1>7. OneStoreInv'
  BY <1>1, <1>3, <1>4 DEF OneStoreInv
<1> QED
  BY <1>2, <1>5, <1>6, <1>7, GoesOn DEF IsShape, Shape, SameSubject

LEMMA ContextStep ==
  ASSUME QuestionInv, ReadContext
  PROVE  QuestionInv'
<1>1. /\ q.family = "service" /\ Running /\ Kind \in ContextKinds /\ store \in seen
      /\ q.refusals \subseteq Reasons /\ IsShape(q)
  BY ServiceAt, Starts DEF ReadContext
<1>2. q.left = {}
  BY <1>1 DEF QuestionInv, OneStoreInv, ReadContext
<1> DEFINE rows == ServiceRows(store)
           next == IF Represented(rows) # {} THEN "labels" ELSE Known
<1>3. CASE End("source_data_unavailable")
  BY <1>3, Fails DEF ReadContext, Read
<1>4. CASE ReadAll(rows, next)
  <2>1. CASE q' = Ended(q, "source_data_unavailable")
    BY <1>1, <2>1, EndsQuestion DEF ReadContext, Read
  <2>2. CASE q' = [q EXCEPT !.rows = rows, !.pages = 1, !.at = next]
    <3>1. /\ next \in {"labels", "evaluate", "term"}
          /\ next = "evaluate" => Represented(rows) = {}
      BY DEF Known
    <3> HIDE DEF rows, next
    <3>2. /\ IsShape(q') /\ SameSubject /\ q'.status = q.status /\ q'.left = {} /\ q'.rows = rows /\ q'.at = next
          /\ q'.refusals = q.refusals
      BY <1>1, <1>2, <2>2 DEF IsShape, Fields, SameSubject
    <3>3. Represented(rows) = {} => LabelsOf(store, Represented(rows)) = {}
      BY DEF LabelsOf
    <3>4. q'.rows = ServiceRows(store)
      BY <3>2 DEF rows
    <3>5. q'.at = "evaluate" => q'.left = LabelsOf(store, Represented(q'.rows))
      BY <3>1, <3>2, <3>3
    <3> QED
      BY <1>1, <3>1, <3>2, <3>4, <3>5, HoldsService DEF ReadContext, Read
  <2> QED
    BY <1>4, <2>1, <2>2 DEF ReadAll
<1> QED
  BY <1>3, <1>4 DEF ReadContext

LEMMA LabelsStep ==
  ASSUME QuestionInv, ReadLabels
  PROVE  QuestionInv'
<1>1. /\ q.family = "service" /\ Running /\ store \in seen /\ Kind \notin Candidates
      /\ q.refusals \subseteq Reasons /\ IsShape(q)
  BY ServiceAt, Starts DEF ReadLabels
<1> DEFINE labels == LabelsOf(store, Represented(q.rows))
<1>2. /\ IsShape(q') /\ SameSubject /\ q'.status = q.status /\ q'.left = labels /\ q'.rows = q.rows /\ q'.at = Known
      /\ q'.refusals = q.refusals
  BY <1>1 DEF ReadLabels, IsShape, Fields, SameSubject
<1>3. Known \in {"term", "evaluate"}
  BY DEF Known
<1>4. CASE Kind \in ContextKinds
  <2>1. \E in \in seen : q.rows = ServiceRows(in)
    BY <1>1, <1>4 DEF QuestionInv, OneStoreInv, ReadLabels
  <2> QED
    BY <1>1, <1>2, <1>3, <1>4, <2>1, HoldsService DEF ReadLabels, Read
<1>5. CASE Kind \notin ContextKinds
  <2>1. Kind' = Kind /\ Running'
    BY <1>2, <1>3 DEF Kind, Running, SameSubject
  <2>2. AtInv' /\ CollectInv' /\ CandidateInv'
    BY <1>1, <1>2, <1>3, <2>1 DEF AtInv, AtsOf, CollectInv, CandidateInv, SameSubject
  <2>3. OneStoreInv'
    BY <1>1, <1>5, <2>1, Starts DEF OneStoreInv, FamilyKinds
  <2> QED
    BY <1>1, <1>2, <2>1, <2>2, <2>3, GoesOn DEF ReadLabels, Read, IsShape, Shape, SameSubject
<1> QED
  BY <1>4, <1>5

\* A row of the service is a membership of a recorded term.
LEMMA ServiceIs ==
  ASSUME NEW in, NEW member, NEW house, NEW r \in ServiceOf(in, member, house)
  PROVE  \E m \in Recorded(in, house), t \in in.terms :
           /\ m.member = member /\ t.term = m.term
           /\ r.membership = m.membership /\ r.term = m.term /\ r.place = m.place /\ r.period = m.period
           /\ r.during = t.period /\ r.number = t.number
BY DEF ServiceOf, Recorded

LEMMA RecordedIs ==
  ASSUME NEW in, NEW house, NEW m \in Recorded(in, house)
  PROVE  \E r \in ServiceOf(in, m.member, house) : r.membership = m.membership /\ r.term = m.term /\ r.period = m.period
<1>1. PICK t \in in.terms : t.term = m.term /\ t.house = m.house /\ t.period.from # Unknown
  BY DEF Recorded
<1>2. m \in in.members /\ m.house = house
  BY DEF Recorded
<1> DEFINE paths == {x \in in.members \X in.terms :
                  /\ x[1].member = m.member /\ x[1].house = house /\ x[1].term = x[2].term
                  /\ x[2].house = house /\ x[2].period.from # Unknown}
           row(x) == [membership |-> x[1].membership, term |-> x[1].term, place |-> x[1].place, name |-> x[1].name,
                      period |-> x[1].period, during |-> x[2].period, number |-> x[2].number]
<1>3. <<m, t>> \in paths
  BY <1>1, <1>2
<1>4. ServiceOf(in, m.member, house) = {row(x) : x \in paths}
  BY DEF ServiceOf
<1>5. row(<<m, t>>).membership = m.membership /\ row(<<m, t>>).term = m.term /\ row(<<m, t>>).period = m.period
  OBVIOUS
<1> HIDE DEF paths, row
<1> QED
  BY <1>3, <1>4, <1>5

LEMMA ContextRows ==
  ASSUME QuestionInv, Kind \in ContextKinds, q.at \in {"term", "evaluate"}
  PROVE  /\ q.family = "service" /\ Running /\ IsShape(q) /\ q.refusals \subseteq Reasons
         /\ \E in \in seen : q.rows = ServiceRows(in)
         /\ \A in \in seen : IsStore(in)
<1>1. q.family = "service" /\ Running
  BY ServiceStart DEF ContextKinds, FamilyKinds
<1> QED
  BY <1>1, Starts DEF QuestionInv, OneStoreInv, StatusInv

LEMMA ServedStep ==
  ASSUME QuestionInv, AnswerServed
  PROVE  QuestionInv'
<1>1. Kind = "served" /\ q.at = "term" /\ Kind \in ContextKinds
  BY DEF AnswerServed, ContextKinds
<1>2. q.family = "service" /\ Running /\ IsShape(q) /\ q.refusals \subseteq Reasons
  BY <1>1, ContextRows
<1>3. PICK in \in seen : q.rows = ServiceRows(in)
  BY <1>1, ContextRows
<1> DEFINE r == TermResolved("term", "dail", Previous)
           answer == {\E x \in q.rows : x.term = r.ids["term"]}
<1>4. CASE End("source_data_unavailable")
  BY <1>4, Fails DEF AnswerServed, Read
<1>5. CASE q' = [r EXCEPT !.at = "done", !.status = "success", !.answer = answer]
  <2>1. Same(r) /\ \A x \in Referents \ {"term"} : r.ids[x] = q.ids[x]
    BY <1>2, ResolvedSame DEF TermResolved, Reasons, Referents
  <2> HIDE DEF r, answer
  <2>2. /\ IsShape(q') /\ q'.family = r.family /\ q'.question = r.question /\ q'.at = "done" /\ q'.answer = answer
        /\ q'.ids = r.ids
    BY <1>5, <2>1 DEF Same, IsShape, Fields
  <2>3. q'.ids["member"] = q.ids["member"]
    BY <2>1, <2>2 DEF Referents
  <2>4. Kind' = Kind /\ ServiceHouse = "dail" /\ Serving(in)' = Serving(in)
    BY <1>1, <2>1, <2>2, <2>3 DEF Kind, ServiceHouse, Serving, Same, Recorded
  <2>5. \A term : (\E x \in q.rows : x.term = term) <=> \E m \in Serving(in) : m.term = term
    <3>1. \A m \in Serving(in) : \E x \in q.rows : x.term = m.term
      BY <1>3, <2>4, RecordedIs DEF Serving, ServiceRows
    <3>2. \A x \in q.rows : \E m \in Serving(in) : m.term = x.term
      BY <1>3, <2>4, ServiceIs DEF Serving, ServiceRows
    <3> QED
      BY <3>1, <3>2
  <2>6. answer = {\E m \in Serving(in) : m.term = q'.ids["term"]}
    BY <2>2, <2>5 DEF answer
  <2>7. Meant(in, FALSE)' = {\E m \in Serving(in)' : m.term = q'.ids["term"]}
    BY <1>1, <1>2, <2>1, <2>2, <2>4 DEF Meant, ServiceMeant, Same
  <2>8. AnswerIsWitnessed'
    BY <2>2, <2>4, <2>6, <2>7 DEF AnswerIsWitnessed, AnswerServed, Read
  <2> QED
    BY <1>2, <2>1, <2>2, <2>8, Answers DEF Same, IsShape, Shape, AnswerServed, Read
<1> QED
  BY <1>4, <1>5 DEF AnswerServed

LEMMA EntryStep ==
  ASSUME QuestionInv, EvaluateEntry
  PROVE  QuestionInv'
<1>1. Kind = "entry" /\ q.at = "evaluate" /\ Kind \in ContextKinds /\ ServiceHouse = "seanad"
  BY DEF EvaluateEntry, ContextKinds, ServiceHouse
<1>2. q.family = "service" /\ Running
  BY <1>1, ContextRows
<1>3. PICK in \in seen : q.rows = ServiceRows(in)
  BY <1>1, ContextRows
<1> DEFINE first == {r \in q.rows : \A x \in q.rows : r.period.from <= x.period.from}
           answer == {r.membership : r \in first}
<1>4. CASE End("source_data_unavailable")
  BY <1>4, Fails DEF EvaluateEntry, Read
<1>5. CASE Answer(answer)
  <2>1. ASSUME NEW r \in first
        PROVE  r.membership \in EntryMeant(in, FALSE)
    <3>1. PICK m \in Recorded(in, "seanad") : m.member = q.ids["member"] /\ m.membership = r.membership /\ m.period = r.period
      BY <1>1, <1>3, ServiceIs DEF ServiceRows
    <3> DEFINE served == Serving(in)
               starts(x) == {y.period.from : y \in {z \in served : z.membership = x.membership}}
    <3>2. m \in served
      BY <1>1, <3>1 DEF Serving
    <3>3. \A s \in served : \E x \in q.rows : x.period = s.period
      BY <1>1, <1>3, RecordedIs DEF Serving, ServiceRows
    <3>4. \A s \in served : r.period.from <= s.period.from
      BY <3>3
    <3>5. \A s \in served : s.period.from \in starts(s)
      OBVIOUS
    <3>6. \A s \in served : \E a \in starts(m), b \in starts(s) : a <= b \/ b = Unknown
      BY <3>1, <3>2, <3>4, <3>5
    <3> QED
      BY <3>1, <3>2, <3>6 DEF EntryMeant
  <2>2. \A x \in answer : \E of \in seen : x \in ServiceMeant(of, FALSE)
    BY <1>1, <2>1 DEF ServiceMeant
  <2> HIDE DEF answer
  <2> QED
    BY <1>2, <1>5, <2>2, AnswersService DEF EvaluateEntry, Read
<1> QED
  BY <1>4, <1>5 DEF EvaluateEntry

LEMMA PanelStep ==
  ASSUME QuestionInv, EvaluatePanel
  PROVE  QuestionInv'
<1>1. Kind = "panel" /\ q.at = "evaluate" /\ Kind \in ContextKinds /\ ServiceHouse = "seanad"
  BY DEF EvaluatePanel, ContextKinds, ServiceHouse
<1>2. q.family = "service" /\ Running
  BY <1>1, ContextRows
<1>3. PICK in \in seen : q.rows = ServiceRows(in)
  BY <1>1, ContextRows
<1>4. PICK of \in seen : q.left = LabelsOf(of, Represented(q.rows))
  BY <1>1, <1>2 DEF QuestionInv, OneStoreInv
<1> DEFINE rows == {r \in q.rows : r.number = q.question.number}
           shown(r) == IF r.place \in q.left THEN r.place ELSE Nothing
           answer == {<<r.membership, shown(r)>> : r \in rows}
<1>5. CASE End("source_data_unavailable")
  BY <1>5, Fails DEF EvaluatePanel, Read
<1>6. CASE Answer(answer)
  <2>1. ASSUME NEW r \in rows
        PROVE  <<r.membership, shown(r)>> \in PanelMeant(in, FALSE)
    <3>1. PICK m \in Recorded(in, "seanad"), t \in in.terms :
            /\ m.member = q.ids["member"] /\ t.term = m.term
            /\ r.membership = m.membership /\ r.place = m.place /\ r.number = t.number
      BY <1>1, <1>3, ServiceIs DEF ServiceRows
    <3>2. m \in Serving(in)
      BY <1>1, <3>1 DEF Serving
    <3>3. shown(r) = IF m.place \in LabelsOf(of, {m.place}) THEN m.place ELSE Nothing
      BY <1>4, <3>1 DEF LabelsOf, Represented
    <3> DEFINE label(x, o) == IF x.place \in LabelsOf(o, {x.place}) THEN x.place ELSE Nothing
               numbered == {x \in Serving(in) : \E y \in in.terms : y.term = x.term /\ y.number = q.question.number}
    <3>4. PanelMeant(in, FALSE) = UNION {{<<x.membership, label(x, o)>> : o \in seen \cup {in}} : x \in numbered}
      BY DEF PanelMeant
    <3>5. m \in numbered
      BY <3>1, <3>2
    <3>6. <<r.membership, shown(r)>> = <<m.membership, label(m, of)>>
      BY <3>1, <3>3
    <3> DEFINE lines(x) == {<<x.membership, label(x, o)>> : o \in seen \cup {in}}
    <3>7. <<m.membership, label(m, of)>> \in lines(m)
      OBVIOUS
    <3> HIDE DEF label, numbered, shown, rows
    <3>8. PanelMeant(in, FALSE) = UNION {lines(x) : x \in numbered}
      BY <3>4
    <3> HIDE DEF lines
    <3> QED
      BY <3>5, <3>6, <3>7, <3>8
  <2>2. \A x \in answer : \E i \in seen : x \in ServiceMeant(i, FALSE)
    BY <1>1, <2>1 DEF ServiceMeant
  <2> HIDE DEF answer
  <2> QED
    BY <1>2, <1>6, <2>2, AnswersService DEF EvaluatePanel, Read
<1> QED
  BY <1>5, <1>6 DEF EvaluatePanel

LEMMA DaysAre ==
  ASSUME NEW to \in Nat, NEW from \in Nat, NEW d \in DaysUntil(to, from)
  PROVE  d \in Nat /\ from <= d /\ d <= to /\ d <= AsOf
<1>1. AsOf \in Nat
  BY PagesAreBounded
<1>2. \E x \in {to, AsOf} : \A y \in {to, AsOf} : x <= y
  BY <1>1
<1>3. Min({to, AsOf}) \in {to, AsOf} /\ Min({to, AsOf}) <= to /\ Min({to, AsOf}) <= AsOf
  BY <1>2 DEF Min
<1> QED
  BY <1>1, <1>3 DEF DaysUntil

LEMMA DurationStep ==
  ASSUME QuestionInv, AnswerDuration
  PROVE  QuestionInv'
<1>1. Kind = "duration" /\ q.at = "term" /\ Kind \in ContextKinds /\ ServiceHouse = "dail"
  BY DEF AnswerDuration, ContextKinds, ServiceHouse
<1>2. q.family = "service" /\ Running
  BY <1>1, ContextRows
<1>3. PICK in \in seen : q.rows = ServiceRows(in) /\ IsStore(in)
  BY <1>1, ContextRows
<1> DEFINE dail == {t \in store.terms : t.house = "dail"}
           current == CurrentTerms(dail)
           answer == UNION {DaysUntil(r.period.to, r.period.from) : r \in q.rows}
<1>4. CASE End("source_data_unavailable")
  BY <1>4, Fails DEF AnswerDuration, Read
<1>5. CASE Answer(answer) /\ \A r \in q.rows : FitsTerm(r, current)
  <2>1. ASSUME NEW r \in q.rows, NEW d \in DaysUntil(r.period.to, r.period.from)
        PROVE  d \in DurationMeant(in, FALSE)
    <3>1. PICK m \in Recorded(in, "dail"), t \in in.terms :
            /\ m.member = q.ids["member"] /\ t.term = m.term /\ r.period = m.period /\ r.during = t.period
      BY <1>1, <1>3, ServiceIs DEF ServiceRows
    <3>2. m \in Serving(in) /\ m \in in.members
      BY <1>1, <3>1 DEF Serving, Recorded
    <3>3. IsDated(m.period) /\ IsDated(t.period)
      BY <1>3, <3>2 DEF IsStore, DatedGraphs, DatedRows
    <3>4. d \in Nat /\ m.period.from <= d /\ d <= m.period.to /\ d <= AsOf
      BY <3>1, <3>3, DaysAre DEF IsDated
    <3>5. FitsTerm(r, current)
      BY <1>5
    <3> HIDE DEF current
    <3>6. m.period.from # Unknown /\ t.period.from <= m.period.from
      BY <3>1, <3>5 DEF FitsTerm, Covers
    <3>7. d \in 1..AsOf
      BY <3>3, <3>4, <3>6, PagesAreBounded DEF IsDated, Unknown
    <3>8. m.period.to = Open => d <= t.period.to
      BY <3>1, <3>3, <3>4, <3>5, <3>6, PagesAreBounded DEF FitsTerm, IsDated
    <3>9. t.period.to \in {p.to : p \in {x.period : x \in {y \in in.terms : y.term = m.term}}}
      BY <3>1
    <3> QED
      BY <3>2, <3>4, <3>7, <3>8, <3>9 DEF DurationMeant
  <2>2. \A x \in answer : \E of \in seen : x \in ServiceMeant(of, FALSE)
    BY <1>1, <2>1 DEF ServiceMeant
  <2> HIDE DEF answer
  <2> QED
    BY <1>2, <1>5, <2>2, AnswersService DEF AnswerDuration, Read
<1> QED
  BY <1>4, <1>5 DEF AnswerDuration

LEMMA LinksStep ==
  ASSUME QuestionInv, ReadLinks
  PROVE  QuestionInv'
<1>1. /\ q.family = "service" /\ Running /\ store \in seen /\ IsShape(q) /\ Kind \in {"sat", "committees"}
  BY ServiceAt, Starts DEF ReadLinks
<1> DEFINE links == LinksOf(store)
<1>2. CASE q' = Ended(q, "source_data_unavailable")
  BY <1>1, <1>2, EndsQuestion DEF ReadLinks, Read
<1>3. CASE q' = [q EXCEPT !.at = "done", !.status = "success", !.answer = links, !.pages = 1]
  <2>1. \A x \in links : \E in \in seen : x \in ServiceMeant(in, FALSE)
    BY <1>1 DEF ServiceMeant
  <2>2. InOnePage(links)
    BY <1>3 DEF InOnePage
  <2> HIDE DEF links
  <2> QED
    BY <1>1, <2>1, <2>2, AnswersService DEF ReadLinks, Read
<1> QED
  BY <1>2, <1>3 DEF ReadLinks

LEMMA CollectionStep ==
  ASSUME QuestionInv, ReadCollection
  PROVE  QuestionInv'
<1>1. /\ q.family = "service" /\ Running /\ store \in seen /\ Kind = "collection"
  BY ServiceAt, Starts DEF ReadCollection
<1> DEFINE answer == Affiliations(CollectionRows(store))
<1>2. CASE End("source_data_unavailable") \/ End("ambiguous")
  BY <1>2, Fails DEF ReadCollection, Read
<1>3. CASE Answer(answer)
  <2>1. \A x \in answer : \E in \in seen : x \in ServiceMeant(in, FALSE)
    BY <1>1 DEF ServiceMeant
  <2> HIDE DEF answer
  <2> QED
    BY <1>1, <1>3, <2>1, AnswersService DEF ReadCollection, Read
<1> QED
  BY <1>2, <1>3 DEF ReadCollection

LEMMA ReadCommitteeStep ==
  ASSUME QuestionInv, ReadCommittee
  PROVE  QuestionInv'
<1>1. /\ q.family = "service" /\ Running /\ store \in seen /\ Kind = "committee"
  BY ServiceAt, Starts DEF ReadCommittee
<1>2. CASE End("source_data_unavailable")
  BY <1>2, Fails DEF ReadCommittee, Read
<1>3. ASSUME NEW last \in CommitteeRowsOf(store), last.label = q.question.committee, IsCurrentCommittee(last), Answer({TRUE})
      PROVE  QuestionInv'
  <2>1. last.committee \in CommitteesOf(store) \cap CurrentCommittees(store)
    BY <1>3 DEF CommitteeRowsOf, CurrentCommittees, NamedCommittees
  <2>2. TRUE \in ServiceMeant(store, FALSE)
    BY <1>1, <2>1 DEF ServiceMeant
  <2> DEFINE answer == {TRUE}
  <2>3. \A x \in answer : \E in \in seen : x \in ServiceMeant(in, FALSE)
    BY <1>1, <2>2
  <2>4. Answer(answer)
    BY <1>3
  <2> HIDE DEF answer
  <2> QED
    BY <1>1, <2>3, <2>4, AnswersService DEF ReadCommittee, Read
<1> QED
  BY <1>2, <1>3 DEF ReadCommittee

----------------------------------------------------------------------------
\* Whom a name means

\* A candidate that qualified was called by the name, and serves.
Qualified(rows) == \A x \in rows : x[2] => (\E in \in seen : Calls(in, x[1])) /\ (\E in \in seen : Serves(in, x[1]))
Called(set) == \A m \in set : \E in \in seen : Calls(in, m)

LEMMA CandidateFrame ==
  ASSUME q'.question = q.question, NEW CONSTANT in, NEW CONSTANT m
  PROVE  Calls(in, m)' = Calls(in, m) /\ Serves(in, m)' = Serves(in, m)
BY DEF Calls, Serves, Recorded, ServiceHouse, Kind

LEMMA CandidateOn ==
  ASSUME QuestionInv, Running, q.family = "service", Kind \in Candidates, IsShape(q'), seen' = seen, store' = store,
         q'.family = q.family, q'.question = q.question, q'.status \in {q.status, "ambiguous"},
         q'.refusals \subseteq Reasons,
         q'.at \in {"labels", "evaluate", "qualify", "offer", "offerLabels", "choosing"},
         q'.at = "qualify" => q'.left # {}, q'.at \in {"qualify", "labels"} => Called(q'.left),
         q'.at \in {"qualify", "labels", "evaluate"} => Qualified(q'.rows)
  PROVE  QuestionInv'
<1>1. Kind' = Kind /\ Running'
  BY DEF Kind, Running
<1>2. \A in \in seen : \A m : Calls(in, m)' = Calls(in, m) /\ Serves(in, m)' = Serves(in, m)
  BY CandidateFrame
<1>3. AtInv'
  BY <1>1 DEF AtInv, AtsOf
<1>4. CollectInv' /\ OneStoreInv'
  BY <1>1 DEF CollectInv, OneStoreInv, ContextKinds, Candidates
<1>5. CandidateInv'
  BY <1>1, <1>2 DEF CandidateInv, Called, Qualified
<1> QED
  BY <1>1, <1>3, <1>4, <1>5, GoesOn DEF IsShape, Shape

LEMMA CandidateStart ==
  ASSUME QuestionInv, Kind \in Candidates, q.at \in {"member", "qualify", "labels", "evaluate", "offer",
         "offerLabels", "choosing"}
  PROVE  /\ q.family = "service" /\ Running /\ store \in seen /\ IsShape(q) /\ q.refusals \subseteq Reasons
         /\ q.at = "member" => q.rows = {}
         /\ q.at = "qualify" => q.left # {}
         /\ q.at \in {"qualify", "labels"} => Called(q.left)
         /\ q.at \in {"qualify", "labels", "evaluate"} => Qualified(q.rows)
<1>1. q.family = "service" /\ Running
  BY ServiceStart DEF Candidates, FamilyKinds
<1> QED
  BY <1>1, Starts DEF QuestionInv, CandidateInv, Called, Qualified

LEMMA NobodyIsLeft == NobodyLeft # "success"
BY DEF NobodyLeft

LEMMA CandidatesStep ==
  ASSUME QuestionInv, ResolveCandidates
  PROVE  QuestionInv'
<1>1. /\ q.family = "service" /\ Running /\ store \in seen /\ IsShape(q) /\ q.refusals \subseteq Reasons
      /\ q.rows = {}
      /\ Kind \in Candidates
  BY CandidateStart DEF ResolveCandidates
<1> DEFINE rows == Labelled(store, q.question.name)
           found == {r[1] : r \in rows}
           all == [q EXCEPT !.rows = {<<m, TRUE>> : m \in found}, !.at = "evaluate"]
           some == [q EXCEPT !.left = found, !.at = "qualify"]
<1>2. q' = CASE Cardinality(rows) >= PageSize -> Ended(q, "validation_failure")
               [] found = {} -> Ended(q, NobodyLeft)
               [] ServiceHouse = Nothing -> all
               [] OTHER -> some
  BY Zenon DEF ResolveCandidates
<1>3. Called(found)
  BY <1>1 DEF Called, Calls, Labelled
<1>4. CASE q' = Ended(q, "validation_failure") \/ q' = Ended(q, NobodyLeft)
  BY <1>1, <1>4, NobodyIsLeft, EndsQuestion DEF ResolveCandidates, Read
<1> HIDE DEF rows, found, all, some
<1>10. \/ q' = Ended(q, "validation_failure") \/ q' = Ended(q, NobodyLeft)
       \/ ServiceHouse = Nothing /\ q' = all
       \/ found # {} /\ q' = some
  BY <1>2
<1>5. CASE ServiceHouse = Nothing /\ q' = all
  <2>1. /\ IsShape(q') /\ q'.family = q.family /\ q'.question = q.question /\ q'.status = q.status
        /\ q'.at = "evaluate"
        /\ q'.refusals = q.refusals /\ q'.rows = {<<m, TRUE>> : m \in found}
    BY <1>1, <1>5 DEF IsShape, Fields, all
  <2>2. ASSUME NEW x \in q'.rows
        PROVE  (\E in \in seen : Calls(in, x[1])) /\ (\E in \in seen : Serves(in, x[1]))
    <3>1. x[1] \in found
      <4>1. x \in {<<m, TRUE>> : m \in found}
        BY <2>1, <2>2 DEF all
      <4>2. PICK m \in found : x = <<m, TRUE>>
        BY <4>1
      <4> QED
        BY <4>2
    <3>2. \A in : Serves(in, x[1])
      BY <1>5, NothingIsNoHouse DEF Serves
    <3> QED
      BY <1>1, <1>3, <3>1, <3>2 DEF Called
  <2> QED
    BY <1>1, <2>1, <2>2, CandidateOn DEF ResolveCandidates, Read, Qualified
<1>6. CASE found # {} /\ q' = some
  <2>1. /\ IsShape(q') /\ q'.family = q.family /\ q'.question = q.question /\ q'.status = q.status
        /\ q'.at = "qualify"
        /\ q'.refusals = q.refusals /\ q'.rows = {} /\ q'.left = found
    BY <1>1, <1>6 DEF IsShape, Fields, some
  <2>2. Qualified(q'.rows)
    BY <2>1 DEF Qualified
  <2> QED
    BY <1>1, <1>3, <1>6, <2>1, <2>2, CandidateOn DEF ResolveCandidates, Read
<1> QED
  BY <1>10, <1>4, <1>5, <1>6

LEMMA NextCandidateOn ==
  ASSUME QuestionInv, Kind \in Candidates, q.at \in {"qualify", "labels"}, NEW STATE r, IsShape(r),
         r.family = q.family,
         r.question = q.question, r.status = q.status, r.refusals = q.refusals, Called(r.left), Qualified(r.rows),
         q' = NextCandidate(r), seen' = seen, store' = store
  PROVE  QuestionInv'
<1>1. q.family = "service" /\ Running /\ q.refusals \subseteq Reasons
  BY CandidateStart
<1>2. /\ IsShape(q') /\ q'.family = r.family /\ q'.question = r.question /\ q'.status = r.status
      /\ q'.refusals = r.refusals
      /\ q'.rows = r.rows /\ q'.left = r.left /\ q'.at = IF r.left = {} THEN "evaluate" ELSE "qualify"
  BY DEF NextCandidate, IsShape, Fields
<1> QED
  BY <1>1, <1>2, CandidateOn

LEMMA QualifyStep ==
  ASSUME QuestionInv, Qualify
  PROVE  QuestionInv'
<1>1. Kind \in Candidates
  BY ServiceAt DEF Qualify
<1>2. /\ q.family = "service" /\ Running /\ store \in seen /\ IsShape(q) /\ q.refusals \subseteq Reasons
      /\ q.left # {}
      /\ Called(q.left) /\ Qualified(q.rows)
  BY <1>1, CandidateStart DEF Qualify
<1> DEFINE m == The(q.left)
           linked == Kind = "lookup" /\ ServiceHouse = "dail"
           service == ServiceOf(store, m, ServiceHouse)
           rows == IF linked THEN SatIn(store, m) ELSE service
           read == [q EXCEPT !.left = @ \ {m}, !.rows = @ \cup {<<m, rows # {}>>}]
           sole == Kind = "namesakes" /\ Cardinality(q.left) + Cardinality(q.rows) = 1
           reason == IF sole THEN "source_data_unavailable" ELSE "validation_failure"
<1>3. q' = Ended(q, reason) \/ q' = [read EXCEPT !.at = "labels"] \/ q' = NextCandidate(read)
  BY DEF Qualify
<1>4. CASE q' = Ended(q, reason)
  <2>1. reason # "success"
    OBVIOUS
  <2> HIDE DEF reason
  <2> QED
    BY <1>2, <1>4, <2>1, EndsQuestion DEF Qualify, Read
<1>5. rows # {} => Serves(store, m)
  <2>1. CASE linked
    BY <2>1 DEF Serves, SatIn
  <2>2. CASE ~linked
    BY <2>2, ServiceIs DEF Serves
  <2> QED
    BY <2>1, <2>2
<1>6. m \in q.left
  BY <1>2 DEF The
<1> HIDE DEF m, rows
<1>7. /\ IsShape(read) /\ read.family = q.family /\ read.question = q.question /\ read.status = q.status
      /\ read.refusals = q.refusals /\ read.left = q.left \ {m} /\ read.rows = q.rows \cup {<<m, rows # {}>>}
  BY <1>2 DEF IsShape, Fields
<1> HIDE DEF read
<1>8. Called(read.left) /\ Qualified(read.rows)
  <2>1. Called(read.left)
    BY <1>2, <1>7 DEF Called
  <2>2. ASSUME NEW x \in read.rows, x[2]
        PROVE  (\E in \in seen : Calls(in, x[1])) /\ (\E in \in seen : Serves(in, x[1]))
    <3>1. CASE x \in q.rows
      BY <1>2, <2>2, <3>1 DEF Qualified
    <3>2. CASE x = <<m, rows # {}>>
      <4>1. x[1] = m /\ rows # {}
        BY <2>2, <3>2
      <4> QED
        BY <1>2, <1>5, <1>6, <4>1 DEF Called
    <3> QED
      BY <1>7, <2>2, <3>1, <3>2
  <2> QED
    BY <2>1, <2>2 DEF Qualified
<1>9. CASE q' = [read EXCEPT !.at = "labels"]
  <2>1. /\ IsShape(q') /\ q'.family = read.family /\ q'.question = read.question /\ q'.status = read.status
        /\ q'.refusals = read.refusals /\ q'.rows = read.rows /\ q'.left = read.left /\ q'.at = "labels"
    BY <1>7, <1>9 DEF IsShape, Fields
  <2> QED
    BY <1>1, <1>2, <1>7, <1>8, <2>1, CandidateOn DEF Qualify, Read
<1>10. CASE q' = NextCandidate(read)
  BY <1>1, <1>7, <1>8, <1>10, NextCandidateOn DEF Qualify, Read
<1> QED
  BY <1>3, <1>4, <1>9, <1>10

LEMMA LabelCandidateStep ==
  ASSUME QuestionInv, LabelCandidate
  PROVE  QuestionInv'
<1>1. IsShape(q) /\ Called(q.left) /\ Qualified(q.rows)
  BY CandidateStart DEF LabelCandidate
<1> QED
  BY <1>1, NextCandidateOn DEF LabelCandidate, Read

LEMMA EvaluateCandidatesStep ==
  ASSUME QuestionInv, EvaluateCandidates
  PROVE  QuestionInv'
<1>1. /\ q.family = "service" /\ Running /\ IsShape(q) /\ q.refusals \subseteq Reasons /\ Qualified(q.rows)
      /\ Kind \in Candidates
  BY CandidateStart DEF EvaluateCandidates
<1> DEFINE found == {r[1] : r \in {x \in q.rows : x[2]}}
           matches == IF Chosen = Nothing THEN found ELSE found \cap {Chosen}
           reason == IF Kind = "namesakes" THEN "source_data_unavailable" ELSE NobodyLeft
           offer == [q EXCEPT !.rows = matches, !.left = matches \X {"dail", "seanad"}, !.at = "offer"]
<1>2. End(reason) \/ Answer(matches) \/ q' = offer
  BY DEF EvaluateCandidates
<1>3. CASE End(reason)
  <2>1. reason # "success"
    BY NobodyIsLeft
  <2> HIDE DEF reason
  <2> QED
    BY <1>3, <2>1, Fails DEF EvaluateCandidates, Read
<1>4. CASE Answer(matches)
  <2>1. ASSUME NEW m \in found
        PROVE  \E in \in seen : m \in WhoMeant(in, FALSE)
    <3>1. (\E in \in seen : Calls(in, m)) /\ (\E in \in seen : Serves(in, m))
      BY <1>1 DEF Qualified
    <3>2. PICK of \in seen : Calls(of, m)
      BY <3>1
    <3>3. PICK in \in seen : Serves(in, m)
      BY <3>1
    <3> DEFINE called(x) == {y.member : y \in {z \in x.members : z.name = q.question.name}}
               named == UNION {called(x) : x \in seen \cup {in}}
               serving == CASE ServiceHouse = Nothing -> named
                   [] Kind = "lookup" /\ ServiceHouse = "dail" -> {y.member : y \in {x \in in.members : x.house = "dail"}}
                   [] OTHER -> {y.member : y \in Recorded(in, ServiceHouse)}
    <3>4. m \in called(of)
      BY <3>2 DEF Calls
    <3>5. m \in named
      BY <3>4
    <3>6. m \in serving
      BY <3>3, <3>5 DEF Serves
    <3>7. WhoMeant(in, FALSE) = named \cap serving
      BY DEF WhoMeant
    <3> QED
      BY <3>5, <3>6, <3>7
  <2>2. \A x \in matches : \E in \in seen : x \in ServiceMeant(in, FALSE)
    BY <1>1, <2>1 DEF ServiceMeant, Candidates
  <2> HIDE DEF matches
  <2> QED
    BY <1>1, <1>4, <2>2, AnswersService DEF EvaluateCandidates, Read
<1>5. CASE q' = offer
  <2> HIDE DEF matches
  <2>1. /\ IsShape(q') /\ q'.family = q.family /\ q'.question = q.question /\ q'.status = q.status /\ q'.at = "offer"
        /\ q'.refusals = q.refusals
    BY <1>1, <1>5 DEF IsShape, Fields
  <2> QED
    BY <1>1, <2>1, CandidateOn DEF EvaluateCandidates, Read
<1> QED
  BY <1>2, <1>3, <1>4, <1>5

LEMMA OfferedOn ==
  ASSUME QuestionInv, q.at \in {"offer", "offerLabels"}, NEW STATE r, IsShape(r), r.family = q.family,
         r.question = q.question, r.status = q.status, r.refusals = q.refusals,
         q' = Offered(r) \/ q' = [r EXCEPT !.at = "offerLabels"], seen' = seen, store' = store
  PROVE  QuestionInv'
<1>1. q.family = "service" /\ Running /\ q.refusals \subseteq Reasons /\ Kind \in Candidates
  BY ServiceAt, CandidateStart
<1>2. /\ IsShape(q') /\ q'.family = r.family /\ q'.question = r.question /\ q'.status \in {r.status, "ambiguous"}
      /\ q'.refusals = r.refusals /\ q'.at \in {"choosing", "offer", "offerLabels"}
  BY DEF Offered, IsShape, Fields
<1> QED
  BY <1>1, <1>2, CandidateOn

LEMMA ReadOfferStep ==
  ASSUME QuestionInv, ReadOffer
  PROVE  QuestionInv'
<1>1. IsShape(q)
  BY ServiceAt, Starts DEF ReadOffer
<1> DEFINE x == The(q.left)
           read == [q EXCEPT !.left = @ \ {x}]
<1>2. q' = Ended(q, "validation_failure") \/ q' = [read EXCEPT !.at = "offerLabels"] \/ q' = Offered(read)
  BY DEF ReadOffer
<1>3. CASE q' = Ended(q, "validation_failure")
  BY <1>1, <1>3, EndsQuestion DEF ReadOffer, Read
<1>4. IsShape(read) /\ read.family = q.family /\ read.question = q.question /\ read.status = q.status /\ read.refusals = q.refusals
  BY <1>1 DEF IsShape, Fields
<1> HIDE DEF read
<1> QED
  BY <1>2, <1>3, <1>4, OfferedOn DEF ReadOffer, Read

LEMMA LabelOfferStep ==
  ASSUME QuestionInv, LabelOffer
  PROVE  QuestionInv'
<1>1. IsShape(q)
  BY ServiceAt, Starts DEF LabelOffer
<1> QED
  BY <1>1, OfferedOn DEF LabelOffer, Read

\* What a question is at first
LEMMA IdleIs ==
  ASSUME NEW family, NEW question
  PROVE  /\ IsShape(Idle(family, question)) /\ Idle(family, question).family = family
         /\ Idle(family, question).question = question /\ Idle(family, question).refusals = {}
         /\ Idle(family, question).rows = {} /\ Idle(family, question).left = {}
         /\ Idle(family, question).status = "none"
BY DEF IsShape, Idle, Fields

LEMMA ChooseStep ==
  ASSUME QuestionInv, Choose
  PROVE  QuestionInv'
<1>1. /\ q.family = "service" /\ Running /\ Kind \in Candidates /\ store \in seen /\ Kind \in FamilyKinds["service"]
  BY ServiceAt, Starts DEF Choose
<1>2. PICK m \in q.rows : q' = [Idle(q.family, q.question) EXCEPT !.at = "member", !.ids["identity"] = m]
  BY DEF Choose
<1>3. /\ IsShape(q') /\ q'.family = "service" /\ q'.question = q.question /\ q'.refusals = {} /\ q'.rows = {}
      /\ q'.status = "none" /\ q'.at = "member"
  <2> DEFINE idle == Idle(q.family, q.question)
  <2>1. /\ IsShape(idle) /\ idle.family = q.family /\ idle.question = q.question /\ idle.refusals = {}
        /\ idle.rows = {} /\ idle.status = "none"
    BY IdleIs
  <2> HIDE DEF idle
  <2>2. q' = [idle EXCEPT !.at = "member", !.ids["identity"] = m]
    BY <1>2 DEF idle
  <2> QED
    BY <1>1, <2>1, <2>2 DEF IsShape, Fields, Referents
<1>4. Kind' = Kind /\ Running' /\ ~Answered'
  BY <1>3 DEF Kind, Running, Answered
<1>5. seen' = {store} /\ store' = store /\ IsStore(store)
  BY <1>1 DEF Choose, QuestionInv, StatusInv
<1>6. KindInv' /\ StatusInv' /\ AtInv' /\ CollectInv'
  BY <1>1, <1>3, <1>4, <1>5 DEF KindInv, StatusInv, AtInv, AtsOf, CollectInv, FamilyKinds
<1>7. OneStoreInv' /\ CandidateInv' /\ AnswerIsWitnessed'
  BY <1>1, <1>3, <1>4 DEF OneStoreInv, CandidateInv, AnswerIsWitnessed, Candidates, ContextKinds
<1> QED
  BY <1>3, <1>6, <1>7 DEF QuestionInv, IsShape, Shape

LEMMA ServiceStepInv ==
  ASSUME QuestionInv, ServiceStep
  PROVE  QuestionInv'
<1>1. ASSUME ChoiceLost PROVE QuestionInv'
  BY <1>1, Fails DEF ChoiceLost, Read
<1> QED
  BY <1>1, ServingStep, ContextStep, LabelsStep, ServedStep, EntryStep, PanelStep, DurationStep, LinksStep,
     CollectionStep,
     CommitteeStep, ReadCommitteeStep, CandidatesStep, QualifyStep, LabelCandidateStep, EvaluateCandidatesStep,
     ReadOfferStep, LabelOfferStep, ChooseStep DEF ServiceStep

----------------------------------------------------------------------------
\* From the wording to the first query, and what others publish

LEMMA NotYet ==
  ASSUME QuestionInv, IsShape(q'), ~Running', ~Answered', seen' = seen
  PROVE  QuestionInv'
<1>1. StatusInv'
  BY DEF StatusInv, QuestionInv
<1>2. KindInv' /\ AtInv' /\ CollectInv' /\ OneStoreInv' /\ CandidateInv' /\ AnswerIsWitnessed'
  BY DEF KindInv, AtInv, CollectInv, OneStoreInv, CandidateInv, AnswerIsWitnessed
<1> QED
  BY <1>1, <1>2 DEF QuestionInv, IsShape, Shape

LEMMA Plans ==
  ASSUME QuestionInv, q.at \in {"asked", "planning"}, NEW STATE plan, NEW STATE place, place \in {"planning",
         "planned"},
         q' = [q EXCEPT !.at = place] \/ q' = [q EXCEPT !.at = place, !.plan = plan], seen' = seen
  PROVE  QuestionInv'
<1>1. IsShape(q) /\ q.status # "success"
  BY DEF QuestionInv, Shape, IsShape, StatusInv, Answered
<1>2. IsShape(q') /\ q'.at = place /\ q'.status = q.status
  BY <1>1 DEF IsShape, Fields
<1> QED
  BY <1>1, <1>2, NotYet DEF Running, Answered

LEMMA RefuseStep ==
  ASSUME QuestionInv, Refuse
  PROVE  QuestionInv'
<1> DEFINE reason == Refusal(Asked)
<1>1. reason # "success"
  BY DEF Refusal
<1>2. End(reason) /\ seen' = seen
  BY DEF Refuse, Read
<1> HIDE DEF reason
<1> QED
  BY <1>1, <1>2, Fails

LEMMA RecognizeStep ==
  ASSUME QuestionInv, Recognize
  PROVE  QuestionInv'
<1>1. PICK x \in Recognized(Asked) :
        LET plan == Completed(WithPath(Proposal(x)), Asked)
        IN q' = IF x.kind = "held" \/ ValidPlan(plan) THEN [q EXCEPT !.at = "planned", !.plan = plan]
                ELSE Ended(q, "validation_failure")
  BY DEF Recognize
<1> DEFINE plan == Completed(WithPath(Proposal(x)), Asked)
<1>2. q' = [q EXCEPT !.at = "planned", !.plan = plan] \/ q' = Ended(q, "validation_failure")
  BY <1>1
<1>3. q.at = "asked" /\ seen' = seen
  BY DEF Recognize, Passes, Read
<1> HIDE DEF plan
<1>4. CASE q' = Ended(q, "validation_failure")
  BY <1>3, <1>4, Fails DEF End
<1>5. CASE q' = [q EXCEPT !.at = "planned", !.plan = plan]
  BY <1>3, <1>5, Plans
<1> QED
  BY <1>2, <1>4, <1>5

LEMMA ProposeStep ==
  ASSUME QuestionInv, q.at = "planning", NEW d, Propose(d)
  PROVE  QuestionInv'
<1> DEFINE plan == Completed(WithPath(d), Asked)
<1>1. q' = [q EXCEPT !.at = "planned", !.plan = plan] \/ q' = Ended(q, "validation_failure")
  BY DEF Propose
<1>2. seen' = seen
  BY DEF Propose, Read
<1> HIDE DEF plan
<1>3. CASE q' = Ended(q, "validation_failure")
  BY <1>2, <1>3, Fails DEF End
<1>4. CASE q' = [q EXCEPT !.at = "planned", !.plan = plan]
  BY <1>2, <1>4, Plans
<1> QED
  BY <1>1, <1>3, <1>4

LEMMA PlanStepInv ==
  ASSUME QuestionInv, Plan
  PROVE  QuestionInv'
<1>1. ASSUME TakeForAName PROVE QuestionInv'
  BY <1>1, Fails DEF TakeForAName, Read
<1>2. ASSUME AskPlanner PROVE QuestionInv'
  BY <1>2, Plans DEF AskPlanner, Passes, Read
<1>3. ASSUME Undraftable PROVE QuestionInv'
  BY <1>3, Fails DEF Undraftable, Read
<1> QED
  BY <1>1, <1>2, <1>3, RefuseStep, RecognizeStep, ProposeStep DEF Plan

LEMMA FamilyIs ==
  ASSUME NEW kind, kind \in DOMAIN Stores
  PROVE  FamilyOf(kind) \in DOMAIN FamilyKinds /\ kind \in FamilyKinds[FamilyOf(kind)]
<1>1. \E family \in DOMAIN Questions : \E x \in Questions[family] : x.kind = kind
  BY KindsAreKnown DEF AllQuestions
<1>2. FamilyOf(kind) \in DOMAIN Questions /\ \E x \in Questions[FamilyOf(kind)] : x.kind = kind
  BY <1>1 DEF FamilyOf
<1> QED
  BY <1>2, KindsAreKnown

LEMMA FirstIs ==
  ASSUME NEW family \in DOMAIN FamilyKinds, NEW kind \in FamilyKinds[family]
  PROVE  /\ First(family, kind) \in AtsOf[family] \ {"holdings", "answer", "terms", "evaluate", "context", "labels",
                                                      "qualify", "offer", "offerLabels", "choosing"}
         /\ First(family, kind) = "catalogue" => kind = "committee"
         /\ kind \in ContextKinds => First(family, kind) = "member"
BY DEF ContextKinds, First, FirstOfMembers, FirstOfParties, FirstOfHouses, FirstOfTenures, FirstOfBills,
   FirstOfService, AtsOf, FamilyKinds

LEMMA ExecuteStep ==
  ASSUME QuestionInv, Execute
  PROVE  QuestionInv'
<1> DEFINE question == QuestionOf(q.plan)
           family == FamilyOf(question.kind)
           idle == Idle(family, question)
           first == First(family, question.kind)
<1>1. /\ question.kind \in DOMAIN Stores /\ store' \in Stores[question.kind] /\ seen' = {store'}
      /\ q' = [idle EXCEPT !.at = first]
  BY DEF Execute
<1>2. /\ IsShape(idle) /\ idle.family = family /\ idle.question = question /\ idle.refusals = {} /\ idle.rows = {}
      /\ idle.left = {} /\ idle.status = "none"
  BY IdleIs
<1>3. family \in DOMAIN FamilyKinds /\ question.kind \in FamilyKinds[family]
  BY <1>1, FamilyIs
<1> HIDE DEF question, family, idle
<1>4. /\ first \in AtsOf[family] \ {"holdings", "answer", "terms", "evaluate", "context", "labels",
                                     "qualify", "offer", "offerLabels", "choosing"}
      /\ first = "catalogue" => question.kind = "committee"
      /\ question.kind \in ContextKinds => first = "member"
  BY <1>3, FirstIs
<1> HIDE DEF first
<1>5. /\ IsShape(q') /\ q'.family = family /\ q'.question = question /\ q'.refusals = {} /\ q'.rows = {}
      /\ q'.left = {} /\ q'.status = "none" /\ q'.at = first
  BY <1>1, <1>2 DEF IsShape, Fields
<1>6. Kind' = question.kind /\ ~Answered'
  BY <1>5 DEF Kind, Answered
<1>7. KindInv' /\ StatusInv'
  BY <1>1, <1>3, <1>5, <1>6, DatesAreNumbers DEF KindInv, StatusInv
<1>8. AtInv' /\ CollectInv'
  BY <1>4, <1>5, <1>6 DEF AtInv, CollectInv, Witnessed
<1>9. OneStoreInv' /\ CandidateInv' /\ AnswerIsWitnessed'
  BY <1>4, <1>5, <1>6 DEF OneStoreInv, CandidateInv, AnswerIsWitnessed
<1> QED
  BY <1>5, <1>7, <1>8, <1>9 DEF QuestionInv, IsShape, Shape

LEMMA AnswerStays ==
  ASSUME QuestionInv, Answered, q' = q, seen' = seen
  PROVE  AnswerIsWitnessed'
<1>1. q.family \in DOMAIN FamilyKinds
  BY DEF QuestionInv, KindInv
<1>2. SameSubject
  BY DEF SameSubject
<1>3. \A in \in seen : Meant(in, FALSE)' = Meant(in, FALSE)
  <2>1. CASE q.family # "service"
    BY <1>1, <1>2, <2>1, MeantFrame
  <2>2. CASE q.family = "service"
    BY <1>2, <2>2, ServiceMeantFrame DEF Meant
  <2> QED
    BY <2>1, <2>2
<1>4. \A x \in q.answer : \E in \in seen : x \in Meant(in, FALSE)
  BY DEF QuestionInv, AnswerIsWitnessed
<1> QED
  BY <1>3, <1>4 DEF AnswerIsWitnessed

\* Whatever else is published, what was read is a row of a store of the time.
LEMMA Stays ==
  ASSUME QuestionInv, q' = q, seen \subseteq seen', Running => store' \in seen', \A in \in seen' : IsStore(in),
         Answered => seen' = seen
  PROVE  QuestionInv'
<1>1. SameSubject /\ Kind' = Kind /\ Running' = Running /\ Answered' = Answered /\ q'.left = q.left /\ q'.question = q.question
  BY DEF SameSubject, Kind, Running, Answered
<1>2. Shape' /\ KindInv' /\ StatusInv' /\ AtInv'
  BY <1>1 DEF QuestionInv, Shape, KindInv, StatusInv, AtInv
<1>3. CollectInv'
  <2>1. \A in : Rows(in)' = Rows(in)
    BY <1>1, RowsFrame
  <2>2. Witnessed => Witnessed'
    BY <2>1 DEF Witnessed
  <2> QED
    BY <1>1, <2>2 DEF QuestionInv, CollectInv
<1>4. OneStoreInv'
  <2>1. \A in : Evidence(in)' = Evidence(in)
    BY <1>1, EvidenceFrame DEF SameSubject
  <2>2. \A in : ServiceRows(in)' = ServiceRows(in)
    BY <1>1, ServiceFrame
  <2>3. \A in : LabelsOf(in, Represented(q.rows))' = LabelsOf(in, Represented(q.rows))
    BY DEF LabelsOf, Represented
  <2> QED
    BY <1>1, <2>1, <2>2, <2>3 DEF QuestionInv, OneStoreInv
<1>5. CandidateInv'
  <2>1. \A in, m : Calls(in, m)' = Calls(in, m) /\ Serves(in, m)' = Serves(in, m)
    BY <1>1, CandidateFrame
  <2> QED
    BY <1>1, <2>1 DEF QuestionInv, CandidateInv
<1>6. AnswerIsWitnessed'
  BY <1>1, AnswerStays DEF AnswerIsWitnessed
<1> QED
  BY <1>2, <1>3, <1>4, <1>5, <1>6 DEF QuestionInv

LEMMA PublishStep ==
  ASSUME QuestionInv, NEW graph \in DOMAIN Graphs[Kind], Kind \in DOMAIN Graphs, NEW content \in Graphs[Kind][graph],
         Publish(graph, content)
  PROVE  QuestionInv'
<1>1. Running
  BY DEF Publish, Querying, Running
<1>2. ~Answered
  BY <1>1 DEF QuestionInv, StatusInv, Running
<1>3. store \in seen /\ IsStore(store)
  BY <1>1 DEF QuestionInv, StatusInv
<1>4. graph \in DatedGraphs => DatedRows(content)
  BY DatesAreNumbers
<1>5. store' = [store EXCEPT ![graph] = content]
  BY DEF Publish
<1>6. IsStore(store')
  <2>1. store = [g \in DOMAIN store |-> store[g]] /\ \A g \in DatedGraphs : g \in DOMAIN store /\ DatedRows(store[g])
    BY <1>3 DEF IsStore
  <2>2. DOMAIN store' = DOMAIN store
    BY <1>5, <2>1
  <2>3. store' = [g \in DOMAIN store' |-> store'[g]]
    BY <1>5, <2>1
  <2>4. \A g \in DatedGraphs : DatedRows(store'[g])
    BY <1>4, <1>5, <2>1
  <2> QED
    BY <2>1, <2>2, <2>3, <2>4 DEF IsStore
<1>7. \A in \in seen' : IsStore(in)
  BY <1>6 DEF QuestionInv, StatusInv, Publish
<1> QED
  BY <1>2, <1>7, Stays DEF Publish

LEMMA NextInv ==
  ASSUME QuestionInv, [QuestionNext]_questionVars
  PROVE  QuestionInv'
<1>1. ASSUME UNCHANGED questionVars PROVE QuestionInv'
  BY <1>1, Stays DEF questionVars, QuestionInv, StatusInv
<1>2. ASSUME QueryFails PROVE QuestionInv'
  BY <1>2, Fails DEF QueryFails, Read
<1> QED
  BY <1>1, <1>2, PlanStepInv, ExecuteStep, PublishStep, MemberStepInv, PartyStepInv, HouseStepInv, TenureStepInv,
     ServiceStepInv, BillStepInv DEF QuestionNext

\* Whatever graphs the pipeline publishes between the queries of a question, and
\* however often, each answer the service gives is one that the evidence of some
\* store of that time shows: for any questions, stores and bounds.
THEOREM AnswersWitnessed == QuestionSpec => []AnswerIsWitnessed
<1>1. QuestionSpec => []QuestionInv
  BY InitInv, NextInv, PTL DEF QuestionSpec
<1>2. QuestionInv => AnswerIsWitnessed
  BY DEF QuestionInv
<1> QED
  BY <1>1, <1>2, PTL

----------------------------------------------------------------------------
\* The catalogue of runs

USE LegislationIsEndpoint, NoRunIsFresh, TimeIsPositive

LEMMA TypeInit == Init => TypeOK
BY DEF Init, TypeOK, Meta, NoMeta, RunKind, Claims, NoClaims, Status, Terminal, Finalization, Outcome, PC

\* Column and process types are kept by every step.
LEMMA TypeStep == TypeOK /\ [Next]_vars => TypeOK'
<1> SUFFICES ASSUME TypeOK, [Next]_vars PROVE TypeOK'
  OBVIOUS
<1> USE DEF runVars, authorityVars, resourceVars, catalogVars, processVars, Goto, Exit, PC
<1> self \in RunId \/ pc = "idle"
  BY DEF TypeOK
<1>1. ASSUME NEW e \in Endpoint, NEW k \in RunKind, NEW r \in RunId, NEW t \in Time,
             StartRun(e, k, r, t)
      PROVE  TypeOK'
  BY <1>1 DEF StartRun, TypeOK, Status, Terminal, Meta, Outcome
<1>2. ASSUME NEW b \in Bill, ObserveResource(b) PROVE TypeOK'
  BY <1>2 DEF ObserveResource, TypeOK
<1>3. CASE RecordQuarantine
  BY <1>3 DEF RecordQuarantine, TypeOK, Outcome
<1>4. CASE BeginPublication
  BY <1>4 DEF BeginPublication, TypeOK
<1>5. ASSUME NEW r \in RunId, RetrySucceeded(r) PROVE TypeOK'
  BY <1>5 DEF RetrySucceeded, TypeOK
<1>6. CASE Finalize
  BY <1>6 DEF Finalize, CatalogStep, TypeOK, Outcome
<1>7. CASE FailUnpublished
  BY <1>7 DEF FailUnpublished, TypeOK, Status, Terminal, Outcome
<1>8. CASE FailPublishing
  BY <1>8 DEF FailPublishing, CatalogStep, TypeOK
<1>9. CASE ReplayPut
  BY <1>9 DEF ReplayPut, Replace, TypeOK
<1>10. CASE PublishPut
  BY <1>10 DEF PublishPut, Replace, TypeOK
<1>11. ASSUME MarkCatalogClean
       PROVE  /\ status' \in [RunId -> Status]
              /\ cursor' \in Time \cup {0}
              /\ lastSuccess' \in [Endpoint -> RunId \cup {NoRun}]
              /\ lastComplete' \in [Endpoint -> RunId \cup {NoRun}]
              /\ lastSeen' \in [Bill -> RunId \cup {NoRun}]
              /\ presence' \in [Bill -> {"unknown", "present", "missing", "confirmed_missing"}]
              /\ lastMissing' \in [Bill -> RunId \cup {NoRun}]
              /\ observed' \subseteq RunId \X Bill
              /\ catState' = "clean" /\ catPublished' = catPending
              /\ catPending' = catPending /\ finalization' = {}
              /\ meta' = meta /\ open' = open
  <2>1. CASE finalization = {}
    BY <1>11, <2>1 DEF MarkCatalogClean, TypeOK
  <2>2. ASSUME NEW f \in finalization, CompleteRun(f) PROVE <1>11!2
    <3>1. f \in Finalization /\ f.run \in RunId /\ f.cursor \in Time \cup {0}
      BY DEF TypeOK, Finalization
    <3>2. status' \in [RunId -> Status]
      BY <2>2, <3>1 DEF CompleteRun, TypeOK, StatusOf, Status, Terminal
    <3>3. /\ cursor' \in Time \cup {0}
          /\ lastSuccess' \in [Endpoint -> RunId \cup {NoRun}]
          /\ lastComplete' \in [Endpoint -> RunId \cup {NoRun}]
      BY <2>2, <3>1 DEF CompleteRun, ApplyAuthority, TypeOK
    <3>4. /\ lastSeen' \in [Bill -> RunId \cup {NoRun}]
          /\ presence' \in [Bill -> {"unknown", "present", "missing", "confirmed_missing"}]
          /\ lastMissing' \in [Bill -> RunId \cup {NoRun}]
          /\ observed' \subseteq RunId \X Bill
      BY <2>2, <3>1 DEF CompleteRun, ApplyAuthority, MarkAbsent, TypeOK
    <3> QED BY <1>11, <3>2, <3>3, <3>4 DEF MarkCatalogClean
  <2> QED BY <1>11, <2>1, <2>2 DEF MarkCatalogClean
<1>12. CASE ReplayVerified
  BY <1>11, <1>12 DEF ReplayVerified, TypeOK
<1>13. CASE PublishVerified
  BY <1>11, <1>13 DEF PublishVerified, TypeOK, Outcome
<1>14. CASE VerifyFailed
  BY <1>14 DEF VerifyFailed, TypeOK
<1>15. CASE StageFinalization
  <2>1. self \in RunId
    BY <1>15 DEF StageFinalization
  <2>2. CatalogFor(self, "failed") \in Claims /\ CatalogFor(self, StatusOf(outcome)) \in Claims
    BY <2>1 DEF CatalogFor, Claims, TypeOK, Status, Terminal, StatusOf
  <2>3. PlannedCursor \in Time \cup {0} /\ PlannedScan \in BOOLEAN
    BY <2>1 DEF PlannedCursor, PlannedScan, TypeOK, Meta
  <2>4. finalization' \subseteq Finalization
    BY <1>15, <2>1, <2>2, <2>3 DEF StageFinalization, Finalization, TypeOK
  <2> QED BY <1>15, <2>2, <2>4 DEF StageFinalization, TypeOK
<1>16. CASE StageFailedRun
  <2>1. CatalogFor(self, "failed") \in Claims
    BY <1>16 DEF StageFailedRun, CatalogFor, Claims, TypeOK, Status, Terminal
  <2> QED BY <1>16, <2>1 DEF StageFailedRun, TypeOK, Status, Terminal
<1>17. CASE FailLocally
  BY <1>17 DEF FailLocally, TypeOK, Status, Terminal, Outcome
<1>18. CASE FailPendingFinalization
  <2>1. PICK f \in finalization : catPending' = f.failure
    BY <1>18 DEF FailPendingFinalization
  <2>2. f.failure \in Claims
    BY DEF TypeOK, Finalization
  <2> QED BY <1>18, <2>1, <2>2 DEF FailPendingFinalization, TypeOK, Status, Terminal, Outcome
<1>19. CASE LeavePending
  BY <1>19 DEF LeavePending, TypeOK, Outcome
<1>20. CASE Crash
  BY <1>20 DEF Crash, TypeOK, Outcome
<1>21. CASE UNCHANGED vars
  BY <1>21 DEF vars, TypeOK
<1> QED
  BY <1>1, <1>2, <1>3, <1>4, <1>5, <1>6, <1>7, <1>8, <1>9, <1>10, <1>12, <1>13, <1>14,
     <1>15, <1>16, <1>17, <1>18, <1>19, <1>20, <1>21 DEF Next

\* Every column of Core State and every variable of the process keeps its type.
THEOREM TypeCorrect == Spec => []TypeOK
BY TypeInit, TypeStep, PTL DEF Spec

----------------------------------------------------------------------------
\* The inductive invariant

LEMMA InvInit == Init => IInv
BY TypeInit DEF Init, IInv, MetaFits, KindsOf, NoMeta, ProcessInv, FinalizationReplayable,
   PlanInv, PendingInv, SuccessIsPublished, PublishedClaimsHold, RemoteInv,
   AuthorityIsEarned, LiveRunIsAlone, NoClaims, Terminal

\* What a step of mark_catalog_clean does to the runs.
CleanResult ==
  /\ finalization' = {} /\ catState' = "clean" /\ catPublished' = catPending
  /\ meta' = meta
  /\ \A r \in RunId :
       /\ (\A f \in finalization : f.run # r) => status'[r] = status[r]
       /\ (\E f \in finalization : f.run = r) => /\ status[r] = "running"
                                                 /\ status'[r] = catPending[r]
                                                 /\ status'[r] \in {"succeeded", "degraded"}

LEMMA CleanEffect == IInv /\ MarkCatalogClean => CleanResult
<1> SUFFICES ASSUME IInv, MarkCatalogClean PROVE CleanResult
  OBVIOUS
<1>1. CASE finalization = {}
  BY <1>1 DEF MarkCatalogClean, CleanResult
<1>2. ASSUME NEW f \in finalization, CompleteRun(f) PROVE CleanResult
  <2>1. finalization = {f} /\ f.run \in RunId /\ f.outcome \in Outcome
    BY DEF IInv, FinalizationReplayable, TypeOK, Finalization
  <2> QED BY <1>2, <2>1 DEF MarkCatalogClean, CompleteRun, StatusOf, Outcome, IInv, TypeOK,
             CleanResult
<1> QED BY <1>1, <1>2 DEF MarkCatalogClean

LEMMA MetaStep == IInv /\ [Next]_vars => MetaFits'
<1> SUFFICES ASSUME IInv, [Next]_vars PROVE MetaFits'
  OBVIOUS
<1> USE DEF runVars, MetaFits, IInv
<1>1. ASSUME NEW e \in Endpoint, NEW k \in RunKind, NEW r \in RunId, NEW t \in Time,
             StartRun(e, k, r, t)
      PROVE  MetaFits'
  BY <1>1 DEF StartRun, TypeOK
<1>2. CASE meta' = meta
  BY <1>2
<1> QED
  BY <1>1, <1>2 DEF Next, vars, ObserveResource, RecordQuarantine, BeginPublication,
     RetrySucceeded, Finalize, FailUnpublished, FailPublishing, ReplayPut, ReplayVerified,
     PublishPut, PublishVerified, MarkCatalogClean, VerifyFailed, StageFinalization,
     StageFailedRun, FailLocally, FailPendingFinalization, LeavePending, Crash

LEMMA ProcessStep == IInv /\ [Next]_vars => ProcessInv'
<1> SUFFICES ASSUME IInv, [Next]_vars PROVE ProcessInv'
  OBVIOUS
<1> USE DEF runVars, authorityVars, resourceVars, catalogVars, processVars, Goto, Exit,
            ProcessInv
<1>0. TypeOK /\ ProcessInv /\ FinalizationReplayable
  BY DEF IInv
<1>1. ASSUME NEW e \in Endpoint, NEW k \in RunKind, NEW r \in RunId, NEW t \in Time,
             StartRun(e, k, r, t)
      PROVE  ProcessInv'
  BY <1>0, <1>1 DEF StartRun, TypeOK, FinalizationReplayable
<1>2. ASSUME NEW b \in Bill, ObserveResource(b) PROVE ProcessInv'
  BY <1>0, <1>2 DEF ObserveResource
<1>3. CASE RecordQuarantine
  BY <1>0, <1>3 DEF RecordQuarantine
<1>4. CASE BeginPublication
  BY <1>0, <1>4 DEF BeginPublication
<1>5. ASSUME NEW r \in RunId, RetrySucceeded(r) PROVE ProcessInv'
  BY <1>0, <1>5 DEF RetrySucceeded
<1>6. CASE Finalize
  BY <1>0, <1>6 DEF Finalize, CatalogStep, TypeOK
<1>7. CASE FailPublishing
  BY <1>0, <1>7 DEF FailPublishing, CatalogStep, TypeOK
<1>8. CASE ReplayPut
  BY <1>0, <1>8 DEF ReplayPut, Replace
<1>9. CASE PublishPut
  BY <1>0, <1>9 DEF PublishPut, Replace
<1>10. CASE ReplayVerified
  <2>1. CleanResult
    BY <1>10, CleanEffect DEF ReplayVerified
  <2>2. self \in RunId
    BY <1>0, <1>10 DEF ReplayVerified, TypeOK
  <2> QED BY <1>0, <1>10, <2>1, <2>2 DEF ReplayVerified, CleanResult
<1>11. CASE VerifyFailed
  BY <1>0, <1>11 DEF VerifyFailed
<1>12. CASE StageFinalization
  BY <1>0, <1>12 DEF StageFinalization
<1>13. CASE StageFailedRun
  BY <1>0, <1>13 DEF StageFailedRun
<1>14. CASE pc' = "idle"
  BY <1>14
<1>15. CASE UNCHANGED vars
  BY <1>0, <1>15 DEF vars
<1> QED
  BY <1>1, <1>2, <1>3, <1>4, <1>5, <1>6, <1>7, <1>8, <1>9, <1>10, <1>11, <1>12, <1>13,
     <1>14, <1>15
  DEF Next, FailUnpublished, PublishVerified, FailLocally, FailPendingFinalization,
      LeavePending, Crash

\* The staged row stays replayable and keeps describing the pending payload.
LEMMA FinalizationStep == IInv /\ [Next]_vars => FinalizationReplayable' /\ PlanInv'
<1> SUFFICES ASSUME IInv, [Next]_vars PROVE FinalizationReplayable' /\ PlanInv'
  OBVIOUS
<1> USE DEF runVars, authorityVars, resourceVars, catalogVars, FinalizationReplayable, PlanInv
<1>0. TypeOK /\ ProcessInv /\ FinalizationReplayable /\ PlanInv
  BY DEF IInv
<1>a. \A f \in finalization : f.run \in RunId
  BY <1>0 DEF TypeOK, Finalization
<1>1. ASSUME NEW e \in Endpoint, NEW k \in RunKind, NEW r \in RunId, NEW t \in Time,
             StartRun(e, k, r, t)
      PROVE  FinalizationReplayable' /\ PlanInv'
  BY <1>0, <1>a, <1>1 DEF StartRun, Interrupted, TypeOK
<1>2. CASE ReplayVerified \/ PublishVerified
  BY <1>2, CleanEffect DEF ReplayVerified, PublishVerified, CleanResult
<1>3. CASE StageFinalization
  <2>1. self \in RunId /\ status[self] = "running"
    BY <1>0, <1>3 DEF StageFinalization, TypeOK, ProcessInv
  <2>2. /\ CatalogFor(self, "failed")[self] = "failed"
        /\ CatalogFor(self, StatusOf(outcome))[self] = StatusOf(outcome)
        /\ \A r \in RunId \ {self} : CatalogFor(self, "failed")[r]
                                       = CatalogFor(self, StatusOf(outcome))[r]
    BY <1>0, <2>1 DEF CatalogFor, TypeOK
  <2>3. PlannedCursor # 0 => /\ outcome = "success" /\ meta[self].kind = "incremental"
                             /\ meta[self].upper = PlannedCursor
                             /\ PlannedCursor >= cursor
    BY <1>3 DEF StageFinalization, PlannedCursor, MayComplete
  <2>4. /\ FinalizationReplayable'
        /\ UNCHANGED <<status, meta, cursor>>
    BY <1>3, <2>1, <2>2, <2>3 DEF StageFinalization
  <2> QED BY <1>3, <2>1, <2>2, <2>3, <2>4 DEF StageFinalization
<1>4. CASE FailUnpublished
  BY <1>0, <1>4 DEF FailUnpublished, ProcessInv, TypeOK
<1>5. CASE FailLocally
  BY <1>0, <1>5 DEF FailLocally, ProcessInv, TypeOK
<1>6. CASE StageFailedRun \/ FailPendingFinalization
  BY <1>6 DEF StageFailedRun, FailPendingFinalization
<1>7. CASE UNCHANGED <<status, meta, cursor, catalogVars>>
  BY <1>0, <1>7
<1> QED
  BY <1>1, <1>2, <1>3, <1>4, <1>5, <1>6, <1>7
  DEF Next, vars, ObserveResource, RecordQuarantine, BeginPublication, RetrySucceeded,
      Finalize, FailPublishing, ReplayPut, PublishPut, VerifyFailed, LeavePending, Crash

\* The pending payload stays at most the staged run ahead of the database.
LEMMA PendingStep == IInv /\ [Next]_vars => PendingInv'
<1> SUFFICES ASSUME IInv, [Next]_vars PROVE PendingInv'
  OBVIOUS
<1> USE DEF runVars, authorityVars, resourceVars, catalogVars, PendingInv, Terminal
<1>0. TypeOK /\ ProcessInv /\ PendingInv /\ PublishedClaimsHold
  BY DEF IInv
<1>1. ASSUME NEW e \in Endpoint, NEW k \in RunKind, NEW r \in RunId, NEW t \in Time,
             StartRun(e, k, r, t)
      PROVE  PendingInv'
  BY <1>0, <1>1 DEF StartRun, Interrupted, TypeOK
<1>2. CASE ReplayVerified \/ PublishVerified
  BY <1>2, CleanEffect DEF ReplayVerified, PublishVerified, CleanResult
<1>3. CASE StageFinalization
  <2>1. self \in RunId /\ status[self] = "running" /\ status' = status
    BY <1>0, <1>3 DEF StageFinalization, TypeOK, ProcessInv
  <2>2. /\ \E f \in finalization' : f.run = self
        /\ catPending' = [status EXCEPT ![self] = StatusOf(outcome)]
        /\ catPublished' = catPublished
    BY <1>3 DEF StageFinalization, CatalogFor
  <2> QED BY <1>0, <2>1, <2>2 DEF PublishedClaimsHold, TypeOK
<1>4. CASE StageFailedRun
  <2>1. self \in RunId /\ status[self] = "running"
    BY <1>0, <1>4 DEF StageFailedRun, TypeOK, ProcessInv
  <2> QED BY <1>0, <1>4, <2>1 DEF StageFailedRun, CatalogFor, PublishedClaimsHold, TypeOK
<1>5. CASE FailUnpublished \/ FailLocally
  BY <1>0, <1>5 DEF FailUnpublished, FailLocally, ProcessInv, TypeOK
<1>6. CASE FailPendingFinalization
  <2>1. PICK f \in finalization : /\ f.run = self /\ status[self] = "running"
                                  /\ catPending' = f.failure
    BY <1>6 DEF FailPendingFinalization
  <2>2. /\ finalization = {f} /\ self \in RunId /\ f.failure[self] = "failed"
        /\ \A r \in RunId \ {self} : f.failure[r] = catPending[r]
    BY <1>6, <2>1 DEF IInv, FinalizationReplayable, PlanInv, FailPendingFinalization, TypeOK,
                      Finalization
  <2> QED BY <1>0, <1>6, <2>1, <2>2 DEF FailPendingFinalization, TypeOK, PublishedClaimsHold
<1>7. CASE UNCHANGED <<status, catalogVars>>
  BY <1>0, <1>7
<1> QED
  BY <1>1, <1>2, <1>3, <1>4, <1>5, <1>6, <1>7
  DEF Next, vars, ObserveResource, RecordQuarantine, BeginPublication, RetrySucceeded,
      Finalize, FailPublishing, ReplayPut, PublishPut, VerifyFailed, LeavePending, Crash

\* The verified catalog and the durable outcomes stay in step.
LEMMA PublishedStep ==
  IInv /\ [Next]_vars => SuccessIsPublished' /\ PublishedClaimsHold' /\ RemoteInv'
<1> SUFFICES ASSUME IInv, [Next]_vars
             PROVE  SuccessIsPublished' /\ PublishedClaimsHold' /\ RemoteInv'
  OBVIOUS
<1> USE DEF runVars, authorityVars, resourceVars, catalogVars, SuccessIsPublished,
            PublishedClaimsHold, RemoteInv, Terminal
<1>0. TypeOK /\ ProcessInv /\ SuccessIsPublished /\ PublishedClaimsHold /\ RemoteInv
  BY DEF IInv
<1>1. ASSUME NEW e \in Endpoint, NEW k \in RunKind, NEW r \in RunId, NEW t \in Time,
             StartRun(e, k, r, t)
      PROVE  SuccessIsPublished' /\ PublishedClaimsHold' /\ RemoteInv'
  BY <1>0, <1>1 DEF StartRun, Interrupted, TypeOK
<1>2. CASE ReplayVerified \/ PublishVerified
  <2>1. /\ CleanResult /\ catState = "dirty"
        /\ remote' = remote /\ remote = catPending
    BY <1>2, CleanEffect DEF ReplayVerified, PublishVerified, MarkCatalogClean
  <2>2. SuccessIsPublished' /\ PublishedClaimsHold'
    BY <1>0, <2>1 DEF CleanResult, IInv, PendingInv
  <2>3. RemoteInv'
    BY <2>1 DEF CleanResult
  <2> QED BY <2>2, <2>3
<1>3. CASE StageFailedRun
  BY <1>0, <1>3 DEF StageFailedRun, ProcessInv, TypeOK
<1>4. CASE FailUnpublished \/ FailLocally
  BY <1>0, <1>4 DEF FailUnpublished, FailLocally, ProcessInv, TypeOK
<1>5. CASE FailPendingFinalization
  BY <1>0, <1>5 DEF FailPendingFinalization, TypeOK
<1>6. CASE ReplayPut \/ PublishPut
  BY <1>0, <1>6 DEF ReplayPut, PublishPut, ProcessInv
<1>7. CASE StageFinalization
  BY <1>0, <1>7 DEF StageFinalization
<1>8. CASE UNCHANGED <<status, catalogVars, remote>>
  BY <1>0, <1>8
<1> QED
  BY <1>1, <1>2, <1>3, <1>4, <1>5, <1>6, <1>7, <1>8
  DEF Next, vars, ObserveResource, RecordQuarantine, BeginPublication, RetrySucceeded,
      Finalize, FailPublishing, VerifyFailed, LeavePending, Crash

\* Authority columns keep naming runs that earned them.
LEMMA AuthorityStep == IInv /\ [Next]_vars => AuthorityIsEarned'
<1> SUFFICES ASSUME IInv, [Next]_vars PROVE AuthorityIsEarned'
  OBVIOUS
<1> USE DEF runVars, authorityVars, resourceVars, catalogVars
<1>0. TypeOK /\ ProcessInv /\ AuthorityIsEarned /\ MetaFits
  BY DEF IInv
<1>a. ASSUME UNCHANGED authorityVars,
             \A r \in RunId : status[r] = "succeeded" => /\ status'[r] = "succeeded"
                                                        /\ meta'[r] = meta[r]
      PROVE  AuthorityIsEarned'
  <2>1. /\ \A e \in Endpoint : lastSuccess[e] \in RunId \cup {NoRun}
        /\ \A e \in Endpoint : lastComplete[e] \in RunId \cup {NoRun}
    BY <1>0 DEF TypeOK
  <2> QED BY <1>0, <1>a, <2>1 DEF AuthorityIsEarned
<1>1. ASSUME NEW e \in Endpoint, NEW k \in RunKind, NEW r \in RunId, NEW t \in Time,
             StartRun(e, k, r, t)
      PROVE  AuthorityIsEarned'
  BY <1>0, <1>1, <1>a DEF StartRun, Interrupted, TypeOK
<1>2. CASE MarkCatalogClean
  <2>1. CASE finalization = {}
    BY <1>2, <2>1, <1>a DEF MarkCatalogClean
  <2>2. ASSUME NEW f \in finalization, CompleteRun(f) PROVE AuthorityIsEarned'
    <3>1. /\ f.run \in RunId /\ f.outcome \in Outcome /\ f.cursor \in Time \cup {0}
          /\ meta[f.run] \in Meta /\ meta' = meta
          /\ status[f.run] = "running"
          /\ status' = [status EXCEPT ![f.run] = StatusOf(f.outcome)]
      BY <1>0, <1>2, <2>2 DEF TypeOK, Finalization, MarkCatalogClean, CompleteRun
    <3>2. \A r \in RunId : status[r] = "succeeded" => status'[r] = "succeeded"
      BY <1>0, <3>1 DEF TypeOK
    <3>3. CASE f.outcome # "success"
      BY <1>2, <2>2, <3>1, <3>2, <3>3, <1>a DEF CompleteRun
    <3>4. CASE f.outcome = "success"
      <4> DEFINE e == meta[f.run].endpoint
      <4>1. status'[f.run] = "succeeded" /\ e \in Endpoint
        BY <1>0, <3>1, <3>4 DEF StatusOf, Meta, TypeOK
      <4>2. ApplyAuthority(f)
        BY <2>2, <3>4 DEF CompleteRun
      <4>3. /\ \A d \in Endpoint : lastSuccess'[d] = IF d = e THEN f.run ELSE lastSuccess[d]
            /\ \A d \in Endpoint : lastComplete'[d] \in {f.run, lastComplete[d]}
            /\ \A d \in Endpoint : lastComplete'[d] # lastComplete[d] =>
                 d = e /\ lastComplete'[d] = f.run /\ meta[f.run].kind \in {"reconcile", "full"}
        BY <1>0, <4>1, <4>2 DEF ApplyAuthority, TypeOK
      <4>4. \A d \in Endpoint : lastSuccess'[d] # NoRun =>
              status'[lastSuccess'[d]] = "succeeded" /\ meta'[lastSuccess'[d]].endpoint = d
        BY <1>0, <3>1, <3>2, <4>1, <4>3 DEF AuthorityIsEarned, TypeOK
      <4>5. \A d \in Endpoint : lastComplete'[d] # NoRun =>
              /\ status'[lastComplete'[d]] = "succeeded"
              /\ meta'[lastComplete'[d]].endpoint = d
              /\ meta'[lastComplete'[d]].kind \in {"reconcile", "full"}
        BY <1>0, <3>1, <3>2, <4>1, <4>3 DEF AuthorityIsEarned, TypeOK
      <4>6. CASE f.cursor = 0
        BY <1>0, <3>1, <3>2, <4>2, <4>4, <4>5, <4>6 DEF ApplyAuthority, AuthorityIsEarned
      <4>7. CASE f.cursor # 0
        <5>1. /\ cursor' = f.cursor /\ meta[f.run].kind = "incremental"
              /\ meta[f.run].upper = f.cursor
          BY <2>2, <4>2, <4>7 DEF ApplyAuthority, IInv, PlanInv
        <5>2. meta[f.run].endpoint = Legislation
          BY <1>0, <3>1, <5>1 DEF MetaFits, KindsOf
        <5> QED BY <3>1, <4>1, <4>4, <4>5, <5>1, <5>2 DEF AuthorityIsEarned
      <4> QED BY <4>6, <4>7
    <3> QED BY <3>3, <3>4
  <2> QED BY <1>2, <2>1, <2>2 DEF MarkCatalogClean
<1>3. CASE /\ status' = [status EXCEPT ![self] = "failed"] /\ status[self] = "running"
           /\ meta' = meta /\ UNCHANGED authorityVars
  BY <1>0, <1>3, <1>a DEF TypeOK
<1>4. CASE StageFailedRun \/ FailUnpublished \/ FailLocally
  <2>1. status[self] = "running"
    BY <1>0, <1>4 DEF StageFailedRun, FailUnpublished, FailLocally, ProcessInv
  <2> QED BY <1>3, <1>4, <2>1 DEF StageFailedRun, FailUnpublished, FailLocally
<1>5. CASE FailPendingFinalization
  BY <1>3, <1>5 DEF FailPendingFinalization
<1>6. CASE UNCHANGED <<status, meta, authorityVars>>
  BY <1>a, <1>6
<1> QED
  BY <1>1, <1>2, <1>4, <1>5, <1>6
  DEF Next, vars, ObserveResource, RecordQuarantine, BeginPublication, RetrySucceeded,
      Finalize, FailPublishing, ReplayPut, ReplayVerified, PublishPut, PublishVerified,
      VerifyFailed, StageFinalization, LeavePending, Crash

\* The live run stays the only unstaged running row of its endpoint.
LEMMA AloneStep == IInv /\ [Next]_vars => LiveRunIsAlone'
<1> SUFFICES ASSUME IInv, [Next]_vars PROVE LiveRunIsAlone'
  OBVIOUS
<1> USE DEF runVars, authorityVars, resourceVars, catalogVars, processVars, Goto, Exit,
            LiveRunIsAlone
<1>0. TypeOK /\ LiveRunIsAlone
  BY DEF IInv
<1>1. ASSUME NEW e \in Endpoint, NEW k \in RunKind, NEW r \in RunId, NEW t \in Time,
             StartRun(e, k, r, t)
      PROVE  LiveRunIsAlone'
  BY <1>0, <1>1 DEF StartRun, Interrupted, TypeOK
<1>2. CASE ReplayVerified
  <2>1. CleanResult /\ UNCHANGED self
    BY <1>2, CleanEffect DEF ReplayVerified
  <2> QED BY <1>0, <2>1 DEF CleanResult
<1>3. CASE self' = NoRun
  BY <1>3
<1>4. CASE StageFinalization
  BY <1>0, <1>4 DEF StageFinalization
<1>5. CASE StageFailedRun
  BY <1>0, <1>5 DEF StageFailedRun, TypeOK
<1>6. CASE UNCHANGED <<status, meta, finalization, self>>
  BY <1>0, <1>6
<1> QED
  BY <1>1, <1>2, <1>3, <1>4, <1>5, <1>6
  DEF Next, vars, ObserveResource, RecordQuarantine, BeginPublication, RetrySucceeded,
      Finalize, FailUnpublished, FailPublishing, ReplayPut, Replace, PublishPut,
      PublishVerified, VerifyFailed, FailLocally, FailPendingFinalization, LeavePending, Crash

LEMMA InvStep == IInv /\ [Next]_vars => IInv'
BY TypeStep, MetaStep, ProcessStep, FinalizationStep, PendingStep, PublishedStep,
   AuthorityStep, AloneStep DEF IInv

LEMMA InvHolds == Spec => []IInv
BY InvInit, InvStep, PTL DEF Spec

----------------------------------------------------------------------------
\* A finalization staged before a crash can always be replayed.
THEOREM Replayable == Spec => []FinalizationReplayable
<1>1. IInv => FinalizationReplayable
  BY DEF IInv
<1> QED BY <1>1, InvHolds, PTL

\* No run succeeds durably before its success is verified in the triple store.
THEOREM NoUnpublishedSuccess == Spec => []SuccessIsPublished
<1>1. IInv => SuccessIsPublished
  BY DEF IInv
<1> QED BY <1>1, InvHolds, PTL

\* The verified catalog never claims an outcome the database does not hold.
THEOREM NoFalseClaim == Spec => []PublishedClaimsHold
<1>1. IInv => PublishedClaimsHold
  BY DEF IInv
<1> QED BY <1>1, InvHolds, PTL

\* A reader of the graph sees a claim the database does not hold only while
\* the catalog is dirty, due for a replay.
THEOREM OverclaimIsTransient == Spec => []OverclaimIsDirty
<1>1. IInv => OverclaimIsDirty
  BY DEF IInv, OverclaimIsDirty, RemoteInv, PublishedClaimsHold, TypeOK
<1> QED BY <1>1, InvHolds, PTL

\* Cursor, last success and completeness are held by runs that earned them.
THEOREM AuthorityEarned == Spec => []AuthorityIsEarned
<1>1. IInv => AuthorityIsEarned
  BY DEF IInv
<1> QED BY <1>1, InvHolds, PTL

\* No abandoned run of a live run's endpoint still reads as running.
THEOREM AloneWhileLive == Spec => []LiveRunIsAlone
<1>1. IInv => LiveRunIsAlone
  BY DEF IInv
<1> QED BY <1>1, InvHolds, PTL

\* Terminal outcomes are never rewritten and the cursor never moves back.
LEMMA StandStep ==
  IInv /\ [Next]_vars => [/\ \A r \in RunId : status[r] \in Terminal => status'[r] = status[r]
                          /\ cursor' >= cursor]_vars
<1> SUFFICES ASSUME IInv, [Next]_vars
             PROVE  /\ \A r \in RunId : status[r] \in Terminal => status'[r] = status[r]
                    /\ cursor' >= cursor
  OBVIOUS
<1> USE DEF runVars, authorityVars, resourceVars, catalogVars, Terminal
<1>0. TypeOK /\ ProcessInv /\ cursor \in Nat
  BY DEF IInv, TypeOK
<1>1. ASSUME NEW e \in Endpoint, NEW k \in RunKind, NEW r \in RunId, NEW t \in Time,
             StartRun(e, k, r, t)
      PROVE  /\ \A x \in RunId : status[x] \in Terminal => status'[x] = status[x]
             /\ cursor' >= cursor
  BY <1>0, <1>1 DEF StartRun, Interrupted
<1>2. CASE MarkCatalogClean
  <2>1. \A r \in RunId : status[r] \in Terminal => status'[r] = status[r]
    BY <1>2, CleanEffect DEF CleanResult
  <2>2. cursor' >= cursor
    BY <1>0, <1>2 DEF MarkCatalogClean, CompleteRun, ApplyAuthority
  <2> QED BY <2>1, <2>2
<1>3. CASE status' = [status EXCEPT ![self] = "failed"] /\ status[self] = "running"
           /\ cursor' = cursor
  BY <1>0, <1>3 DEF TypeOK
<1>4. CASE StageFailedRun \/ FailUnpublished \/ FailLocally
  <2>1. status[self] = "running"
    BY <1>0, <1>4 DEF StageFailedRun, FailUnpublished, FailLocally, ProcessInv
  <2> QED BY <1>3, <1>4, <2>1 DEF StageFailedRun, FailUnpublished, FailLocally
<1>5. CASE FailPendingFinalization
  BY <1>3, <1>5 DEF FailPendingFinalization
<1>6. CASE UNCHANGED <<status, cursor>>
  BY <1>0, <1>6
<1> QED
  BY <1>1, <1>2, <1>4, <1>5, <1>6
  DEF Next, vars, ObserveResource, RecordQuarantine, BeginPublication, RetrySucceeded,
      Finalize, FailPublishing, ReplayPut, ReplayVerified, PublishPut, PublishVerified,
      VerifyFailed, StageFinalization, LeavePending, Crash

\* Whatever later runs, replays and crashes do, history is not rewritten.
THEOREM HistoryStands == Spec => OutcomesAndCursorStand
BY InvHolds, StandStep, PTL DEF Spec, OutcomesAndCursorStand

----------------------------------------------------------------------------
\* RunCatalog implements RunLedger.

LEMMA LedgerInit == Init => Ledger!Init
BY DEF Init, Ledger!Init, Announced, NoClaims, Terminal

\* A step of mark_catalog_clean publishes true claims and retracts none.
LEMMA CleanAnnounces == IInv /\ MarkCatalogClean => Ledger!Announce(Announced')
<1> SUFFICES ASSUME IInv, MarkCatalogClean PROVE Ledger!Announce(Announced')
  OBVIOUS
<1>1. CleanResult /\ PendingInv /\ TypeOK /\ catState = "dirty"
  BY CleanEffect DEF IInv, MarkCatalogClean
<1>2. \A r \in RunId :
        Announced'[r] = IF catPending[r] \in Terminal THEN catPending[r] ELSE "none"
  BY <1>1 DEF CleanResult, Announced
<1>3. \A r \in RunId : Announced'[r] # "none" => Announced'[r] = status'[r]
  BY <1>1, <1>2 DEF CleanResult, PendingInv
<1>4. \A r \in RunId : status'[r] \in {"succeeded", "degraded"} => Announced'[r] = status'[r]
  BY <1>1, <1>2 DEF CleanResult, PendingInv, Terminal
<1>5. \A r \in RunId : Announced[r] # "none" => Announced'[r] = Announced[r]
  BY <1>1, <1>2 DEF PendingInv, Announced
<1> QED BY <1>3, <1>4, <1>5 DEF Ledger!Announce

LEMMA LedgerStep == IInv /\ [Next]_vars => [Ledger!Next]_(Ledger!vars)
<1> SUFFICES ASSUME IInv, [Next]_vars PROVE [Ledger!Next]_(Ledger!vars)
  OBVIOUS
<1> USE DEF runVars, authorityVars, resourceVars, catalogVars
<1>0. TypeOK /\ ProcessInv
  BY DEF IInv
<1>a. catPublished' = catPublished => Announced' = Announced
  BY DEF Announced
<1>1. ASSUME NEW e \in Endpoint, NEW k \in RunKind, NEW r \in RunId, NEW t \in Time,
             StartRun(e, k, r, t)
      PROVE  Ledger!Next
  <2>1. Interrupted(e) \in SUBSET RunId
    BY DEF Interrupted
  <2>2. Ledger!Begin(r, Interrupted(e))
    BY <1>1, <1>a DEF StartRun, Interrupted, Ledger!Begin
  <2> QED BY <2>1, <2>2 DEF Ledger!Next
<1>2. CASE MarkCatalogClean
  <2>1. Ledger!Announce(Announced')
    BY <1>2, CleanAnnounces
  <2>2. Announced' \in [RunId -> Ledger!Announcement]
    BY DEF Announced, Terminal, Ledger!Announcement
  <2>3. CASE finalization = {}
    <3>1. Ledger!Republish(Announced')
      BY <1>2, <2>1, <2>3 DEF MarkCatalogClean, Ledger!Republish
    <3> QED BY <2>2, <3>1 DEF Ledger!Next
  <2>4. ASSUME NEW f \in finalization, CompleteRun(f) PROVE Ledger!Next
    <3>1. f.run \in RunId /\ f.cursor \in Nat /\ cursor \in Nat
      <4>1. f \in Finalization /\ cursor \in Time \cup {0}
        BY <1>0 DEF TypeOK
      <4>2. f.run \in RunId /\ f.cursor \in Time \cup {0}
        BY <4>1 DEF Finalization
      <4>3. \A t \in Time \cup {0} : t \in Nat
        OBVIOUS
      <4> QED BY <4>1, <4>2, <4>3
    <3>2. StatusOf(f.outcome) \in {"succeeded", "degraded"}
      BY DEF StatusOf
    <3>3. cursor' >= cursor /\ (cursor' # cursor => StatusOf(f.outcome) = "succeeded")
      BY <2>4, <3>1 DEF CompleteRun, ApplyAuthority, StatusOf
    <3>4. /\ status[f.run] = "running"
          /\ status' = [status EXCEPT ![f.run] = StatusOf(f.outcome)]
      BY <2>4 DEF CompleteRun
    <3>5. Ledger!Commit(f.run, StatusOf(f.outcome), Announced')
      BY <2>1, <3>3, <3>4 DEF Ledger!Commit
    <3> QED BY <2>2, <3>1, <3>2, <3>5 DEF Ledger!Next
  <2> QED BY <1>2, <2>3, <2>4 DEF MarkCatalogClean
<1>3. ASSUME status' = [status EXCEPT ![self] = "failed"], status[self] = "running",
             self \in RunId, UNCHANGED <<catPublished, cursor>>
      PROVE  Ledger!Next
  <2>1. Ledger!Fail(self)
    BY <1>3, <1>a DEF Ledger!Fail
  <2> QED BY <1>3, <2>1 DEF Ledger!Next
<1>4. CASE StageFailedRun \/ FailUnpublished \/ FailLocally
  <2>1. status[self] = "running" /\ self \in RunId
    BY <1>0, <1>4 DEF StageFailedRun, FailUnpublished, FailLocally, ProcessInv, TypeOK
  <2> QED BY <1>3, <1>4, <2>1 DEF StageFailedRun, FailUnpublished, FailLocally
<1>5. CASE FailPendingFinalization
  <2>1. self \in RunId
    BY <1>0, <1>5 DEF FailPendingFinalization, TypeOK
  <2> QED BY <1>3, <1>5, <2>1 DEF FailPendingFinalization
<1>6. CASE UNCHANGED <<status, catPublished, cursor>>
  BY <1>6, <1>a DEF Ledger!vars
<1> QED
  BY <1>1, <1>2, <1>4, <1>5, <1>6
  DEF Next, vars, ObserveResource, RecordQuarantine, BeginPublication, RetrySucceeded,
      Finalize, FailPublishing, ReplayPut, ReplayVerified, PublishPut, PublishVerified,
      VerifyFailed, StageFinalization, LeavePending, Crash

\* Dirty payloads, lost acknowledgements and crashes are invisible in the
\* ledger: success, public announcement and cursor move in one step.
THEOREM CatalogImplementsLedger == Spec => ImplementsLedger
<1>1. Spec => Ledger!Init /\ [][Ledger!Next]_(Ledger!vars)
  BY LedgerInit, LedgerStep, InvHolds, PTL DEF Spec
<1> QED BY <1>1 DEF ImplementsLedger, Ledger!Spec
=============================================================================

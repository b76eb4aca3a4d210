-------------------- MODULE IdentityReconciliation_proofs --------------------
(***************************************************************************)
(* Proofs about IdentityReconciliation.  A row says under which edition of *)
(* the review file it was decided, so what it holds agrees with that       *)
(* edition whenever it was left; and a command that publishes leaves no    *)
(* entity of its input behind that is dirty or was decided on another one. *)
(***************************************************************************)
EXTENDS IdentityReconciliation, TLAPS

IsDirty(e) == rows[e] # Nothing /\ rows[e].dirty

\* An outcome or a row follows the human decision as far as there is one, and
\* is accepted without one for a Member only.
AsDecided(decision, row) ==
  /\ row.state = "rejected" <=> decision = Rejected
  /\ decision \in Acceptance => row.state = "accepted" /\ row.links.qid = decision.qid
  /\ kind # "member" /\ row.state = "accepted" =>
       /\ decision \in Acceptance /\ row.links.dbpedia = Nothing
       /\ row.links.wikipedia \in {Nothing, decision.page}
       /\ kind # "institution" => row.links.wikipedia = Nothing

\* What a row holds was decided under the review it names.
Justified(e, row) ==
  /\ row.state = "accepted" <=> row.links # Nothing
  /\ row.dirty => row.state \notin Unresolved /\ row.pending = row.links
  /\ row.state \notin Unresolved => row.review # Nothing
  /\ row.review # Nothing => AsDecided(row.review[e], row)
RowInv == \A e \in Entity : rows[e] # Nothing => Justified(e, rows[e])

Publishing == run.at \in {"put", "verify", "mark"}
Replaying == run.at = "replay" \/ (Publishing /\ run.next = "replay")
LookingUp == run.at = "lookup" \/ (Publishing /\ run.next = "lookup")

\* An entity decided on as the command sees it, and with nothing left to publish.
DecidedOn(e) == rows[e] # Nothing /\ rows[e].identity = source[e] /\ rows[e].review = review
Applied(e) == DecidedOn(e) /\ ~rows[e].dirty

\* The row a command publishes is dirty; when it is marked, its graph is there.
PublishingInv ==
  Publishing =>
    /\ run.publish /\ run.next \in {"replay", "lookup"}
    /\ run.entity \in run.todo /\ IsDirty(run.entity)
    /\ run.at = "mark" => /\ graph[run.entity] = rows[run.entity].pending
                          /\ JsonHash(rows[run.entity].pending) \in proofs[run.entity]

\* The replay takes every dirty row of the input.
ReplayInv ==
  Replaying =>
    /\ run.publish
    /\ \A e \in run.input : IsDirty(e) <=> e \in run.todo

\* The lookups find no row dirty but the recovered ones of a command that does
\* not publish, and what a publishing command has been through is applied.
LookupInv ==
  LookingUp =>
    /\ \A e \in run.todo : IsDirty(e) => \/ e \in run.recovered /\ ~run.publish
                                         \/ Publishing /\ e = run.entity
    /\ run.publish => \A e \in run.input \ run.todo : Applied(e)
    /\ Publishing => DecidedOn(run.entity)

RunInv ==
  /\ run.todo \subseteq run.input
  /\ \A e \in run.recovered : rows[e] # Nothing
  /\ PublishingInv
  /\ ReplayInv
  /\ LookupInv
  /\ run.at = "done" /\ run.publish => \A e \in run.input : Applied(e)

\* No human decision an attempt was made under is lost: the row names the last
\* one, and its evidence the last rejection of a Party, and some decision on an
\* institution or an office if there ever was one.
Recalls(e) ==
  /\ rows[e] # Nothing
  /\ Decided(e) \in attempts[e] /\ rows[e].remembered \in attempts[e] \cup {Nothing}
  /\ IF kind = "party" THEN Rejected \in attempts[e] => Rejected \in {Decided(e), rows[e].remembered}
     ELSE attempts[e] # {Nothing} => {Decided(e), rows[e].remembered} # {Nothing}

DecisionsRemembered ==
  \A e \in Entity : kind # "member" /\ attempts[e] # {} => Recalls(e)

\* A row nobody attempted to decide names no decision.
Undecided(e) == rows[e] # Nothing => rows[e].review = Nothing /\ rows[e].remembered = Nothing
MemoryInv == DecisionsRemembered /\ \A e \in Entity : attempts[e] = {} => Undecided(e)

\* What a row says is published was read back from the store by some command.
PublishedWasVerified ==
  \A e \in Entity : ~Unpublished(e) => rows[e].published \in proofs[e]

\* What is accepted for an entity that a human must review names the QID of the
\* review, the article it asked for or none, and no person: the builder of its
\* graph, which refuses anything else, never refuses what the engine decided.
AcceptedOnReview ==
  \A e \in Entity : kind # "member" /\ rows[e] # Nothing /\ rows[e].state = "accepted" =>
    /\ Decided(e) \in Acceptance
    /\ rows[e].links.qid = Decided(e).qid /\ rows[e].links.dbpedia = Nothing
    /\ rows[e].links.wikipedia \in {Nothing, Decided(e).page}

IInv ==
  /\ TypeOK
  /\ RowInv
  /\ MemoryInv
  /\ PublishedWasVerified
  /\ GraphIsAccountedFor
  /\ SettledIsServed
  /\ RunInv

----------------------------------------------------------------------------
\* The values the specification starts from have their types; a hash tells
\* payloads apart.
LEMMA Constants ==
  /\ Nothing \notin Row /\ Nothing \notin Review /\ Nothing \notin Identity
  /\ Nothing \in Links /\ NewRow \in Row /\ NewRow # Nothing
  /\ Idle \in Run /\ Idle.at = "idle" /\ Idle.todo = {} /\ Idle.input = {}
  /\ Idle.recovered = {}
<1>1. Nothing \in Links
  BY DEF Links
<1>2. NewRow \in Row
  BY <1>1 DEF NewRow, Row, Unresolved, Decision
<1>3. Nothing \notin Row /\ Nothing \notin Review /\ Nothing \notin Identity
  BY NothingIsNoValue
<1>4. NewRow # Nothing
  BY <1>2, <1>3
<1>5. Idle \in Run /\ Idle.at = "idle" /\ Idle.todo = {} /\ Idle.input = {} /\ Idle.recovered = {}
  BY DEF Idle, Run, Step
<1>6. QED
  BY <1>1, <1>2, <1>3, <1>4, <1>5

LEMMA ReviewsAreReviews == review \in [Entity -> DecisionsOn(kind)] => review \in Review
  BY DEF Review, DecisionsOn

LEMMA Hashes ==
  ASSUME NEW x \in Links
  PROVE  /\ JsonHash(x) \in Hash /\ JsonHash(x) # Nothing
         /\ \A y \in Links : JsonHash(x) = JsonHash(y) => x = y
<1>1. JsonHash(x) \in Hash
  BY DEF JsonHash, Hash
<1>2. JsonHash(x) # Nothing
  BY <1>1, NothingIsNoValue
<1>3. ASSUME NEW y \in Links, JsonHash(x) = JsonHash(y)
      PROVE  x = y
  <2>1. JsonHash(x).of = x /\ JsonHash(y).of = y
    BY DEF JsonHash
  <2>2. QED
    BY <1>3, <2>1
<1>4. QED
  BY <1>1, <1>2, <1>3

\* Whatever the services answer, the links of an accepted identity are those of
\* the accepted item, and the optional ones are known.
LEMMA LinksOfMember ==
  ASSUME TypeOK, RowInv, NEW e \in Entity, NEW verified \in BOOLEAN, NEW q \in Qid,
         NEW links \in MemberLinks(q, rows[e], verified)
  PROVE  links \in Links /\ links # Nothing /\ links.qid = q
<1>1. Persons \subseteq Resource \cup {Nothing}
  <2>1. ASSUME NEW people \in SUBSET Resource, \E x \in people : people = {x}
        PROVE  (CHOOSE x \in people : TRUE) \in Resource
    BY <2>1
  <2>2. QED
    BY <2>1 DEF Persons
<1>2. ASSUME NEW s \in Page \cup {Nothing}, NEW d \in Resource \cup {Nothing}
      PROVE  /\ Identified(q, s, d) \in Links /\ Identified(q, s, d) # Nothing
             /\ Identified(q, s, d).qid = q
  BY NothingIsNoLink DEF Identified, Links
<1>3. CASE verified
  BY <1>1, <1>2, <1>3 DEF MemberLinks
<1>4. CASE ~verified /\ SameIdentity(rows[e], q)
  <2>1. links = rows[e].links /\ rows[e] # Nothing /\ rows[e].state = "accepted" /\ rows[e].links.qid = q
    BY <1>4 DEF MemberLinks, SameIdentity
  <2>2. links # Nothing /\ links \in Links
    BY <2>1 DEF RowInv, Justified, TypeOK, Row
  <2>3. QED
    BY <2>1, <2>2
<1>5. CASE ~verified /\ ~SameIdentity(rows[e], q)
  BY <1>1, <1>2, <1>5 DEF MemberLinks
<1>6. QED
  BY <1>3, <1>4, <1>5

LEMMA LinksOfInstitution ==
  ASSUME TypeOK, RowInv, kind = "institution",
         NEW e \in Entity, NEW verified \in BOOLEAN, NEW decision \in Acceptance,
         NEW links \in InstitutionLinks(decision, rows[e], Decided(e), verified)
  PROVE  /\ links \in Links /\ links # Nothing
         /\ links.qid = decision.qid /\ links.dbpedia = Nothing
         /\ links.wikipedia \in {Nothing, decision.page}
<1> decision.qid \in Qid /\ decision.page \in Page \cup {Nothing}
  BY DEF Acceptance
<1>1. ASSUME NEW s \in {Nothing, decision.page}
      PROVE  LET x == Identified(decision.qid, s, Nothing)
             IN  /\ x \in Links /\ x # Nothing /\ x.qid = decision.qid
                 /\ x.dbpedia = Nothing /\ x.wikipedia \in {Nothing, decision.page}
  BY NothingIsNoLink DEF Identified, Links
<1>2. CASE verified
  <2>1. PICK s \in Page \cup {Nothing} :
          links = Identified(decision.qid, IF s = decision.page THEN s ELSE Nothing, Nothing)
    BY <1>2 DEF InstitutionLinks
  <2>2. QED
    BY <1>1, <2>1
<1>3. CASE ~verified
  <2> DEFINE s == IF SameIdentity(rows[e], decision.qid) /\ Decided(e) = decision
                  THEN rows[e].links.wikipedia ELSE Nothing
  <2>1. links = Identified(decision.qid, s, Nothing)
    BY <1>3 DEF InstitutionLinks
  <2>2. s \in {Nothing, decision.page}
    <3>1. SUFFICES ASSUME SameIdentity(rows[e], decision.qid), Decided(e) = decision
                   PROVE  rows[e].links.wikipedia \in {Nothing, decision.page}
      OBVIOUS
    <3>2. rows[e] # Nothing /\ rows[e].state = "accepted" /\ rows[e].review # Nothing
          /\ rows[e].review[e] = decision
      BY <3>1, ValuesAreDistinct DEF SameIdentity, Decided
    <3>3. QED
      BY <3>2 DEF RowInv, Justified, AsDecided
  <2>3. QED
    BY <1>1, <2>1, <2>2
<1>4. QED
  BY <1>2, <1>3

\* An outcome is an acceptance with links or none without, and the review file
\* decides as far as it says anything; a lookup alone accepts a Member only.
LEMMA OutcomeIsJustified ==
  ASSUME TypeOK, RowInv, NEW e \in Entity, NEW verified \in BOOLEAN,
         NEW outcome \in Outcomes(kind, review[e], rows[e], Decided(e), verified)
  PROVE  /\ outcome.state \in {"accepted", "rejected"} \cup Unresolved
         /\ outcome.links \in Links
         /\ outcome.state = "accepted" <=> outcome.links # Nothing
         /\ AsDecided(review[e], outcome)
<1> DEFINE Good == /\ outcome.state = "accepted"
                   /\ outcome.links \in Links /\ outcome.links # Nothing
<1>1. review[e] \in DecisionsOn(kind) /\ review[e] \in Acceptance \cup {Nothing, Rejected}
  BY DEF TypeOK, DecisionsOn, Decision
<1>2. \A t \in {"rejected"} \cup Unresolved : Without(t).state = t /\ Without(t).links = Nothing
  BY DEF Without
<1>3. \A links : Accepted(links).state = "accepted" /\ Accepted(links).links = links
  BY DEF Accepted
<1>4. CASE review[e] = Rejected
  <2>1. outcome = Without("rejected")
    BY <1>4, ValuesAreDistinct DEF Outcomes
  <2>2. QED
    BY <1>2, <1>4, <2>1, Constants, ValuesAreDistinct DEF AsDecided, Unresolved
<1>5. CASE review[e] \in Acceptance
  <2>1. outcome \in Acceptances(kind, review[e], rows[e], Decided(e), verified) /\ review[e] # Rejected
    BY <1>5, ValuesAreDistinct DEF Outcomes
  <2>2. review[e].qid \in Qid /\ review[e].page \in Page \cup {Nothing}
    BY <1>5 DEF Acceptance
  <2>3. CASE kind = "member"
    <3>1. PICK links \in MemberLinks(review[e].qid, rows[e], verified) : outcome = Accepted(links)
      BY <2>1, <2>3 DEF Acceptances
    <3>2. Good /\ outcome.links.qid = review[e].qid
      BY <1>3, <2>2, <3>1, LinksOfMember
    <3>3. QED
      BY <2>1, <2>3, <3>2 DEF AsDecided
  <2>4. CASE kind = "institution"
    <3>1. PICK links \in InstitutionLinks(review[e], rows[e], Decided(e), verified) :
            outcome = Accepted(links)
      BY <2>1, <2>4 DEF Acceptances
    <3>2. /\ Good /\ outcome.links.qid = review[e].qid /\ outcome.links.dbpedia = Nothing
          /\ outcome.links.wikipedia \in {Nothing, review[e].page}
      BY <1>3, <1>5, <2>4, <3>1, LinksOfInstitution
    <3>3. QED
      BY <1>5, <2>1, <2>4, <3>2 DEF AsDecided
  <2>5. CASE kind \notin {"member", "institution"}
    <3>1. outcome = Accepted(Identified(review[e].qid, Nothing, Nothing))
      BY <2>1, <2>5 DEF Acceptances
    <3>2. /\ Good /\ outcome.links.qid = review[e].qid /\ outcome.links.dbpedia = Nothing
          /\ outcome.links.wikipedia = Nothing
      BY <1>3, <2>2, <3>1, NothingIsNoLink DEF Identified, Links
    <3>3. QED
      BY <1>5, <2>1, <3>2 DEF AsDecided
  <2>6. QED
    BY <2>3, <2>4, <2>5
<1>6. CASE review[e] = Nothing
  <2>1. review[e] # Rejected /\ review[e] \notin Acceptance
    BY <1>6, ValuesAreDistinct
  <2>2. CASE \E t \in Unresolved : outcome = Without(t)
    BY <1>2, <2>1, <2>2, Constants DEF AsDecided, Unresolved
  <2>3. CASE kind = "member"
    <3>1. PICK found \in SUBSET Qid : outcome \in ByCode(found, rows[e], verified)
      BY <2>1, <2>3 DEF Outcomes
    <3>2. CASE \E q \in found : found = {q}
      <4>1. PICK links \in MemberLinks(CHOOSE q \in found : TRUE, rows[e], verified) :
              outcome = Accepted(links)
        BY <3>1, <3>2 DEF ByCode
      <4>2. (CHOOSE q \in found : TRUE) \in Qid
        BY <3>2
      <4>3. Good
        BY <1>3, <4>1, <4>2, LinksOfMember
      <4>4. QED
        BY <2>1, <2>3, <4>3 DEF AsDecided
    <3>3. CASE ~\E q \in found : found = {q}
      BY <2>2, <3>1, <3>3 DEF ByCode, Unresolved
    <3>4. QED
      BY <3>2, <3>3
  <2>4. CASE kind # "member"
    <3>1. PICK found \in SUBSET Candidates : outcome = Without(Weigh(kind, found))
      BY <2>1, <2>4 DEF Outcomes
    <3>2. QED
      BY <2>2, <3>1 DEF Weigh, Unresolved
  <2>5. QED
    BY <2>3, <2>4
<1>7. QED
  BY <1>1, <1>4, <1>5, <1>6

\* The row that is saved names the edition it was decided under.
LEMMA SavedRow ==
  ASSUME TypeOK, RowInv, NEW e \in Entity, NEW verified \in BOOLEAN,
         NEW outcome \in Outcomes(kind, review[e], rows[e], Decided(e), verified)
  PROVE  LET row == Saved(e, outcome, NeedsPublication(e, outcome))
         IN  /\ row \in Row /\ row # Nothing /\ Justified(e, row)
             /\ row.identity = source[e] /\ row.review = review
             /\ row.dirty = NeedsPublication(e, outcome)
             /\ row.state = outcome.state /\ row.links = outcome.links
             /\ row.remembered = Remembered(kind, rows[e], Decided(e))
             /\ row.published = IF rows[e] = Nothing THEN Nothing ELSE rows[e].published
<1> DEFINE dirty == NeedsPublication(e, outcome)
           row == Saved(e, outcome, dirty)
<1>1. dirty \in BOOLEAN /\ (dirty => outcome.state \notin Unresolved)
  BY DEF NeedsPublication, Unresolved
<1> HIDE DEF dirty
<1>2. /\ outcome.state \in {"accepted", "rejected"} \cup Unresolved
      /\ outcome.links \in Links
      /\ outcome.state = "accepted" <=> outcome.links # Nothing
      /\ AsDecided(review[e], outcome)
  BY OutcomeIsJustified
<1>3. /\ row.identity = source[e] /\ row.review = review /\ row.dirty = dirty
      /\ row.state = outcome.state /\ row.links = outcome.links
      /\ row.pending = IF dirty THEN outcome.links ELSE Nothing
      /\ row.remembered = Remembered(kind, rows[e], Decided(e))
      /\ row.published = IF rows[e] = Nothing THEN Nothing ELSE rows[e].published
  BY DEF Saved
<1>4. row \in Row
  <2>1. review \in Review /\ source[e] \in Identity
    BY ReviewsAreReviews DEF TypeOK
  <2>2. Decided(e) \in Decision
    BY DEF Decided, TypeOK, Row, Review, Decision
  <2>3. Remembered(kind, rows[e], Decided(e)) \in Decision
    BY <2>2 DEF Remembered, TypeOK, Row, Decision
  <2>4. (IF rows[e] = Nothing THEN Nothing ELSE rows[e].published) \in Hash \cup {Nothing}
    BY DEF TypeOK, Row
  <2>5. QED
    BY <1>1, <1>2, <2>1, <2>3, <2>4, Constants DEF Saved, Row
<1>5. row # Nothing /\ review # Nothing
  BY <1>4, Constants, ReviewsAreReviews DEF TypeOK
<1>6. Justified(e, row)
  BY <1>1, <1>2, <1>3, <1>5 DEF Justified, AsDecided
<1>7. QED
  BY <1>3, <1>4, <1>5, <1>6 DEF dirty

\* The evidence of the new row forgets nothing that the old one remembered.
LEMMA SavedMemory ==
  ASSUME TypeOK, MemoryInv, NEW e \in Entity, kind # "member", rows'[e] # Nothing,
         rows'[e].review = review, rows'[e].remembered = Remembered(kind, rows[e], Decided(e)),
         kind' = kind,
         attempts'[e] = attempts[e] \cup {review[e]}
  PROVE  Recalls(e)'
<1>0. Decided(e)' = review[e]
  BY ReviewsAreReviews, Constants DEF Decided, TypeOK
<1>1. CASE attempts[e] = {}
  <2>1. Decided(e) = Nothing /\ (rows[e] # Nothing => rows[e].remembered = Nothing)
    BY <1>1 DEF MemoryInv, Undecided, Decided
  <2>2. Remembered(kind, rows[e], Decided(e)) = Nothing
    BY <2>1 DEF Remembered
  <2>3. QED
    BY <1>0, <1>1, <2>2 DEF Recalls
<1>2. CASE attempts[e] # {}
  <2>1. Recalls(e)
    BY <1>2 DEF MemoryInv, DecisionsRemembered
  <2>2. Decided(e) \in Decision
    BY DEF Decided, TypeOK, Row, Review, Decision
  <2>3. CASE kind = "party"
    <3>1. rows'[e].remembered = IF Decided(e) = Rejected THEN Rejected ELSE rows[e].remembered
      BY <2>1, <2>3 DEF Remembered, Recalls
    <3>2. QED
      BY <1>0, <2>1, <2>3, <3>1 DEF Recalls
  <2>4. CASE kind # "party"
    <3>1. rows'[e].remembered = IF Decided(e) # Nothing THEN Decided(e) ELSE rows[e].remembered
      BY <2>1, <2>2, <2>4 DEF Remembered, Recalls
    <3>2. attempts'[e] # {Nothing} /\ review[e] = Nothing => attempts[e] # {Nothing}
      BY <1>2
    <3>3. QED
      BY <1>0, <2>1, <2>4, <3>1, <3>2 DEF Recalls
  <2>5. QED
    BY <2>3, <2>4
<1>3. QED
  BY <1>1, <1>2

\* Nothing is expected of a command that is not there.
LEMMA RunAtRest ==
  ASSUME run'.at = "idle", run'.todo \subseteq run'.input,
         \A e \in run'.recovered : rows'[e] # Nothing
  PROVE  RunInv'
BY DEF RunInv, PublishingInv, ReplayInv, LookupInv, Publishing, Replaying, LookingUp

\* A row that keeps what it has published goes on accounting for its graph,
\* unless what it had still to publish is forgotten.
LEMMA StillAccounted ==
  ASSUME GraphIsAccountedFor, NEW e \in Entity, graph' = graph,
         \A f \in Entity \ {e} : rows'[f] = rows[f],
         rows'[e] # Nothing,
         rows'[e].published = IF rows[e] = Nothing THEN Nothing ELSE rows[e].published,
         ~IsDirty(e) \/ (rows'[e].dirty /\ rows'[e].pending = rows[e].pending)
  PROVE  GraphIsAccountedFor'
<1>1. ASSUME NEW f \in Entity
      PROVE  \/ (rows'[f] = Nothing \/ rows'[f].published = Nothing) /\ graph[f] = Nothing
             \/ /\ rows'[f] # Nothing /\ rows'[f].published # Nothing
                /\ rows'[f].published = JsonHash(graph[f])
             \/ rows'[f] # Nothing /\ rows'[f].dirty /\ graph[f] = rows'[f].pending
  <2>1. \/ (rows[f] = Nothing \/ rows[f].published = Nothing) /\ graph[f] = Nothing
        \/ /\ rows[f] # Nothing /\ rows[f].published # Nothing
           /\ rows[f].published = JsonHash(graph[f])
        \/ rows[f] # Nothing /\ rows[f].dirty /\ graph[f] = rows[f].pending
    BY DEF GraphIsAccountedFor, Unpublished
  <2>2. CASE f = e
    BY <2>1, <2>2 DEF IsDirty
  <2>3. CASE f # e
    BY <2>1, <2>3
  <2>4. QED
    BY <2>2, <2>3
<1>2. QED
  BY <1>1 DEF GraphIsAccountedFor, Unpublished, JsonHash

\* What a row remembers stays as long as its decisions stay, and what it says is
\* published stays verified.
LEMMA StillRemembered ==
  ASSUME MemoryInv, PublishedWasVerified, kind' = kind, attempts' = attempts,
         \A f \in Entity : proofs[f] \subseteq proofs'[f],
         NEW e \in Entity, rows[e] # Nothing, rows'[e] # Nothing,
         rows'[e].review = rows[e].review, rows'[e].remembered = rows[e].remembered,
         rows'[e].published \in {rows[e].published} \cup proofs[e],
         \A f \in Entity \ {e} : rows'[f] = rows[f]
  PROVE  MemoryInv' /\ PublishedWasVerified'
<1>1. ASSUME NEW f \in Entity
      PROVE  (Undecided(f)' <=> Undecided(f)) /\ (Recalls(f)' <=> Recalls(f))
  BY DEF Decided, Undecided, Recalls
<1>2. MemoryInv'
  BY <1>1 DEF MemoryInv, DecisionsRemembered
<1>3. PublishedWasVerified'
  BY DEF PublishedWasVerified, Unpublished
<1>4. QED
  BY <1>2, <1>3

LEMMA RowsUntouched ==
  ASSUME RowInv, MemoryInv, PublishedWasVerified, UNCHANGED <<kind, rows, attempts, proofs>>
  PROVE  RowInv' /\ MemoryInv' /\ PublishedWasVerified'
BY DEF RowInv, Justified, AsDecided, MemoryInv, DecisionsRemembered, Recalls, Undecided, Decided,
   PublishedWasVerified, Unpublished

----------------------------------------------------------------------------
\* Between commands the review file and the source may change, and rows
\* become due; what was decided stays as it is.
LEMMA EnvironmentStep ==
  ASSUME IInv, Environment
  PROVE  IInv'
<1> USE DEF IInv
<1>1. PICK e \in Entity : \/ SourceChanges(e) \/ RecheckReached(e)
                          \/ (\E d \in Decision : EditReview(e, d))
                          \/ (\E force \in BOOLEAN : HandOver(e, force))
  BY DEF Environment
<1>2. run.at = "idle" /\ run' = run /\ UNCHANGED <<kind, attempts, proofs, graph, runs, faults>>
  BY <1>1 DEF SourceChanges, RecheckReached, EditReview, HandOver, tables, counters
<1>3. RunInv'
  <2>1. \A f \in Entity : rows[f] # Nothing => rows'[f] # Nothing
    <3>1. CASE rows' = rows
      BY <3>1
    <3>2. CASE rows' = [rows EXCEPT ![e] = NewRow]
      BY <3>2, Constants DEF TypeOK
    <3>3. CASE rows[e] # Nothing /\ rows' = [rows EXCEPT ![e] = [@ EXCEPT !.due = TRUE]]
      <4>1. [rows[e] EXCEPT !.due = TRUE] \in Row
        BY <3>3 DEF TypeOK, Row
      <4>2. QED
        BY <3>3, <4>1, Constants DEF TypeOK
    <3>4. QED
      BY <1>1, <3>1, <3>2, <3>3 DEF SourceChanges, RecheckReached, EditReview, HandOver, tables
  <2>2. run.recovered \subseteq Entity
    BY DEF TypeOK, Run
  <2>3. QED
    BY <1>2, <2>1, <2>2, RunAtRest DEF RunInv
<1>4. CASE SourceChanges(e) \/ \E d \in Decision : EditReview(e, d)
  <2>1. rows' = rows
    BY <1>4 DEF SourceChanges, EditReview, tables
  <2>2. /\ source' \in [Entity -> Identity] /\ review' \in [Entity -> DecisionsOn(kind)]
        /\ edits' \in 0..MaxEdits
    <3>1. CASE SourceChanges(e)
      <4>1. source[e] + 1 \in Identity
        BY <3>1, BoundsAreNatural DEF SourceChanges, TypeOK, Identity
      <4>2. QED
        BY <3>1, <4>1 DEF SourceChanges, TypeOK, counters
    <3>2. CASE \E d \in Decision : EditReview(e, d)
      BY <3>2, BoundsAreNatural DEF EditReview, TypeOK
    <3>3. QED
      BY <1>4, <3>1, <3>2
  <2>3. TypeOK'
    BY <1>2, <2>1, <2>2 DEF TypeOK
  <2>4. GraphIsAccountedFor' /\ SettledIsServed'
    BY <1>2, <2>1 DEF GraphIsAccountedFor, SettledIsServed, Unpublished
  <2>5. QED
    BY <1>2, <1>3, <2>1, <2>3, <2>4, RowsUntouched
<1>5. CASE RecheckReached(e) \/ \E force \in BOOLEAN : HandOver(e, force)
  <2>1. UNCHANGED <<source, review, edits>>
    BY <1>5 DEF RecheckReached, HandOver, counters
  <2>2. CASE rows[e] = Nothing
    <3>1. rows' = [rows EXCEPT ![e] = NewRow]
      BY <1>5, <2>2 DEF RecheckReached, HandOver
    <3>2. rows'[e] = NewRow /\ \A f \in Entity \ {e} : rows'[f] = rows[f]
      BY <3>1 DEF TypeOK
    <3>3. TypeOK'
      BY <1>2, <2>1, <3>1, Constants DEF TypeOK
    <3>4. Justified(e, NewRow)
      BY DEF Justified, NewRow, Unresolved
    <3>5. RowInv'
      BY <1>2, <2>1, <3>2, <3>4 DEF RowInv, Justified, AsDecided
    <3>6. graph[e] = Nothing
      BY <2>2 DEF GraphIsAccountedFor, Unpublished
    <3>7. /\ NewRow.published = Nothing /\ NewRow.state \in Unresolved
          /\ NewRow.review = Nothing /\ NewRow.remembered = Nothing
      BY DEF NewRow, Unresolved
    <3>8. GraphIsAccountedFor' /\ SettledIsServed'
      BY <1>2, <3>2, <3>6, <3>7 DEF GraphIsAccountedFor, SettledIsServed, Unpublished
    <3>9. MemoryInv'
      <4>1. kind # "member" => attempts[e] = {}
        BY <2>2 DEF MemoryInv, DecisionsRemembered, Recalls
      <4>2. \A f \in Entity \ {e} : /\ Recalls(f)' <=> Recalls(f)
                                    /\ Undecided(f)' <=> Undecided(f)
        BY <1>2, <3>2 DEF Decided, Undecided, Recalls
      <4>3. Undecided(e)'
        BY <3>2, <3>7 DEF Undecided
      <4>4. \A f \in Entity : kind # "member" /\ attempts[f] # {} => f # e
        BY <4>1
      <4>5. ASSUME NEW f \in Entity, kind # "member", attempts[f] # {}
            PROVE  Recalls(f)'
        BY <4>2, <4>4, <4>5 DEF MemoryInv, DecisionsRemembered
      <4>6. DecisionsRemembered'
        BY <1>2, <4>5 DEF DecisionsRemembered
      <4>7. QED
        BY <1>2, <4>2, <4>3, <4>6 DEF MemoryInv
    <3>10. PublishedWasVerified'
      BY <1>2, <3>2, <3>7 DEF PublishedWasVerified, Unpublished
    <3>11. QED
      BY <1>3, <3>3, <3>5, <3>8, <3>9, <3>10
  <2>3. CASE rows[e] # Nothing
    <3>1. rows' = [rows EXCEPT ![e] = [@ EXCEPT !.due = TRUE]] /\ rows[e] \in Row
      BY <1>5, <2>3 DEF RecheckReached, HandOver, TypeOK
    <3>2. /\ rows'[e] = [rows[e] EXCEPT !.due = TRUE] /\ rows'[e] \in Row
          /\ \A f \in Entity \ {e} : rows'[f] = rows[f]
      BY <3>1 DEF TypeOK, Row
    <3>3. /\ rows'[e].state = rows[e].state /\ rows'[e].links = rows[e].links
          /\ rows'[e].dirty = rows[e].dirty /\ rows'[e].pending = rows[e].pending
          /\ rows'[e].review = rows[e].review /\ rows'[e].published = rows[e].published
          /\ rows'[e].remembered = rows[e].remembered /\ rows'[e] # Nothing
      <4>1. rows'[e] # Nothing
        BY <3>2, Constants
      <4>2. QED
        BY <3>1, <3>2, <4>1 DEF Row
    <3>4. TypeOK'
      BY <1>2, <2>1, <3>1, <3>2 DEF TypeOK
    <3>5. RowInv'
      <4>1. Justified(e, rows[e])
        BY <2>3 DEF RowInv
      <4>2. Justified(e, rows'[e])
        BY <4>1, <3>3 DEF Justified, AsDecided
      <4>3. \A f \in Entity : rows'[f] # Nothing => Justified(f, rows'[f])
        BY <3>2, <4>2 DEF RowInv
      <4>4. QED
        BY <1>2, <4>3 DEF RowInv, Justified, AsDecided
    <3>6. GraphIsAccountedFor'
      BY <1>2, <2>3, <3>2, <3>3, StillAccounted DEF IsDirty
    <3>7. SettledIsServed'
      BY <1>2, <2>3, <3>2, <3>3 DEF SettledIsServed
    <3>8. MemoryInv' /\ PublishedWasVerified'
      BY <1>2, <2>3, <3>2, <3>3, StillRemembered
    <3>9. QED
      BY <1>3, <3>4, <3>5, <3>6, <3>7, <3>8
  <2>4. QED
    BY <2>2, <2>3
<1>6. QED
  BY <1>1, <1>4, <1>5

----------------------------------------------------------------------------
\* A command

\* Steps that move the command only.
LEMMA MovesOn ==
  ASSUME IInv, run' \in Run, UNCHANGED <<kind, source, review, tables, graph>>,
         edits' \in 0..MaxEdits, runs' \in 0..MaxRuns, faults' \in 0..MaxFaults,
         RunInv'
  PROVE  IInv'
<1>1. TypeOK'
  BY DEF IInv, TypeOK, tables
<1>2. GraphIsAccountedFor' /\ SettledIsServed'
  BY DEF IInv, tables, GraphIsAccountedFor, SettledIsServed, Unpublished
<1>3. QED
  BY <1>1, <1>2, RowsUntouched DEF IInv, tables

LEMMA StartStep ==
  ASSUME IInv, NEW input \in SUBSET Entity, NEW publish \in BOOLEAN, NEW all \in BOOLEAN,
         StartRun(input, publish, all)
  PROVE  IInv'
<1> DEFINE dirty == {e \in input : rows[e] # Nothing /\ rows[e].dirty}
<1>1. run' = [at |-> IF publish THEN "replay" ELSE "lookup",
              input |-> input, publish |-> publish, all |-> all,
              todo |-> IF publish THEN dirty ELSE input,
              recovered |-> dirty, entity |-> Nothing, next |-> "idle"]
  BY DEF StartRun
<1>2. run' \in Run
  BY <1>1 DEF Run, Step
<1>3. rows' = rows /\ UNCHANGED <<kind, source, review, tables, graph>>
  BY DEF StartRun, tables
<1>4. RunInv'
  <2>1. /\ run'.todo \subseteq run'.input /\ run'.publish = publish /\ run'.input = input
        /\ run'.recovered = dirty /\ dirty \subseteq input
        /\ run'.at = IF publish THEN "replay" ELSE "lookup"
        /\ run'.todo = IF publish THEN dirty ELSE input
    BY <1>1
  <2>2. QED
    BY <1>3, <2>1 DEF RunInv, PublishingInv, ReplayInv, LookupInv, Publishing, Replaying,
       LookingUp, IsDirty
<1>5. edits' \in 0..MaxEdits /\ runs' \in 0..MaxRuns /\ faults' \in 0..MaxFaults
  BY BoundsAreNatural DEF StartRun, IInv, TypeOK
<1>6. QED
  BY <1>2, <1>3, <1>4, <1>5, MovesOn

LEMMA MoveStep ==
  ASSUME IInv,
         \/ \E e \in Entity : BeginReplay(e) \/ PassOver(e)
         \/ BeginLookups \/ FinishLookups \/ Abort \/ Exit
  PROVE  IInv'
<1> USE DEF IInv
<1>1. UNCHANGED <<kind, source, review, tables, graph>> /\ rows' = rows
  BY DEF BeginReplay, PassOver, BeginLookups, FinishLookups, Abort, Exit, tables
<1>2. edits' \in 0..MaxEdits /\ runs' \in 0..MaxRuns /\ faults' \in 0..MaxFaults
  <2>1. CASE Abort
    BY <2>1, BoundsAreNatural DEF Abort, TypeOK
  <2>2. CASE ~Abort
    BY <2>2 DEF BeginReplay, PassOver, BeginLookups, FinishLookups, Exit, counters, TypeOK
  <2>3. QED
    BY <2>1, <2>2
<1>3. \A e \in Entity : /\ IsDirty(e)' <=> IsDirty(e)
                        /\ Applied(e)' <=> Applied(e)
                        /\ DecidedOn(e)' <=> DecidedOn(e)
  BY <1>1 DEF IsDirty, Applied, DecidedOn
<1>4. /\ run \in Run /\ run.input \subseteq Entity /\ run.todo \subseteq run.input
      /\ \A f \in run.recovered : rows'[f] # Nothing
  BY <1>1 DEF TypeOK, Run, RunInv
<1>5. ASSUME NEW e \in Entity, BeginReplay(e)
      PROVE  IInv'
  <2>1. /\ run.at = "replay" /\ e \in run.todo
        /\ run' = [run EXCEPT !.at = "put", !.entity = e, !.next = "replay"]
    BY <1>5 DEF BeginReplay
  <2>2. /\ run' \in Run /\ run'.at = "put" /\ run'.entity = e /\ run'.next = "replay"
        /\ run'.todo = run.todo /\ run'.input = run.input /\ run'.publish = run.publish
        /\ run'.recovered = run.recovered
    BY <1>4, <2>1 DEF Run, Step
  <2>3. run.publish /\ \A f \in run.input : IsDirty(f) <=> f \in run.todo
    BY <2>1 DEF RunInv, ReplayInv, Replaying
  <2>4. IsDirty(e)'
    BY <1>3, <1>4, <2>1, <2>3
  <2>5. PublishingInv' /\ ReplayInv' /\ LookupInv'
    BY <1>1, <1>3, <1>4, <2>1, <2>2, <2>3, <2>4 DEF PublishingInv, ReplayInv, LookupInv,
       Publishing, Replaying, LookingUp, IsDirty
  <2>6. RunInv'
    BY <1>4, <2>2, <2>5 DEF RunInv
  <2>7. QED
    BY <1>1, <1>2, <2>2, <2>6, MovesOn
<1>6. ASSUME NEW e \in Entity, PassOver(e)
      PROVE  IInv'
  <2>1. /\ run.at = "lookup" /\ e \in run.todo /\ ~Selected(e)
        /\ run' = [run EXCEPT !.todo = @ \ {e}]
    BY <1>6 DEF PassOver, Work
  <2>2. /\ run' \in Run /\ run'.at = "lookup" /\ run'.todo = run.todo \ {e}
        /\ run'.input = run.input /\ run'.publish = run.publish
        /\ run'.recovered = run.recovered
    BY <1>4, <2>1 DEF Run
  <2>3. /\ \A f \in run.todo : IsDirty(f) => f \in run.recovered /\ ~run.publish
        /\ run.publish => \A f \in run.input \ run.todo : Applied(f)
    BY <2>1 DEF RunInv, LookupInv, LookingUp, Publishing
  <2>4. run.publish => Applied(e)
    <3>1. SUFFICES ASSUME run.publish PROVE Applied(e)
      OBVIOUS
    <3>2. ~IsDirty(e)
      BY <2>1, <2>3, <3>1
    <3>3. CASE e \in run.recovered
      BY <1>1, <1>4, <2>1, <3>1, <3>2, <3>3 DEF Selected, Applied, DecidedOn, IsDirty
    <3>4. CASE e \notin run.recovered
      BY <2>1, <3>2, <3>4 DEF Selected, NaturallyDue, Applied, DecidedOn
    <3>5. QED
      BY <3>3, <3>4
  <2>5. PublishingInv' /\ ReplayInv' /\ LookupInv'
    BY <1>3, <1>4, <2>2, <2>3, <2>4 DEF PublishingInv, ReplayInv, LookupInv,
       Publishing, Replaying, LookingUp
  <2>6. RunInv'
    BY <1>4, <2>2, <2>5 DEF RunInv
  <2>7. QED
    BY <1>1, <1>2, <2>2, <2>6, MovesOn
<1>7. CASE BeginLookups
  <2>1. /\ run.at = "replay" /\ run.todo = {}
        /\ run' = [run EXCEPT !.at = "lookup", !.todo = run.input]
    BY <1>7 DEF BeginLookups
  <2>2. /\ run' \in Run /\ run'.at = "lookup" /\ run'.todo = run.input
        /\ run'.input = run.input /\ run'.publish = run.publish
        /\ run'.recovered = run.recovered
    BY <1>4, <2>1 DEF Run, Step
  <2>3. \A f \in run.input : ~IsDirty(f)
    BY <2>1 DEF RunInv, ReplayInv, Replaying
  <2>4. PublishingInv' /\ ReplayInv' /\ LookupInv'
    BY <1>3, <1>4, <2>2, <2>3 DEF PublishingInv, ReplayInv, LookupInv,
       Publishing, Replaying, LookingUp
  <2>5. RunInv'
    BY <1>4, <2>2, <2>4 DEF RunInv
  <2>6. QED
    BY <1>1, <1>2, <2>2, <2>5, MovesOn
<1>8. CASE FinishLookups
  <2>1. run.at = "lookup" /\ run.todo = {} /\ run' = [run EXCEPT !.at = "done"]
    BY <1>8 DEF FinishLookups
  <2>2. /\ run' \in Run /\ run'.at = "done" /\ run'.todo = {}
        /\ run'.input = run.input /\ run'.publish = run.publish
        /\ run'.recovered = run.recovered
    BY <1>4, <2>1 DEF Run, Step
  <2>3. run.publish => \A f \in run.input : Applied(f)
    BY <2>1 DEF RunInv, LookupInv, LookingUp
  <2>4. RunInv'
    BY <1>3, <1>4, <2>2, <2>3 DEF RunInv, PublishingInv, ReplayInv, LookupInv,
       Publishing, Replaying, LookingUp
  <2>5. QED
    BY <1>1, <1>2, <2>2, <2>4, MovesOn
<1>9. CASE Abort \/ Exit
  <2>1. run' = Idle
    BY <1>9 DEF Abort, Exit
  <2>2. run' \in Run /\ RunInv'
    BY <2>1, Constants, RunAtRest
  <2>3. QED
    BY <1>1, <1>2, <2>2, MovesOn
<1>10. QED
  BY <1>5, <1>6, <1>7, <1>8, <1>9

\* The row of an entity is decided anew only when nothing of it is left to
\* publish; from then on it is published, or the command is through with it.
LEMMA ReconcileStep ==
  ASSUME IInv, NEW e \in Entity, NEW verified \in BOOLEAN, Reconcile(e, verified)
  PROVE  IInv'
<1>0. PICK outcome \in Outcomes(kind, review[e], rows[e], Decided(e), verified) : Settle(e, outcome)
  BY DEF Reconcile
<1> DEFINE dirty == NeedsPublication(e, outcome)
           row == Saved(e, outcome, dirty)
<1> USE DEF IInv
<1>1. /\ run.at = "lookup" /\ e \in run.todo /\ Selected(e)
      /\ rows' = [rows EXCEPT ![e] = row]
      /\ attempts' = [attempts EXCEPT ![e] = @ \cup {review[e]}]
      /\ UNCHANGED <<kind, source, review, proofs, graph, counters>>
      /\ run' = IF run.publish /\ dirty
                THEN [run EXCEPT !.at = "put", !.entity = e, !.next = "lookup"]
                ELSE [run EXCEPT !.todo = @ \ {e}]
  BY <1>0 DEF Reconcile, Work, Settle
<1>2. /\ row \in Row /\ row # Nothing /\ Justified(e, row)
      /\ row.identity = source[e] /\ row.review = review /\ row.dirty = dirty
      /\ row.state = outcome.state /\ row.links = outcome.links
      /\ row.remembered = Remembered(kind, rows[e], Decided(e))
      /\ row.published = IF rows[e] = Nothing THEN Nothing ELSE rows[e].published
  BY SavedRow
<1> HIDE DEF row
<1>3. rows'[e] = row /\ \A f \in Entity \ {e} : rows'[f] = rows[f]
  BY <1>1 DEF TypeOK
<1>4. /\ run \in Run /\ run.input \subseteq Entity /\ run.todo \subseteq run.input
      /\ run.recovered \subseteq Entity
      /\ \A f \in run.todo : IsDirty(f) => f \in run.recovered /\ ~run.publish
      /\ run.publish => \A f \in run.input \ run.todo : Applied(f)
      /\ \A f \in run.recovered : rows[f] # Nothing
  BY <1>1 DEF TypeOK, Run, RunInv, LookupInv, LookingUp, Publishing
<1>5. ~IsDirty(e)
  BY <1>1, <1>4 DEF Selected
<1>6. outcome.links \in Links /\ (outcome.state = "rejected" => outcome.links = Nothing)
  BY OutcomeIsJustified, ValuesAreDistinct
<1>7. run' \in Run
  BY <1>1, <1>4 DEF Run, Step
<1>8. TypeOK'
  <2>1. rows' \in [Entity -> Row \cup {Nothing}]
    BY <1>1, <1>2 DEF TypeOK
  <2>2. attempts' \in [Entity -> SUBSET Decision]
    BY <1>1 DEF TypeOK, DecisionsOn
  <2>3. QED
    BY <1>1, <1>7, <2>1, <2>2 DEF TypeOK, counters
<1>9. RowInv'
  <2>1. \A f \in Entity : rows'[f] # Nothing => Justified(f, rows'[f])
    BY <1>2, <1>3 DEF RowInv
  <2>2. QED
    BY <1>1, <2>1 DEF RowInv, Justified, AsDecided
<1>10. GraphIsAccountedFor'
  BY <1>1, <1>2, <1>3, <1>5, StillAccounted
<1>11. SettledIsServed'
  <2>1. ASSUME ~dirty, outcome.state \notin Unresolved
        PROVE  graph[e] = outcome.links
    <3>1. outcome.state = "accepted"
      BY <2>1, OutcomeIsJustified DEF NeedsPublication
    <3>2. rows[e] # Nothing /\ rows[e].published = JsonHash(outcome.links)
      BY <2>1, <3>1 DEF NeedsPublication
    <3>3. JsonHash(graph[e]) = JsonHash(outcome.links)
      BY <1>5, <1>6, <3>2, Hashes DEF GraphIsAccountedFor, Unpublished, IsDirty
    <3>4. graph[e] \in Links
      BY DEF TypeOK
    <3>5. QED
      BY <1>6, <3>3, <3>4, Hashes
  <2> HIDE DEF dirty
  <2>2. QED
    BY <1>1, <1>2, <1>3, <2>1 DEF SettledIsServed
<1>12. /\ \A f \in Entity \ {e} : /\ IsDirty(f)' <=> IsDirty(f)
                                  /\ Applied(f)' <=> Applied(f)
       /\ IsDirty(e)' <=> dirty
       /\ DecidedOn(e)' /\ (~dirty => Applied(e)')
  BY <1>1, <1>2, <1>3 DEF IsDirty, Applied, DecidedOn
<1> HIDE DEF dirty
<1>13. \A f \in run.recovered : rows'[f] # Nothing
  BY <1>2, <1>3, <1>4
<1>14. RunInv'
  <2>1. CASE run.publish /\ dirty
    <3>1. /\ run'.at = "put" /\ run'.entity = e /\ run'.next = "lookup" /\ run'.publish
          /\ run'.todo = run.todo /\ run'.input = run.input /\ run'.recovered = run.recovered
      BY <1>1, <1>4, <2>1 DEF Run
    <3>2. PublishingInv' /\ ReplayInv' /\ LookupInv'
      BY <1>1, <1>4, <1>12, <2>1, <3>1 DEF PublishingInv, ReplayInv, LookupInv,
         Publishing, Replaying, LookingUp
    <3>3. QED
      BY <1>4, <1>13, <3>1, <3>2 DEF RunInv
  <2>2. CASE ~(run.publish /\ dirty)
    <3>1. /\ run'.at = "lookup" /\ run'.todo = run.todo \ {e} /\ run'.publish = run.publish
          /\ run'.input = run.input /\ run'.recovered = run.recovered
      BY <1>1, <1>4, <2>2 DEF Run
    <3>2. PublishingInv' /\ ReplayInv' /\ LookupInv'
      BY <1>1, <1>4, <1>12, <2>2, <3>1 DEF PublishingInv, ReplayInv, LookupInv,
         Publishing, Replaying, LookingUp
    <3>3. QED
      BY <1>4, <1>13, <3>1, <3>2 DEF RunInv
  <2>3. QED
    BY <2>1, <2>2
<1>15. MemoryInv'
  <2>1. \A f \in Entity \ {e} : attempts'[f] = attempts[f] /\ rows'[f] = rows[f]
    BY <1>1, <1>3 DEF TypeOK
  <2>2. \A f \in Entity \ {e} : /\ Recalls(f)' <=> Recalls(f)
                                /\ Undecided(f)' <=> Undecided(f)
    BY <1>1, <2>1 DEF Decided, Undecided, Recalls
  <2>3. attempts'[e] = attempts[e] \cup {review[e]}
    BY <1>1 DEF TypeOK
  <2>4. kind # "member" => Recalls(e)'
    BY <1>1, <1>2, <1>3, <2>3, SavedMemory
  <2>5. DecisionsRemembered'
    BY <1>1, <2>1, <2>2, <2>4 DEF MemoryInv, DecisionsRemembered
  <2>6. QED
    BY <2>1, <2>2, <2>3, <2>5 DEF MemoryInv
<1>16. PublishedWasVerified'
  BY <1>1, <1>2, <1>3 DEF PublishedWasVerified, Unpublished
<1>17. QED
  BY <1>8, <1>9, <1>10, <1>11, <1>14, <1>15, <1>16

\* The graph of a dirty row is the one the row has still to publish.
LEMMA PutStep ==
  ASSUME IInv, Put
  PROVE  IInv'
<1> USE DEF IInv
<1>1. /\ run.at = "put" /\ run.entity \in Entity /\ rows[run.entity] \in Row
      /\ rows[run.entity] # Nothing /\ rows[run.entity].dirty
      /\ graph' = [graph EXCEPT ![run.entity] = rows[run.entity].pending]
      /\ run' = [run EXCEPT !.at = "verify"]
      /\ UNCHANGED <<kind, source, review, tables, counters>>
  BY DEF Put, RunInv, PublishingInv, Publishing, IsDirty, TypeOK, Run
<1>2. /\ run' \in Run /\ run'.at = "verify" /\ run'.entity = run.entity
      /\ run'.next = run.next /\ run'.publish = run.publish /\ run'.todo = run.todo
      /\ run'.input = run.input /\ run'.recovered = run.recovered
  BY <1>1 DEF TypeOK, Run, Step
<1>3. rows[run.entity].pending \in Links
  BY <1>1 DEF Row
<1>4. /\ graph' \in [Entity -> Links] /\ graph'[run.entity] = rows[run.entity].pending
      /\ \A f \in Entity \ {run.entity} : graph'[f] = graph[f]
  BY <1>1, <1>3 DEF TypeOK
<1>5. rows' = rows
  BY <1>1 DEF tables
<1>6. TypeOK'
  BY <1>1, <1>2, <1>4 DEF TypeOK, tables, counters
<1>7. RowInv' /\ MemoryInv' /\ PublishedWasVerified'
  BY <1>1, RowsUntouched DEF tables
<1>8. GraphIsAccountedFor'
  BY <1>1, <1>4, <1>5 DEF GraphIsAccountedFor, Unpublished, JsonHash
<1>9. SettledIsServed'
  BY <1>1, <1>4, <1>5 DEF SettledIsServed
<1>10. RunInv'
  BY <1>1, <1>2, <1>5 DEF RunInv, PublishingInv, ReplayInv, LookupInv, Publishing, Replaying,
     LookingUp, IsDirty, Applied, DecidedOn
<1>11. QED
  BY <1>6, <1>7, <1>8, <1>9, <1>10

LEMMA VerifyStep ==
  ASSUME IInv, Verify
  PROVE  IInv'
<1> USE DEF IInv
<1>1. /\ run.at = "verify" /\ run.entity \in Entity /\ rows[run.entity] \in Row
      /\ graph[run.entity] = rows[run.entity].pending
      /\ proofs' = [proofs EXCEPT ![run.entity] = @ \cup {JsonHash(rows[run.entity].pending)}]
      /\ run' = [run EXCEPT !.at = "mark"]
      /\ UNCHANGED <<kind, source, review, rows, attempts, graph, counters>>
  BY DEF Verify, RunInv, PublishingInv, Publishing, IsDirty, TypeOK, Run
<1>2. /\ run' \in Run /\ run'.at = "mark" /\ run'.entity = run.entity
      /\ run'.next = run.next /\ run'.publish = run.publish /\ run'.todo = run.todo
      /\ run'.input = run.input /\ run'.recovered = run.recovered
  BY <1>1 DEF TypeOK, Run, Step
<1>3. JsonHash(rows[run.entity].pending) \in Hash
  BY <1>1, Hashes DEF Row
<1>4. TypeOK'
  BY <1>1, <1>2, <1>3 DEF TypeOK, counters
<1>5. RowInv' /\ MemoryInv' /\ PublishedWasVerified'
  <2>1. \A f \in Entity : proofs[f] \subseteq proofs'[f]
    BY <1>1, <1>3 DEF TypeOK
  <2>2. rows[run.entity] # Nothing
    BY <1>1, Constants
  <2>3. MemoryInv' /\ PublishedWasVerified'
    BY <1>1, <2>1, <2>2, StillRemembered
  <2>4. QED
    BY <1>1, <2>3 DEF RowInv, Justified, AsDecided
<1>6. GraphIsAccountedFor' /\ SettledIsServed'
  BY <1>1 DEF GraphIsAccountedFor, SettledIsServed, Unpublished, JsonHash
<1>7. JsonHash(rows'[run'.entity].pending) \in proofs'[run'.entity]
  BY <1>1, <1>2 DEF TypeOK
<1>8. RunInv'
  BY <1>1, <1>2, <1>7 DEF RunInv, PublishingInv, ReplayInv, LookupInv, Publishing, Replaying,
     LookingUp, IsDirty, Applied, DecidedOn
<1>9. QED
  BY <1>4, <1>5, <1>6, <1>8

\* A row that is marked has its links served.
LEMMA MarkStep ==
  ASSUME IInv, MarkPublished
  PROVE  IInv'
<1> USE DEF IInv
<1>0. PICK e \in Entity : e = run.entity /\ MarkPublished
  BY DEF MarkPublished, RunInv, PublishingInv, Publishing, TypeOK, Run
<1> DEFINE row == [rows[e] EXCEPT !.dirty = FALSE, !.pending = Nothing,
                                  !.published = JsonHash(rows[e].pending)]
<1>1. /\ run.at = "mark" /\ e = run.entity /\ e \in run.todo /\ rows[e] \in Row
      /\ rows[e] # Nothing /\ rows[e].dirty /\ graph[e] = rows[e].pending
      /\ JsonHash(rows[e].pending) \in proofs[e]
      /\ run.publish /\ run.next \in {"replay", "lookup"}
      /\ rows' = [rows EXCEPT ![e] = row]
      /\ run' = [run EXCEPT !.at = run.next, !.todo = @ \ {e}, !.entity = Nothing]
      /\ UNCHANGED <<kind, source, review, attempts, proofs, graph, counters>>
  BY <1>0 DEF MarkPublished, RunInv, PublishingInv, Publishing, IsDirty, TypeOK, Run
<1>2. /\ run' \in Run /\ run'.at = run.next /\ run'.todo = run.todo \ {e}
      /\ run'.publish /\ run'.input = run.input /\ run'.recovered = run.recovered
  BY <1>1 DEF TypeOK, Run, Step
<1>3. /\ Justified(e, rows[e]) /\ rows[e].pending = rows[e].links /\ rows[e].pending \in Links
  BY <1>1 DEF RowInv, Justified, Row
<1>4. /\ JsonHash(rows[e].pending) \in Hash /\ JsonHash(rows[e].pending) # Nothing
  BY <1>3, Hashes
<1>5. /\ row \in Row /\ ~row.dirty /\ row.published = JsonHash(rows[e].pending)
      /\ row.state = rows[e].state /\ row.links = rows[e].links
      /\ row.review = rows[e].review /\ row.identity = rows[e].identity
      /\ row.remembered = rows[e].remembered
  BY <1>1, <1>4, Constants DEF Row
<1>6. row # Nothing
  BY <1>5, Constants
<1> HIDE DEF row
<1>7. rows'[e] = row /\ \A f \in Entity \ {e} : rows'[f] = rows[f]
  BY <1>1 DEF TypeOK
<1>8. TypeOK'
  BY <1>1, <1>2, <1>5 DEF TypeOK, counters
<1>9. RowInv'
  <2>1. Justified(e, row)
    BY <1>3, <1>5 DEF Justified, AsDecided
  <2>2. \A f \in Entity : rows'[f] # Nothing => Justified(f, rows'[f])
    BY <1>7, <2>1 DEF RowInv
  <2>3. QED
    BY <1>1, <2>2 DEF RowInv, Justified, AsDecided
<1>10. GraphIsAccountedFor'
  BY <1>1, <1>4, <1>5, <1>6, <1>7 DEF GraphIsAccountedFor, Unpublished, JsonHash
<1>11. SettledIsServed'
  BY <1>1, <1>3, <1>5, <1>7 DEF SettledIsServed
<1>12. /\ \A f \in Entity \ {e} : /\ IsDirty(f)' <=> IsDirty(f)
                                  /\ Applied(f)' <=> Applied(f)
       /\ ~IsDirty(e)'
       /\ DecidedOn(e) => Applied(e)'
  BY <1>1, <1>5, <1>6, <1>7 DEF IsDirty, Applied, DecidedOn
<1>13. \A f \in run.recovered : rows'[f] # Nothing
  <2>1. run.recovered \subseteq Entity /\ \A f \in run.recovered : rows[f] # Nothing
    BY DEF RunInv, TypeOK, Run
  <2>2. QED
    BY <1>6, <1>7, <2>1
<1>14. run.input \subseteq Entity /\ run.todo \subseteq run.input
  BY DEF TypeOK, Run, RunInv
<1>15. RunInv'
  <2>1. CASE run.next = "replay"
    <3>1. \A f \in run.input : IsDirty(f) <=> f \in run.todo
      BY <1>1, <2>1 DEF RunInv, ReplayInv, Replaying, Publishing
    <3>2. PublishingInv' /\ ReplayInv' /\ LookupInv'
      BY <1>1, <1>2, <1>12, <1>14, <2>1, <3>1 DEF PublishingInv, ReplayInv, LookupInv,
         Publishing, Replaying, LookingUp
    <3>3. QED
      BY <1>2, <1>13, <1>14, <2>1, <3>2 DEF RunInv
  <2>2. CASE run.next = "lookup"
    <3>1. /\ \A f \in run.todo : IsDirty(f) => f = e
          /\ \A f \in run.input \ run.todo : Applied(f)
          /\ DecidedOn(e)
      BY <1>1, <2>2 DEF RunInv, LookupInv, LookingUp, Publishing
    <3>2. PublishingInv' /\ ReplayInv' /\ LookupInv'
      BY <1>1, <1>2, <1>12, <1>14, <2>2, <3>1 DEF PublishingInv, ReplayInv, LookupInv,
         Publishing, Replaying, LookingUp
    <3>3. QED
      BY <1>2, <1>13, <1>14, <2>2, <3>2 DEF RunInv
  <2>3. QED
    BY <1>1, <2>1, <2>2
<1>16. MemoryInv' /\ PublishedWasVerified'
  BY <1>1, <1>5, <1>6, <1>7, StillRemembered
<1>17. QED
  BY <1>8, <1>9, <1>10, <1>11, <1>15, <1>16

----------------------------------------------------------------------------
LEMMA Init_IInv == Init => IInv
<1> SUFFICES ASSUME Init PROVE IInv
  OBVIOUS
<1>1. rows = [e \in Entity |-> Nothing] /\ graph = [e \in Entity |-> Nothing] /\ run = Idle
  BY DEF Init
<1>2. TypeOK
  <2>1. source \in [Entity -> Identity] /\ kind \in Kinds /\ review \in [Entity -> DecisionsOn(kind)]
    BY BoundsAreNatural DEF Init, Identity
  <2>2. /\ attempts \in [Entity -> SUBSET Decision] /\ proofs \in [Entity -> SUBSET Hash]
        /\ graph \in [Entity -> Links] /\ rows \in [Entity -> Row \cup {Nothing}]
    BY <1>1, Constants DEF Init
  <2>3. edits \in 0..MaxEdits /\ runs \in 0..MaxRuns /\ faults \in 0..MaxFaults
    BY BoundsAreNatural DEF Init
  <2>4. QED
    BY <1>1, <2>1, <2>2, <2>3, Constants DEF TypeOK
<1>3. RowInv /\ GraphIsAccountedFor /\ SettledIsServed /\ MemoryInv /\ PublishedWasVerified
  BY <1>1 DEF Init, RowInv, GraphIsAccountedFor, SettledIsServed, Unpublished, MemoryInv,
     DecisionsRemembered, Undecided, PublishedWasVerified
<1>4. RunInv
  BY <1>1, Constants DEF RunInv, PublishingInv, ReplayInv, LookupInv, Publishing, Replaying,
     LookingUp
<1>5. QED
  BY <1>2, <1>3, <1>4 DEF IInv

LEMMA Step_IInv == IInv /\ [Next]_vars => IInv'
<1> SUFFICES ASSUME IInv, [Next]_vars PROVE IInv'
  OBVIOUS
<1>1. CASE Command
  BY <1>1, StartStep, MoveStep, ReconcileStep, PutStep, VerifyStep, MarkStep DEF Command
<1>2. CASE UNCHANGED vars
  <2>1. UNCHANGED <<kind, source, review, rows, attempts, proofs, graph, run, edits, runs, faults>>
    BY <1>2 DEF vars, tables, counters
  <2>2. TypeOK' /\ GraphIsAccountedFor' /\ SettledIsServed'
    BY <2>1 DEF IInv, TypeOK, GraphIsAccountedFor, SettledIsServed, Unpublished, JsonHash
  <2>3. RunInv'
    BY <2>1 DEF IInv, RunInv, PublishingInv, ReplayInv, LookupInv, Publishing, Replaying,
       LookingUp, IsDirty, Applied, DecidedOn
  <2>4. QED
    BY <2>1, <2>2, <2>3, RowsUntouched DEF IInv
<1>3. QED
  BY <1>1, <1>2, EnvironmentStep DEF Next

LEMMA Invariant == Spec => []IInv
  BY Init_IInv, Step_IInv, PTL DEF Spec

\* The tables, the graphs and the running command have their types.
THEOREM TypeCorrect == Spec => []TypeOK
<1>1. IInv => TypeOK
  BY DEF IInv
<1>2. QED
  BY <1>1, Invariant, PTL

\* Whatever fails, the store holds no links the record does not account for.
THEOREM GraphAccountedFor == Spec => []GraphIsAccountedFor
<1>1. IInv => GraphIsAccountedFor
  BY DEF IInv
<1>2. QED
  BY <1>1, Invariant, PTL

\* An acceptance or a rejection that is settled is what is served.
THEOREM SettledServed == Spec => []SettledIsServed
<1>1. IInv => SettledIsServed
  BY DEF IInv
<1>2. QED
  BY <1>1, Invariant, PTL

\* No human decision an attempt was made under is lost: what is served of it, and
\* for a reviewer to see, survives any number of later editions of the review.
THEOREM NoDecisionForgotten == Spec => []DecisionsRemembered
<1>1. IInv => DecisionsRemembered
  BY DEF IInv, MemoryInv
<1>2. QED
  BY <1>1, Invariant, PTL

\* A payload that a row names as published was read back from the store.
THEOREM PublishedVerified == Spec => []PublishedWasVerified
<1>1. IInv => PublishedWasVerified
  BY DEF IInv
<1>2. QED
  BY <1>1, Invariant, PTL

\* What is accepted for a reviewed entity is what the builder of its graph takes.
THEOREM AcceptedByReview == Spec => []AcceptedOnReview
<1>1. ASSUME IInv, NEW e \in Entity, kind # "member", rows[e] # Nothing, rows[e].state = "accepted"
      PROVE  /\ Decided(e) \in Acceptance
             /\ rows[e].links.qid = Decided(e).qid /\ rows[e].links.dbpedia = Nothing
             /\ rows[e].links.wikipedia \in {Nothing, Decided(e).page}
  <2>1. Justified(e, rows[e]) /\ rows[e].review # Nothing
    BY <1>1 DEF IInv, RowInv, Justified, Unresolved
  <2>2. QED
    BY <1>1, <2>1 DEF Justified, AsDecided, Decided
<1>2. IInv => AcceptedOnReview
  BY <1>1 DEF AcceptedOnReview
<1>3. QED
  BY <1>2, Invariant, PTL

\* A publishing command that ends has put the review file it read in force.
THEOREM ReviewInForce == Spec => []FinishedRunApplied
<1>1. ASSUME IInv, run.at = "done", run.publish, NEW e \in run.input
      PROVE  /\ rows[e] # Nothing /\ ~rows[e].dirty
             /\ rows[e].identity = source[e] /\ rows[e].review = review
             /\ review[e] = Rejected => graph[e] = Nothing
             /\ review[e] \in Acceptance => graph[e] # Nothing /\ graph[e].qid = review[e].qid
  <2>1. /\ e \in Entity /\ rows[e] # Nothing /\ ~rows[e].dirty
        /\ rows[e].identity = source[e] /\ rows[e].review = review
    BY <1>1 DEF IInv, RunInv, Applied, DecidedOn, TypeOK, Run
  <2>2. Justified(e, rows[e]) /\ review # Nothing
    BY <1>1, <2>1, Constants, ReviewsAreReviews DEF IInv, RowInv, TypeOK
  <2>3. rows[e].state \notin Unresolved => graph[e] = rows[e].links
    BY <1>1, <2>1 DEF IInv, SettledIsServed
  <2>4. ASSUME review[e] = Rejected
        PROVE  graph[e] = Nothing
    <3>1. rows[e].state = "rejected"
      BY <2>1, <2>2, <2>4 DEF Justified, AsDecided
    <3>2. QED
      BY <2>2, <2>3, <3>1 DEF Justified, Unresolved
  <2>5. ASSUME review[e] \in Acceptance
        PROVE  graph[e] # Nothing /\ graph[e].qid = review[e].qid
    <3>1. rows[e].state = "accepted" /\ rows[e].links.qid = review[e].qid
      BY <2>1, <2>2, <2>5 DEF Justified, AsDecided
    <3>2. QED
      BY <2>2, <2>3, <3>1 DEF Justified, Unresolved
  <2>6. QED
    BY <2>1, <2>4, <2>5
<1>2. IInv => FinishedRunApplied
  BY <1>1 DEF FinishedRunApplied
<1>3. QED
  BY <1>2, Invariant, PTL

\* Links change only as decided: an outage or an ambiguous lookup withdraws
\* nothing, and a reviewed entity gets the QID of its review.
THEOREM OnlyAsDecided == Spec => LinksFollowDecisions
<1> DEFINE Follows(e) ==
      graph'[e] # graph[e] =>
        LET decision == rows[e].review[e]
        IN  IF graph'[e] = Nothing THEN decision = Rejected
            ELSE /\ decision \in Acceptance => graph'[e].qid = decision.qid
                 /\ kind # "member" =>
                      /\ decision \in Acceptance /\ graph'[e].dbpedia = Nothing
                      /\ graph'[e].wikipedia \in {decision.page, Nothing}
<1>1. ASSUME IInv, Put, NEW e \in Entity
      PROVE  Follows(e)
  <2>1. /\ run.entity \in Entity /\ rows[run.entity] # Nothing /\ rows[run.entity].dirty
        /\ graph' = [graph EXCEPT ![run.entity] = rows[run.entity].pending]
    BY <1>1 DEF Put, IInv, RunInv, PublishingInv, Publishing, IsDirty, TypeOK, Run
  <2>2. CASE e # run.entity
    BY <1>1, <2>1, <2>2 DEF IInv, TypeOK
  <2>3. CASE e = run.entity
    <3>1. Justified(e, rows[e]) /\ graph'[e] = rows[e].links
      BY <1>1, <2>1, <2>3 DEF IInv, RowInv, Justified, TypeOK
    <3>2. rows[e].state \in {"accepted", "rejected"} /\ rows[e].review # Nothing
      BY <1>1, <2>1, <2>3, <3>1 DEF IInv, TypeOK, Row, Justified
    <3>3. QED
      BY <3>1, <3>2 DEF Justified, AsDecided
  <2>4. QED
    BY <2>2, <2>3
<1>2. ASSUME [Next]_vars, ~Put
      PROVE  graph' = graph
  BY <1>2 DEF Next, Environment, SourceChanges, RecheckReached, EditReview, HandOver, Command,
     StartRun, BeginReplay, BeginLookups, PassOver, Reconcile, FinishLookups, Verify,
     MarkPublished, Abort, Exit, vars
<1>3. IInv /\ [Next]_vars => [\A e \in Entity : Follows(e)]_vars
  BY <1>1, <1>2
<1>4. QED
  BY <1>3, Invariant, PTL DEF Spec, LinksFollowDecisions

\* An outage of Wikidata costs an accepted entity nothing: while the decision on
\* it stands, accepting the same item again keeps the links it has, and has
\* nothing to publish again unless the command was told to.
OutageKeepsLinks ==
  [][\A e \in Entity :
       /\ Reconcile(e, FALSE)
       /\ rows[e] # Nothing /\ rows[e].state = "accepted"
       /\ rows'[e].state = "accepted" /\ rows'[e].links.qid = rows[e].links.qid
       /\ kind = "institution" => review[e] = Decided(e)
       => /\ rows'[e].links = rows[e].links
          /\ rows'[e].dirty => run.all]_vars

\* Without an answer of Wikidata the links of an item are the recorded ones.
LEMMA KeptInOutage ==
  ASSUME TypeOK, RowInv, NEW e \in Entity,
         rows[e] # Nothing, rows[e].state = "accepted",
         kind = "institution" => review[e] = Decided(e),
         NEW outcome \in Outcomes(kind, review[e], rows[e], Decided(e), FALSE),
         outcome.state = "accepted", outcome.links.qid = rows[e].links.qid
  PROVE  outcome.links = rows[e].links
<1> DEFINE old == rows[e].links
<1>1. /\ Justified(e, rows[e]) /\ old # Nothing /\ old \in Links
      /\ rows[e].review # Nothing
  BY DEF RowInv, Justified, TypeOK, Row, Unresolved
<1>2. /\ old = Identified(old.qid, old.wikipedia, old.dbpedia) /\ old.qid \in Qid
  BY <1>1 DEF Links, Identified
<1>3. AsDecided(review[e], outcome)
  BY OutcomeIsJustified
<1>4. \A q \in Qid : \A links \in MemberLinks(q, rows[e], FALSE) :
        links.qid = old.qid => links = old
  <2>1. SUFFICES ASSUME NEW q \in Qid, NEW links \in MemberLinks(q, rows[e], FALSE), links.qid = old.qid
                 PROVE  links = old
    OBVIOUS
  <2>2. q = old.qid
    BY <2>1, LinksOfMember
  <2>3. QED
    BY <2>1, <2>2 DEF MemberLinks, SameIdentity
<1>5. CASE kind = "member"
  <2>1. PICK q \in Qid : \E links \in MemberLinks(q, rows[e], FALSE) : outcome = Accepted(links)
    <3>1. CASE review[e] \in Acceptance
      <4>1. review[e] # Rejected /\ review[e].qid \in Qid
        BY <3>1, ValuesAreDistinct DEF Acceptance
      <4>2. QED
        BY <1>5, <3>1, <4>1 DEF Outcomes, Acceptances, Accepted
    <3>2. CASE review[e] \notin Acceptance
      <4>1. review[e] # Rejected
        BY <1>3 DEF AsDecided
      <4>2. PICK found \in SUBSET Qid : outcome \in ByCode(found, rows[e], FALSE)
        BY <1>5, <3>2, <4>1 DEF Outcomes
      <4>3. \E q \in found : found = {q}
        <5>1. \A state \in Unresolved : Without(state).state # "accepted"
          BY DEF Without, Unresolved
        <5>2. SUFFICES ASSUME ~\E q \in found : found = {q}
                       PROVE  \E state \in Unresolved : outcome = Without(state)
          BY <5>1
        <5>3. QED
          BY <4>2, <5>2 DEF ByCode, Unresolved
      <4>4. (CHOOSE q \in found : TRUE) \in Qid
        BY <4>3
      <4>5. QED
        BY <4>2, <4>3, <4>4 DEF ByCode
    <3>3. QED
      BY <3>1, <3>2
  <2>2. PICK links \in MemberLinks(q, rows[e], FALSE) : outcome = Accepted(links)
    BY <2>1
  <2>3. outcome.links = links
    BY <2>2 DEF Accepted
  <2>4. QED
    BY <1>4, <2>2, <2>3
<1>6. CASE kind # "member"
  <2>1. /\ review[e] \in Acceptance /\ review[e] # Rejected /\ review[e].qid = old.qid
        /\ outcome \in Acceptances(kind, review[e], rows[e], Decided(e), FALSE)
    BY <1>3, <1>6, ValuesAreDistinct DEF AsDecided, Outcomes
  <2>2. old.dbpedia = Nothing /\ old.wikipedia \in {Nothing, rows[e].review[e].page}
    BY <1>1, <1>6 DEF Justified, AsDecided
  <2>3. CASE kind = "institution"
    <3>1. SameIdentity(rows[e], review[e].qid) /\ Decided(e) = review[e]
      BY <2>1, <2>3 DEF SameIdentity
    <3>2. outcome = Accepted(Identified(review[e].qid, old.wikipedia, Nothing))
      BY <2>1, <2>3, <3>1 DEF Acceptances, InstitutionLinks
    <3>3. QED
      BY <1>2, <2>1, <2>2, <3>2 DEF Accepted
  <2>4. CASE kind # "institution"
    <3>1. outcome = Accepted(Identified(review[e].qid, Nothing, Nothing))
      BY <1>6, <2>1, <2>4 DEF Acceptances
    <3>2. old.wikipedia = Nothing
      BY <1>1, <1>6, <2>4 DEF Justified, AsDecided
    <3>3. QED
      BY <1>2, <2>1, <2>2, <3>1, <3>2 DEF Accepted
  <2>5. QED
    BY <2>3, <2>4
<1>7. QED
  BY <1>5, <1>6

\* Reconcile in an outage: nothing that an accepted entity shows is lost.
THEOREM OutageIsHarmless == Spec => OutageKeepsLinks
<1> DEFINE Kept(e) ==
      /\ Reconcile(e, FALSE)
      /\ rows[e] # Nothing /\ rows[e].state = "accepted"
      /\ rows'[e].state = "accepted" /\ rows'[e].links.qid = rows[e].links.qid
      /\ kind = "institution" => review[e] = Decided(e)
      => /\ rows'[e].links = rows[e].links
         /\ rows'[e].dirty => run.all
<1>1. ASSUME IInv, NEW e \in Entity, Reconcile(e, FALSE),
             rows[e] # Nothing, rows[e].state = "accepted",
             rows'[e].state = "accepted", rows'[e].links.qid = rows[e].links.qid,
             kind = "institution" => review[e] = Decided(e)
      PROVE  rows'[e].links = rows[e].links /\ (rows'[e].dirty => run.all)
  <2>1. PICK outcome \in Outcomes(kind, review[e], rows[e], Decided(e), FALSE) : Settle(e, outcome)
    BY <1>1 DEF Reconcile
  <2> DEFINE dirty == NeedsPublication(e, outcome)
  <2>2. /\ run.at = "lookup" /\ e \in run.todo /\ Selected(e)
        /\ rows' = [rows EXCEPT ![e] = Saved(e, outcome, dirty)]
    BY <1>1, <2>1 DEF Reconcile, Work, Settle
  <2>3. /\ rows'[e].dirty = dirty /\ rows'[e].state = outcome.state
        /\ rows'[e].links = outcome.links
    BY <1>1, <2>2, SavedRow DEF IInv, TypeOK
  <2>4. outcome.links = rows[e].links
    BY <1>1, <2>3, KeptInOutage DEF IInv
  <2>5. ~IsDirty(e)
    <3>1. \A f \in run.todo : IsDirty(f) => f \in run.recovered /\ ~run.publish
      BY <1>1, <2>2 DEF IInv, RunInv, LookupInv, LookingUp, Publishing
    <3>2. QED
      BY <2>2, <3>1 DEF Selected
  <2>6. rows[e].links \in Links /\ rows[e].links # Nothing
    BY <1>1 DEF IInv, TypeOK, Row, RowInv, Justified
  <2>7. graph[e] = rows[e].links
    BY <1>1, <2>5 DEF IInv, SettledIsServed, IsDirty, Unresolved
  <2>8. rows[e].published = JsonHash(rows[e].links)
    BY <1>1, <2>5, <2>6, <2>7 DEF IInv, GraphIsAccountedFor, IsDirty
  <2>9. dirty => run.all
    BY <1>1, <2>3, <2>4, <2>5, <2>8 DEF NeedsPublication, IsDirty
  <2> HIDE DEF dirty
  <2>10. QED
    BY <2>3, <2>4, <2>9
<1>2. IInv /\ [Next]_vars => [\A e \in Entity : Kept(e)]_vars
  BY <1>1
<1>3. QED
  BY <1>2, Invariant, PTL DEF Spec, OutageKeepsLinks

----------------------------------------------------------------------------
\* What the weighing adds to a candidate is only what it would find in it again:
\* the client weighs what it looked up before resolve does, and the second
\* weighing finds the same contradictions, in a candidate still well formed.
THEOREM WeighedTwice ==
  ASSUME NEW k \in Kinds \ {"member"}, NEW c \in Candidate, WellFormed(k, c)
  PROVE  /\ Contradictions(k, Weighed(k, c)) = Contradictions(k, c)
         /\ WellFormed(k, Weighed(k, c))
<1> DEFINE w == Weighed(k, c)
<1>1. /\ w.negative = Contradictions(k, c)
      /\ w.types = c.types /\ w.jurisdictions = c.jurisdictions /\ w.relations = c.relations
      /\ w.descriptions = c.descriptions /\ w.labels = c.labels /\ w.matched = c.matched
      /\ w.methods = c.methods /\ w.qid = c.qid
  BY DEF Weighed, Candidate
<1>2. Facts(w) = Facts(c)
  BY <1>1 DEF Facts
<1> HIDE DEF w
<1>3. Contradictions(k, w) = Contradictions(k, c)
  BY <1>1, <1>2 DEF Contradictions
<1>4. ASSUME k = "party"
      PROVE  WellFormed(k, w)
  BY <1>1, <1>4 DEF WellFormed
<1>5. ASSUME k # "party"
      PROVE  WellFormed(k, w)
  <2>1. /\ c.types \in SUBSET Type /\ c.jurisdictions \in SUBSET Jurisdiction
        /\ c.descriptions \in SUBSET Description /\ c.relations \in SUBSET Relation
        /\ c.labels \in SUBSET Label
    BY DEF Candidate
  <2>2. Grounded(k, c)
    BY <1>5 DEF WellFormed
  <2>3. ASSUME NEW n \in Contradictions(k, c)
        PROVE  n \in Allowed(k) /\ n.of \in Facts(c)
    <3>1. CASE n \in c.negative
      BY <2>2, <3>1 DEF Grounded
    <3>2. CASE n \in Signs(k) /\ n.of \in Facts(c)
      <4>1. Signs(k) \subseteq Allowed(k)
        BY DEF Signs, Allowed, Against, Type, Relation, Label, Description
      <4>2. QED
        BY <3>2, <4>1
    <3>3. CASE n \in Against({"wrong-jurisdiction"}, c.jurisdictions)
      <4>1. n.of \in c.jurisdictions /\ n \in Against({"wrong-jurisdiction"}, Jurisdiction)
        BY <2>1, <3>3 DEF Against
      <4>2. Against({"wrong-jurisdiction"}, Jurisdiction) \subseteq Allowed(k)
        BY DEF Allowed
      <4>3. QED
        BY <4>1, <4>2 DEF Facts
    <3>4. n \in c.negative \/ (n \in Signs(k) /\ n.of \in Facts(c))
          \/ n \in Against({"wrong-jurisdiction"}, c.jurisdictions)
      BY <1>5 DEF Contradictions, Against
    <3>5. QED
      BY <3>1, <3>2, <3>3, <3>4
  <2>4. Grounded(k, w)
    BY <1>1, <1>2, <2>3 DEF Grounded
  <2>5. QED
    BY <1>1, <1>3, <1>5, <2>4 DEF WellFormed
<1>6. QED
  BY <1>3, <1>4, <1>5 DEF w
=============================================================================

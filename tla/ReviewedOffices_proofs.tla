----------------------- MODULE ReviewedOffices_proofs -----------------------
(***************************************************************************)
(* Proofs about what human review decides of offices: the ledger and the   *)
(* holdings it lets a member's graph have, and the sponsors of Bills that  *)
(* are linked to offices and holdings.                                     *)
(***************************************************************************)
EXTENDS OfficeHoldings, BillSponsors, FiniteSetTheorems, WellFoundedInduction, TLAPS

(***************************************************************************)
(* OfficeHoldings.  What a scan does to the ledger, and from it that a     *)
(* graph holds what was accepted and loses nothing unreviewed.             *)
(***************************************************************************)

\* What the ledger accepts is on record, and what is on record is evidence
\* until the key goes to another report.
EvidenceInv ==
  /\ \A k \in Evidence : ledger[k].last \in acceptances[k]
  /\ \A k \in Key \ reused : acceptances[k] # {} => k \in Evidence

\* The inductive invariant.
IInv ==
  /\ TypeOK
  /\ RowsAreDistinct
  /\ EvidenceInv
  /\ HoldingsAreAccepted
  /\ HoldingsAreDistinct

----------------------------------------------------------------------------
\* The report of an observed snapshot gets a key; if it continues the history
\* of a row, the key of that row (KeyOf).
LEMMA KeyOfReport ==
  ASSUME TypeOK, NEW s \in Observed
  PROVE  /\ KeyOf(s) \in Key
         /\ Predecessor(s) # {} => KeyOf(s) \in Predecessor(s)
         /\ Predecessor(s) \subseteq DOMAIN ledger
<1>1. Predecessor(s) \subseteq DOMAIN ledger
  BY DEF Predecessor, Exact, UnmatchedRows
<1>2. s \in Snapshot
  BY DEF Observed, TypeOK
<1>3. NewKey(s) \in Key
  BY <1>2 DEF NewKey, Key
<1>4. CASE Predecessor(s) = {}
  BY <1>1, <1>3, <1>4 DEF KeyOf
<1>5. CASE Predecessor(s) # {}
  <2>1. KeyOf(s) \in Predecessor(s)
    BY <1>5 DEF KeyOf
  <2>2. QED
    BY <2>1, <1>1 DEF TypeOK
<1>6. QED
  BY <1>4, <1>5

\* What a scan leaves behind (Reconcile): a row for each observed key, made
\* from a report with that key; every other row absent; and a record of the
\* keys given to new reports although they had a row.
LEMMA RowsAfterScan ==
  ASSUME TypeOK, Reconcile
  PROVE  /\ DOMAIN ledger \subseteq DOMAIN ledger' /\ DOMAIN ledger' \subseteq Key
         /\ ledger' = [k \in DOMAIN ledger' |-> ledger'[k]]
         /\ \A k \in DOMAIN ledger' :
              \/ \E s \in Observed : /\ KeyOf(s) = k
                                     /\ ledger'[k] = RowOf(s, k, Predecessor(s) # {})
              \/ /\ k \in DOMAIN ledger /\ \A s \in Observed : KeyOf(s) # k
                 /\ ledger'[k] = AbsentRow(k)
         /\ reused \subseteq reused' /\ reused' \subseteq Key
         /\ \A s \in Observed : Predecessor(s) = {} /\ KeyOf(s) \in DOMAIN ledger
              => KeyOf(s) \in reused'
<1> DEFINE known == {s \in Observed : Predecessor(s) # {}}
           key == [s \in Observed |-> KeyOf(s)]
           keys == {key[s] : s \in Observed}
           row(k) == IF k \in keys
                       THEN LET s == CHOOSE t \in Observed : key[t] = k
                            IN RowOf(s, k, s \in known)
                       ELSE AbsentRow(k)
<1>1. ledger' = [k \in DOMAIN ledger \cup keys |-> row(k)]
  BY DEF Reconcile
<1>2. reused' = reused \cup {k \in DOMAIN ledger : \E s \in Observed \ known : key[s] = k}
  BY DEF Reconcile
<1>3. keys \subseteq Key
  BY KeyOfReport
<1>4. DOMAIN ledger' = DOMAIN ledger \cup keys
  BY <1>1
<1>5. ASSUME NEW k \in DOMAIN ledger'
      PROVE  \/ \E s \in Observed : /\ KeyOf(s) = k
                                    /\ ledger'[k] = RowOf(s, k, Predecessor(s) # {})
             \/ /\ k \in DOMAIN ledger /\ \A s \in Observed : KeyOf(s) # k
                /\ ledger'[k] = AbsentRow(k)
  <2>1. ledger'[k] = row(k)
    BY <1>1, <1>4, <1>5
  <2>2. CASE k \in keys
    <3>1. PICK s \in Observed : s = CHOOSE t \in Observed : key[t] = k
      BY <2>2
    <3>2. key[s] = k
      BY <2>2, <3>1
    <3>3. ledger'[k] = RowOf(s, k, s \in known)
      BY <2>1, <2>2, <3>1
    <3>4. (s \in known) = (Predecessor(s) # {})
      OBVIOUS
    <3>5. QED
      BY <3>2, <3>3, <3>4
  <2>3. CASE k \notin keys
    BY <2>1, <2>3, <1>4
  <2>4. QED
    BY <2>2, <2>3
<1>6. \A s \in Observed : Predecessor(s) = {} /\ KeyOf(s) \in DOMAIN ledger => KeyOf(s) \in reused'
  BY <1>2
<1>7. DOMAIN ledger \subseteq Key /\ reused \subseteq Key
  BY DEF TypeOK
<1> HIDE DEF known, key, keys, row
<1>8. ledger' = [k \in DOMAIN ledger' |-> ledger'[k]]
  BY <1>1
<1>9. reused \subseteq reused' /\ reused' \subseteq Key
  BY <1>2, <1>7
<1>10. QED
  BY <1>3, <1>4, <1>5, <1>6, <1>7, <1>8, <1>9

----------------------------------------------------------------------------
\* A row made from a report is a row (RowOf): what it accepts is an office with
\* the dates of the report, and what was accepted before is otherwise kept.
LEMMA RowOfReport ==
  ASSUME TypeOK, NEW s \in Snapshot, NEW k \in Key, NEW known \in BOOLEAN,
         known => k \in DOMAIN ledger
  PROVE  /\ RowOf(s, k, known) \in Row
         /\ RowOf(s, k, known).snapshot = s
         /\ RowOf(s, k, known).status = StatusOf(s, k, known)
         /\ known /\ ledger[k].last # NotAccepted => RowOf(s, k, known).last # NotAccepted
<1> DEFINE last == IF StatusOf(s, k, known) = "accepted"
                     THEN [office |-> Target(s, k), snapshot |-> s]
                     ELSE IF known THEN ledger[k].last ELSE NotAccepted
<1>1. review[k] \in Decision \cup {NoDecision} /\ matches \subseteq Office
  BY DEF TypeOK
<1>2. known => ledger[k] \in Row
  BY DEF TypeOK
<1>3. StatusOf(s, k, known) \in {"accepted", "rejected", "review_required"}
  BY DEF StatusOf
<1>4. Candidates(s) \subseteq Office
  BY <1>1 DEF Candidates
<1>5. LatestDecision(k, known) \in Decision \cup {NoDecision}
  BY <1>1, <1>2 DEF LatestDecision, Row
<1>6. ASSUME StatusOf(s, k, known) = "accepted"
      PROVE  Target(s, k) \in Office
  <2>1. CASE review[k] = NoDecision
    BY <1>6, <2>1 DEF StatusOf, AutoAccepts, Target
  <2>2. CASE review[k] # NoDecision
    <3>1. review[k].verdict = "accept"
      BY <1>6, <2>2 DEF StatusOf
    <3>2. review[k].office \in Office
      BY <1>1, <2>2, <3>1 DEF Decision
    <3>3. QED
      BY <2>2, <3>2 DEF Target
  <2>3. QED
    BY <2>1, <2>2
<1>7. last \in Resolution \cup {NotAccepted}
  BY <1>2, <1>6 DEF Resolution, Row
<1>8. known /\ ledger[k].last # NotAccepted => last # NotAccepted
  <2>1. CASE StatusOf(s, k, known) = "accepted"
    <3>1. last \in Resolution
      BY <1>6, <2>1 DEF Resolution
    <3>2. QED
      BY <3>1, NamesAreFresh
  <2>2. CASE StatusOf(s, k, known) # "accepted"
    BY <2>2
  <2>3. QED
    BY <2>1, <2>2
<1>9. RowOf(s, k, known) =
        [snapshot |-> s, present |-> TRUE, status |-> StatusOf(s, k, known),
         candidates |-> Candidates(s), decision |-> LatestDecision(k, known), last |-> last]
  BY DEF RowOf
<1> HIDE DEF last
<1>10. QED
  BY <1>3, <1>4, <1>5, <1>7, <1>8, <1>9 DEF Row

\* A row that turns absent keeps its snapshot and what it accepted (AbsentRow).
LEMMA AbsentRowKeeps ==
  ASSUME TypeOK, NEW k \in DOMAIN ledger
  PROVE  /\ AbsentRow(k) \in Row
         /\ AbsentRow(k).snapshot = ledger[k].snapshot
         /\ AbsentRow(k).status = "review_required"
         /\ AbsentRow(k).last = ledger[k].last
<1>1. ledger[k] \in Row /\ review[k] \in Decision \cup {NoDecision}
  BY DEF TypeOK
<1>2. LatestDecision(k, TRUE) \in Decision \cup {NoDecision}
  BY <1>1 DEF LatestDecision, Row
<1>3. QED
  BY <1>1, <1>2 DEF AbsentRow, Row

\* A scan leaves a ledger of rows, whose acceptances are on record, and forgets
\* no recorded acceptance.
LEMMA ScanKeepsTypes ==
  ASSUME TypeOK, Reconcile
  PROVE  /\ ledger' \in [DOMAIN ledger' -> Row]
         /\ acceptances' \in [Key -> SUBSET Resolution]
         /\ \A k \in Key : /\ acceptances[k] \subseteq acceptances'[k]
                           /\ acceptances'[k] = Recorded(k, ledger')
<1>1. ASSUME NEW k \in DOMAIN ledger'
      PROVE  ledger'[k] \in Row
  <2>1. CASE \E s \in Observed : /\ KeyOf(s) = k
                                 /\ ledger'[k] = RowOf(s, k, Predecessor(s) # {})
    <3>1. PICK s \in Observed : KeyOf(s) = k /\ ledger'[k] = RowOf(s, k, Predecessor(s) # {})
      BY <2>1
    <3>2. s \in Snapshot
      BY DEF Observed, TypeOK
    <3>3. k \in Key /\ (Predecessor(s) # {} => k \in DOMAIN ledger)
      BY <3>1, KeyOfReport
    <3>4. QED
      BY <3>1, <3>2, <3>3, RowOfReport
  <2>2. CASE k \in DOMAIN ledger /\ ledger'[k] = AbsentRow(k)
    BY <2>2, AbsentRowKeeps
  <2>3. QED
    BY <2>1, <2>2, RowsAfterScan
<1>2. acceptances' = [k \in Key |-> Recorded(k, ledger')]
  BY DEF Reconcile
<1>3. \A k \in Key : acceptances[k] \in SUBSET Resolution
  BY DEF TypeOK
<1>4. \A k \in Key : Recorded(k, ledger') \in SUBSET Resolution
  BY <1>3 DEF Recorded
<1>5. ledger' \in [DOMAIN ledger' -> Row]
  BY <1>1, RowsAfterScan
<1>6. QED
  BY <1>2, <1>4, <1>5 DEF Recorded

\* A scan keeps the snapshots of the rows apart: an absent row with the snapshot
\* of a report would be an exact match, and its key the report's.
LEMMA ScanKeepsRowsDistinct ==
  ASSUME TypeOK, RowsAreDistinct, Reconcile
  PROVE  RowsAreDistinct'
<1> DEFINE IsObserved(k, s) == s \in Observed /\ KeyOf(s) = k /\ ledger'[k].snapshot = s
           IsAbsent(k) == /\ k \in DOMAIN ledger /\ \A s \in Observed : KeyOf(s) # k
                          /\ ledger'[k].snapshot = ledger[k].snapshot
<1>1. ASSUME NEW k \in DOMAIN ledger'
      PROVE  (\E s \in Observed : IsObserved(k, s)) \/ IsAbsent(k)
  <2>1. ASSUME NEW s \in Observed, KeyOf(s) = k, ledger'[k] = RowOf(s, k, Predecessor(s) # {})
        PROVE  IsObserved(k, s)
    <3>1. s \in Snapshot
      BY DEF Observed, TypeOK
    <3>2. k \in Key /\ (Predecessor(s) # {} => k \in DOMAIN ledger)
      BY <2>1, KeyOfReport
    <3>3. RowOf(s, k, Predecessor(s) # {}).snapshot = s
      BY <3>1, <3>2, RowOfReport
    <3>4. QED
      BY <2>1, <3>3
  <2>2. CASE /\ k \in DOMAIN ledger /\ \A s \in Observed : KeyOf(s) # k
             /\ ledger'[k] = AbsentRow(k)
    BY <2>2, AbsentRowKeeps
  <2>3. QED
    BY <2>1, <2>2, RowsAfterScan
<1>2. ASSUME NEW j \in DOMAIN ledger, NEW s \in Observed, ledger[j].snapshot = s
      PROVE  KeyOf(s) = j
  <2>1. j \in Exact(s)
    BY <1>2 DEF Exact
  <2>2. Predecessor(s) = Exact(s)
    BY <2>1 DEF Predecessor, UnmatchedReports
  <2>3. KeyOf(s) \in Exact(s)
    BY <2>1, <2>2, KeyOfReport
  <2>4. QED
    BY <1>2, <2>3 DEF Exact, RowsAreDistinct
<1>3. ASSUME NEW j \in DOMAIN ledger', NEW k \in DOMAIN ledger',
             ledger'[j].snapshot = ledger'[k].snapshot
      PROVE  j = k
  <2>1. CASE IsAbsent(j) /\ IsAbsent(k)
    BY <1>3, <2>1 DEF RowsAreDistinct
  <2>2. ASSUME NEW s \in Observed, IsObserved(j, s), IsAbsent(k)
        PROVE  FALSE
    BY <1>2, <1>3, <2>2
  <2>3. ASSUME NEW s \in Observed, IsObserved(k, s), IsAbsent(j)
        PROVE  FALSE
    BY <1>2, <1>3, <2>3
  <2>4. CASE (\E s \in Observed : IsObserved(j, s)) /\ (\E s \in Observed : IsObserved(k, s))
    BY <1>3, <2>4
  <2>5. QED
    BY <1>1, <2>1, <2>2, <2>3, <2>4
<1>4. QED
  BY <1>3 DEF RowsAreDistinct

\* A scan that does not give the key of a row to another report keeps what the
\* row accepted, and asks for a review when the row's decision was removed, which
\* it does not forget.
LEMMA ScanKeepsRow ==
  ASSUME TypeOK, Reconcile, NEW k \in DOMAIN ledger, k \notin reused'
  PROVE  /\ ledger[k].last # NotAccepted => ledger'[k].last # NotAccepted
         /\ ledger[k].decision # NoDecision /\ review[k] = NoDecision
              => ledger'[k].status = "review_required" /\ ledger'[k].decision # NoDecision
<1>1. k \in DOMAIN ledger'
  BY RowsAfterScan
<1>2. ASSUME NEW s \in Observed, KeyOf(s) = k, ledger'[k] = RowOf(s, k, Predecessor(s) # {})
      PROVE  /\ ledger[k].last # NotAccepted => ledger'[k].last # NotAccepted
             /\ ledger[k].decision # NoDecision /\ review[k] = NoDecision
                  => ledger'[k].status = "review_required" /\ ledger'[k].decision # NoDecision
  <2>1. s \in Snapshot /\ k \in Key
    BY DEF Observed, TypeOK
  <2>2. Predecessor(s) # {}
    BY <1>2, RowsAfterScan
  <2>3. ledger'[k] = RowOf(s, k, TRUE)
    BY <1>2, <2>2
  <2>4. ledger[k].last # NotAccepted => ledger'[k].last # NotAccepted
    <3>1. ledger[k].last # NotAccepted => RowOf(s, k, TRUE).last # NotAccepted
      BY <2>1, RowOfReport
    <3>2. QED
      BY <2>3, <3>1
  <2>5. ledger'[k].status = StatusOf(s, k, TRUE)
    BY <2>1, <2>3, RowOfReport
  <2>6. ledger[k].decision # NoDecision /\ review[k] = NoDecision => NeedsReview(s, k, TRUE)
    BY DEF NeedsReview, ReviewIsStale
  <2>7. ledger[k].decision # NoDecision /\ review[k] = NoDecision
          => ledger'[k].decision # NoDecision
    BY <2>3 DEF RowOf, LatestDecision
  <2>8. QED
    BY <2>4, <2>5, <2>6, <2>7 DEF StatusOf
<1>3. CASE ledger'[k] = AbsentRow(k)
  <2>1. ledger[k] \in Row
    BY DEF TypeOK
  <2>2. ledger[k].decision # NoDecision => AbsentRow(k).decision # NoDecision
    BY <2>1 DEF AbsentRow, LatestDecision, Row
  <2>3. QED
    BY <1>3, <2>2, AbsentRowKeeps
<1>4. QED
  BY <1>1, <1>2, <1>3, RowsAfterScan

\* A scan keeps the record and the evidence in step.
LEMMA ScanKeepsEvidence ==
  ASSUME TypeOK, EvidenceInv, Reconcile
  PROVE  EvidenceInv'
<1>1. \A k \in Key : acceptances'[k] =
        acceptances[k] \cup {r \in Resolution : k \in DOMAIN ledger' /\ ledger'[k].last = r}
  BY ScanKeepsTypes DEF Recorded
<1>2. DOMAIN ledger' \subseteq Key /\ reused \subseteq reused'
  BY RowsAfterScan
<1>3. \A k \in DOMAIN ledger' : ledger'[k].last \in Resolution \cup {NotAccepted}
  BY ScanKeepsTypes DEF Row
<1>4. ASSUME NEW k \in Evidence'
      PROVE  ledger'[k].last \in acceptances'[k]
  BY <1>1, <1>2, <1>3, <1>4 DEF Evidence
<1>5. ASSUME NEW k \in Key \ reused', acceptances'[k] # {}
      PROVE  k \in Evidence'
  <2>1. CASE acceptances[k] # {}
    <3>1. k \in DOMAIN ledger /\ ledger[k].last # NotAccepted
      BY <1>2, <2>1 DEF EvidenceInv, Evidence
    <3>2. k \in DOMAIN ledger'
      BY <3>1, RowsAfterScan
    <3>3. QED
      BY <3>1, <3>2, ScanKeepsRow DEF Evidence
  <2>2. CASE acceptances[k] = {}
    BY <1>1, <1>5, <2>2, NamesAreFresh DEF Evidence
  <2>3. QED
    BY <2>1, <2>2
<1>6. QED
  BY <1>4, <1>5 DEF EvidenceInv

----------------------------------------------------------------------------
\* The variables keep their types through a scan; a command that scans leaves
\* Core State alone.
LEMMA ScanTypes ==
  ASSUME TypeOK, Reconcile, UNCHANGED <<coreVars, faults>>,
         pc' \in {"idle", "compose", "replay", "publish"}, fetched' \subseteq Snapshot
  PROVE  TypeOK'
<1>1. /\ ledger' \in [DOMAIN ledger' -> Row] /\ DOMAIN ledger' \subseteq Key
      /\ acceptances' \in [Key -> SUBSET Resolution] /\ reused' \subseteq Key
  BY RowsAfterScan, ScanKeepsTypes
<1>2. UNCHANGED sourceVars
  BY DEF Reconcile
<1>3. QED
  BY <1>1, <1>2 DEF TypeOK, sourceVars, coreVars

\* A graph composed of evidence (Composed) is a payload, holds what is on
\* record, and each office of an occurrence once: an occurrence accepted anew
\* is not retained.
LEMMA ComposedHoldings ==
  ASSUME IInv
  PROVE  /\ Composed \in Payload
         /\ \A h \in Composed.holdings :
              [office |-> h.office, snapshot |-> h.snapshot] \in acceptances[h.key]
         /\ \A g, h \in Composed.holdings : g.key = h.key /\ g.office = h.office => g = h
<1>1. ASSUME NEW k \in Accepted
      PROVE  /\ k \in Key /\ ledger[k].last \in Resolution
             /\ ledger[k].last \in acceptances[k]
             /\ ledger[k].last =
                  [office |-> ledger[k].last.office, snapshot |-> ledger[k].last.snapshot]
  <2>1. k \in Evidence /\ k \in Key /\ ledger[k] \in Row
    BY <1>1 DEF Accepted, Evidence, IInv, TypeOK
  <2>2. ledger[k].last \in Resolution
    BY <2>1 DEF Evidence, Row
  <2>3. ledger[k].last \in acceptances[k]
    BY <2>1 DEF IInv, EvidenceInv
  <2>4. QED
    BY <2>1, <2>2, <2>3 DEF Resolution
<1>2. ASSUME NEW h \in Current
      PROVE  /\ h \in Holding /\ h.key \in Accepted
             /\ h = HoldingOf(h.key, ledger[h.key].last)
             /\ [office |-> h.office, snapshot |-> h.snapshot] \in acceptances[h.key]
  BY <1>1 DEF Current, HoldingOf, Holding, Resolution
<1>3. Holdings(published) \subseteq Holding
  BY DEF IInv, TypeOK, Holdings, Payload
<1>4. ASSUME NEW h \in Retained
      PROVE  /\ h \in Holding /\ h \in Holdings(published) /\ h.key \notin Accepted
             /\ [office |-> h.office, snapshot |-> h.snapshot] \in acceptances[h.key]
  BY <1>3 DEF Retained, Retainable
<1>5. Composed.holdings = Current \cup Retained
  BY DEF Composed
<1>6. Composed \in Payload
  BY <1>2, <1>4 DEF Composed, Payload, IInv, TypeOK
<1>7. ASSUME NEW g \in Composed.holdings, NEW h \in Composed.holdings,
             g.key = h.key, g.office = h.office
      PROVE  g = h
  <2>1. CASE g \in Current /\ h \in Current
    BY <1>2, <1>7, <2>1
  <2>2. CASE g \in Retained /\ h \in Retained
    BY <1>4, <1>7, <2>2 DEF IInv, HoldingsAreDistinct
  <2>3. QED
    BY <1>2, <1>4, <1>5, <1>7, <2>1, <2>2
<1>8. QED
  BY <1>2, <1>4, <1>5, <1>6, <1>7

\* The invariant holds at first, when there is no ledger and no graph.
LEMMA InitIInv == Init => IInv
<1> SUFFICES ASSUME Init PROVE IInv
  OBVIOUS
<1>1. ledger \in [DOMAIN ledger -> Row] /\ DOMAIN ledger = {}
  BY DEF Init, LedgerInit
<1>2. TypeOK
  BY <1>1, ChangesAreBounded, FaultsAreBounded DEF Init, LedgerInit, TypeOK
<1>3. RowsAreDistinct
  BY <1>1 DEF RowsAreDistinct
<1>4. EvidenceInv
  BY <1>1 DEF EvidenceInv, Evidence, Init, LedgerInit
<1>5. HoldingsAreAccepted /\ HoldingsAreDistinct
  BY DEF HoldingsAreAccepted, HoldingsAreDistinct, Holdings, Init
<1>6. QED
  BY <1>2, <1>3, <1>4, <1>5 DEF IInv

\* Commands that scan keep it.
LEMMA ScanKeepsIInv ==
  ASSUME IInv, StartMembers \/ ReconcileOnly
  PROVE  IInv'
<1>1. Reconcile /\ UNCHANGED <<coreVars, faults>>
  BY DEF StartMembers, ReconcileOnly
<1>2. TypeOK'
  <2>1. Observed \subseteq Snapshot
    BY DEF Observed, IInv, TypeOK
  <2>2. pc' \in {"idle", "compose", "replay", "publish"} /\ fetched' \subseteq Snapshot
    BY <2>1 DEF StartMembers, ReconcileOnly, runVars, IInv, TypeOK
  <2>3. QED
    BY <1>1, <2>2, ScanTypes DEF IInv
<1>3. RowsAreDistinct'
  BY <1>1, ScanKeepsRowsDistinct DEF IInv
<1>4. EvidenceInv'
  BY <1>1, ScanKeepsEvidence DEF IInv
<1>5. HoldingsAreAccepted'
  <2>1. Holdings(published) \cup Holdings(pending) \subseteq Holding
    BY DEF IInv, TypeOK, Holdings, Payload
  <2>2. \A h \in Holding : acceptances[h.key] \subseteq acceptances'[h.key]
    BY <1>1, ScanKeepsTypes DEF IInv, Holding
  <2>3. QED
    BY <1>1, <2>1, <2>2 DEF IInv, HoldingsAreAccepted, Holdings, coreVars
<1>6. HoldingsAreDistinct'
  BY <1>1 DEF IInv, HoldingsAreDistinct, Holdings, coreVars
<1>7. QED
  BY <1>2, <1>3, <1>4, <1>5, <1>6 DEF IInv

\* Steps of the environment touch neither the ledger nor a graph.
LEMMA EnvironmentKeepsIInv ==
  ASSUME IInv, Environment, UNCHANGED <<coreVars, runVars, faults>>
  PROVE  IInv'
<1>1. UNCHANGED <<ledgerVars, coreVars>>
  BY DEF Environment, ChangeReports, ChangeListing, ChangeRegistry, Decide
<1>2. changes' \in 0..MaxChanges
  BY ChangesAreBounded DEF Environment, ChangeReports, ChangeListing, ChangeRegistry, Decide, Change,
     IInv, TypeOK
<1>3. listed' \in BOOLEAN /\ reports' \subseteq Snapshot /\ matches' \subseteq Office
  BY DEF Environment, ChangeReports, ChangeListing, ChangeRegistry, Decide, IInv, TypeOK
<1>4. review' \in [Key -> Decision \cup {NoDecision}]
  <2>1. review \in [Key -> Decision \cup {NoDecision}]
    BY DEF IInv, TypeOK
  <2>2. ASSUME NEW k \in Key, NEW d \in Decision \cup {NoDecision}, Decide(k, d)
        PROVE  review' \in [Key -> Decision \cup {NoDecision}]
    BY <2>1, <2>2 DEF Decide
  <2>3. QED
    BY <2>1, <2>2 DEF Environment, ChangeReports, ChangeListing, ChangeRegistry
<1>5. TypeOK'
  BY <1>1, <1>2, <1>3, <1>4 DEF IInv, TypeOK, ledgerVars, coreVars, runVars
<1>6. (RowsAreDistinct /\ EvidenceInv /\ HoldingsAreAccepted /\ HoldingsAreDistinct)'
  BY <1>1 DEF IInv, RowsAreDistinct, EvidenceInv, Evidence, HoldingsAreAccepted,
     HoldingsAreDistinct, Holdings, ledgerVars, coreVars
<1>7. QED
  BY <1>5, <1>6 DEF IInv

\* The steps of a run after its scan, and its end at any of them, keep it.
LEMMA PublicationKeepsIInv ==
  ASSUME IInv, Skip \/ MarkDirty \/ Complete \/ Replay \/ GiveUp
  PROVE  IInv'
<1>1. UNCHANGED <<sourceVars, ledgerVars>>
  BY DEF Skip, MarkDirty, Complete, Replay, GiveUp
<1>2. faults' \in 0..MaxFaults
  BY FaultsAreBounded DEF Skip, MarkDirty, Complete, Replay, GiveUp, Fault, IInv, TypeOK
<1>3. pc' \in {"idle", "compose", "replay", "publish"} /\ fetched' \subseteq Snapshot
  BY DEF Skip, MarkDirty, Complete, Replay, GiveUp, EndMembers, IInv, TypeOK
<1>4. \/ UNCHANGED coreVars
      \/ published' = published /\ pending' = Composed
      \/ published' = pending /\ pending' = NoPayload
  BY DEF Skip, MarkDirty, Complete, Replay, GiveUp, coreVars
<1>5. TypeOK'
  BY <1>1, <1>2, <1>3, <1>4, ComposedHoldings
     DEF IInv, TypeOK, sourceVars, ledgerVars, coreVars
<1>6. RowsAreDistinct' /\ EvidenceInv'
  BY <1>1 DEF IInv, RowsAreDistinct, EvidenceInv, Evidence, ledgerVars
<1>7. HoldingsAreAccepted'
  BY <1>1, <1>4, ComposedHoldings DEF IInv, HoldingsAreAccepted, Holdings, ledgerVars, coreVars
<1>8. HoldingsAreDistinct'
  BY <1>4, ComposedHoldings DEF IInv, HoldingsAreDistinct, Holdings, coreVars
<1>9. QED
  BY <1>5, <1>6, <1>7, <1>8 DEF IInv

\* IInv is inductive.
LEMMA NextIInv == IInv /\ [Next]_vars => IInv'
<1> SUFFICES ASSUME IInv, [Next]_vars PROVE IInv'
  OBVIOUS
<1>1. CASE StartMembers \/ ReconcileOnly
  BY <1>1, ScanKeepsIInv
<1>2. CASE Skip \/ MarkDirty \/ Complete \/ Replay \/ GiveUp
  BY <1>2, PublicationKeepsIInv
<1>3. CASE Environment /\ UNCHANGED <<coreVars, runVars, faults>>
  BY <1>3, EnvironmentKeepsIInv
<1>4. CASE ScanCollides \/ UNCHANGED vars
  <2>1. UNCHANGED <<sourceVars, ledgerVars, coreVars, runVars, faults>>
    BY <1>4 DEF ScanCollides, vars
  <2>2. QED
    BY <2>1 DEF IInv, TypeOK, RowsAreDistinct, EvidenceInv, Evidence, HoldingsAreAccepted,
       HoldingsAreDistinct, Holdings, sourceVars, ledgerVars, coreVars, runVars
<1>5. QED
  BY <1>1, <1>2, <1>3, <1>4 DEF Next, Members

\* In every reachable state the ledger, its records and the graphs agree.
LEMMA InvariantHolds == Spec => []IInv
<1>1. QED
  BY InitIInv, NextIInv, PTL DEF Spec

----------------------------------------------------------------------------
\* Every variable keeps its type (office_occurrence and core_publication rows).
THEOREM TypeCorrect == Spec => []TypeOK
<1>1. IInv => TypeOK
  BY DEF IInv
<1>2. QED
  BY <1>1, InvariantHolds, PTL

\* However often reports are corrected, withdrawn and brought back, no report
\* belongs to two rows (reconcile, "ambiguous duplicate occurrence ledger rows").
THEOREM RowsDistinct == Spec => []RowsAreDistinct
<1>1. IInv => RowsAreDistinct
  BY DEF IInv
<1>2. QED
  BY <1>1, InvariantHolds, PTL

\* A published or pending graph holds only what the ledger accepted for that
\* occurrence, wherever runs died between the two databases.
THEOREM HoldingsAccepted == Spec => []HoldingsAreAccepted
<1>1. IInv => HoldingsAreAccepted
  BY DEF IInv
<1>2. QED
  BY <1>1, InvariantHolds, PTL

\* A graph gives an occurrence each office once (_office_holding_iri).
THEOREM HoldingsDistinct == Spec => []HoldingsAreDistinct
<1>1. IInv => HoldingsAreDistinct
  BY DEF IInv
<1>2. QED
  BY <1>1, InvariantHolds, PTL

\* A new graph leaves out a holding only on a current acceptance or a
\* revocation of its occurrence (_office_member_gate), unless its key was
\* given to another report.
THEOREM RetirementReviewed == Spec => RetirementNeedsEvidence
<1> DEFINE Step == pending' \notin {pending, NoPayload} =>
                     \A h \in Holdings(published) :
                       \/ h.key \in reused \cup Accepted \cup Revoked
                       \/ \E g \in pending'.holdings : g.key = h.key /\ g.office = h.office
<1>1. IInv /\ [Next]_vars => [Step]_vars
  <2> SUFFICES ASSUME IInv, Next, pending' \notin {pending, NoPayload},
                      NEW h \in Holdings(published), h.key \notin reused \cup Accepted \cup Revoked
               PROVE  \E g \in pending'.holdings : g.key = h.key /\ g.office = h.office
    OBVIOUS
  <2>1. MarkDirty
    BY DEF Next, Members, StartMembers, ReconcileOnly, ScanCollides, Skip, Complete, Replay,
       GiveUp, coreVars, vars
  <2>2. pending' = Composed /\ ~IsBlocked
    BY <2>1 DEF MarkDirty
  <2>3. h.key \in Evidence
    <3>1. h \in Holding
      BY DEF IInv, TypeOK, Holdings, Payload
    <3>2. acceptances[h.key] # {}
      BY DEF IInv, HoldingsAreAccepted
    <3>3. QED
      BY <3>1, <3>2 DEF IInv, EvidenceInv, Holding
  <2>4. h \notin Unaccounted
    BY <2>2, <2>3 DEF IsBlocked
  <2>5. \E g \in Current \cup Retained : g.key = h.key /\ g.office = h.office
    BY <2>4 DEF Unaccounted, IsSuperseded
  <2>6. QED
    BY <2>2, <2>5 DEF Composed
<1>2. QED
  BY <1>1, InvariantHolds, PTL DEF Spec, RetirementNeedsEvidence

\* When a decision disappears from the review file, its occurrence is not
\* accepted again by any scan until there is another (reconcile).
THEOREM RemovalReviewed == Spec => RemovalNeedsReview
<1> DEFINE Step == \A k \in DOMAIN ledger \ reused' :
                     ledger[k].decision # NoDecision /\ review[k] = NoDecision /\ ledger' # ledger
                       => ledger'[k].status # "accepted" /\ ledger'[k].decision # NoDecision
<1>1. IInv /\ [Next]_vars => [Step]_vars
  <2> SUFFICES ASSUME IInv, Next, ledger' # ledger, NEW k \in DOMAIN ledger \ reused',
                      ledger[k].decision # NoDecision, review[k] = NoDecision
               PROVE  ledger'[k].status # "accepted" /\ ledger'[k].decision # NoDecision
    OBVIOUS
  <2>1. Reconcile
    BY DEF Next, Members, StartMembers, ReconcileOnly, ScanCollides, Skip, MarkDirty, Complete,
       Replay, GiveUp, Environment, ChangeReports, ChangeListing, ChangeRegistry, Decide,
       ledgerVars, vars
  <2>2. ledger'[k].status = "review_required" /\ ledger'[k].decision # NoDecision
    BY <2>1, ScanKeepsRow DEF IInv
  <2>3. QED
    BY <2>2
<1>2. QED
  BY <1>1, InvariantHolds, PTL DEF Spec, RemovalNeedsReview

----------------------------------------------------------------------------
(***************************************************************************)
(* BillSponsors.  What a label accepts rests on evidence that was never    *)
(* questioned, because a record remembers how it was judged and on what.   *)
(* What a finished run serves are its own records, because the row being   *)
(* published is of a Bill the run has yet to count as seen.                *)
(***************************************************************************)

\* The offices a label could have been matched with, on given evidence.
OfficesIn(of, s) == IF s \in of.edition.disputed THEN {} ELSE of.registry[s]

\* How a record was judged shows in it.
OutcomeInv ==
  \A s \in Sponsor :
    IF records[s] = Nothing THEN attempts[s] = {}
    ELSE /\ records[s].by = "gate" => records[s].status = "review_required"
         /\ records[s].by = "review" => records[s].decision # Nothing
         /\ records[s].by = "none" => OfficesIn(records[s].of, s) = {}

\* A Bill in hand has not been seen; one that is put again after the Bills of
\* the input is none of them.
BillInv ==
  /\ run.at = "build" => run.bill \in DOMAIN run.input \ run.seen
  /\ run.at # "idle" => run.seen \subseteq DOMAIN run.input
  /\ run.at \in {"replay", "done"} => run.seen = DOMAIN run.input
  /\ run.at \in {"put", "complete"} =>
       /\ run.publish /\ run.bill \in Bill \ run.seen
       /\ run.bill \notin DOMAIN run.input => run.seen = DOMAIN run.input

\* The row being published is dirty, with the links of the records if its
\* Bill is in the input.
PendingLinksInv ==
  run.at \in {"put", "complete"} =>
    \A b \in Bill : b = run.bill =>
      /\ IsPublication(b, rows[b]) /\ rows[b].state = "dirty"
      /\ b \in DOMAIN run.input => rows[b].pending = Links(b)

\* What a publishing run has seen, it serves.
SeenIsServed ==
  run.at # "idle" /\ run.publish =>
    \A b \in run.seen : /\ rows[b] # Nothing => rows[b].state = "clean"
                        /\ graph[b] = Links(b)

SponsorInv ==
  /\ SponsorTypeOK
  /\ DecisionsAreJustified
  /\ OnlyUnquestionedIsAutomatic /\ OutcomeInv
  /\ BillInv
  /\ PendingLinksInv
  /\ SeenIsServed /\ FinishedRunIsServed

----------------------------------------------------------------------------
LEMMA SponsorOfBill ==
  ASSUME NEW b \in Bill, NEW s \in Of[b]
  PROVE  s \in Sponsor /\ BillOf[s] = b
<1>1. s \in Sponsor
  BY DEF Sponsor, Of, Range
<1>2. \A c \in Bill : s \in Of[c] => c = b
  BY EditionsListSponsors
<1>3. (CHOOSE c \in Bill : s \in Of[c]) = b
  BY <1>2
<1>4. QED
  BY <1>1, <1>3 DEF BillOf

LEMMA BillOfSponsor ==
  ASSUME NEW s \in Sponsor
  PROVE  BillOf[s] \in Bill /\ s \in Of[BillOf[s]]
<1>1. PICK b \in Bill : s \in Of[b]
  BY DEF Sponsor, Of, Range
<1>2. QED
  BY <1>1, SponsorOfBill

\* What a running command has in hand of a Bill.
LEMMA InputOfBill ==
  ASSUME SponsorTypeOK, run.at # "idle", NEW b \in DOMAIN run.input
  PROVE  /\ b \in Bill /\ run.input[b] \in Editions[b]
         /\ run.input[b].order \in Seq(Of[b]) /\ run.input[b].dated \in BOOLEAN
         /\ ListedSponsors(b) \subseteq Of[b]
<1>1. b \in Bill /\ run.input[b] \in Editions[b]
  BY DEF SponsorTypeOK, Inputs
<1>2. run.input[b].order \in Seq(Of[b]) /\ run.input[b].dated \in BOOLEAN
  BY <1>1, EditionsListSponsors
<1>3. ListedSponsors(b) \subseteq Of[b]
  BY <1>2 DEF ListedSponsors, Range
<1>4. QED
  BY <1>1, <1>2, <1>3

LEMMA LeastNatural ==
  ASSUME NEW T, T \subseteq Nat, T # {}
  PROVE  \E i \in T : \A j \in T : ~(j < i)
<1> DEFINE R == {p \in Nat \X Nat : p[1] < p[2]}
<1>1. IsWellFoundedOn(R, Nat)
  BY NatLessThanWellFounded DEF OpToRel
<1> HIDE DEF R
<1>2. \E i \in T : \A j \in T : <<j, i>> \notin R
  BY <1>1, WFMin
<1>3. \A i, j \in Nat : j < i => <<j, i>> \in R
  BY DEF R
<1>4. QED
  BY <1>2, <1>3

\* The first place of a sponsor in the list of its Bill.
LEMMA IndexIsNatural ==
  ASSUME SponsorTypeOK, run.at # "idle", NEW s \in Sponsor,
         BillOf[s] \in DOMAIN run.input, s \in ListedSponsors(BillOf[s])
  PROVE  Index(s) \in Nat
<1> DEFINE order == run.input[BillOf[s]].order
           T == {i \in 1..Len(order) : order[i] = s}
<1>1. order \in Seq(Of[BillOf[s]])
  BY InputOfBill
<1>2. T \subseteq Nat /\ T # {}
  BY <1>1 DEF ListedSponsors, Range
<1>3. PICK i \in T : \A j \in T : ~(j < i)
  BY <1>2, LeastNatural
<1>4. i \in 1..Len(order) /\ order[i] = s /\ \A j \in 1..(i - 1) : order[j] # s
  BY <1>1, <1>3
<1> HIDE DEF order
<1>5. (CHOOSE k \in 1..Len(order) : /\ order[k] = s
                                    /\ \A j \in 1..(k - 1) : order[j] # s) \in 1..Len(order)
  BY <1>4
<1>6. Index(s) \in 1..Len(order)
  BY <1>5 DEF Index, order
<1>7. QED
  BY <1>6, <1>1

----------------------------------------------------------------------------
\* A judgement, as the record and the validator want it: an acceptance is a
\* decision of a human on this evidence, or the only office of the label.
JudgedSoundly(s, j) ==
  /\ j \in [status : Status, by : {"review", "label", "gate", "none"},
            target : LinkTarget \cup {NoTarget}]
  /\ (j.status = "accepted") = (j.target # NoTarget)
  /\ j.by = "gate" => j.status = "review_required"
  /\ j.by = "review" => run.review[s] # Nothing
  /\ j.by \in {"label", "none"} => run.review[s] = Nothing /\ ~Gated(s)
  /\ j.by = "none" => j.status = "unresolved" /\ MatchingOffices(s) = {}
  /\ j.by = "label" =>
       /\ j.status = "accepted"
       /\ MatchingOffices(s) = {j.target.office} /\ j.target.holding = Nothing
  /\ j.by = "review" /\ j.status = "accepted" =>
       /\ run.review[s].status = "accepted"
       /\ run.review[s].of = CurrentEvidence(s) /\ run.review[s].target = j.target
       /\ Qualified(s, j.target)
       /\ j.target.holding # Nothing => InContext(s)

LEMMA ForReviewIsSound ==
  ASSUME NEW s PROVE JudgedSoundly(s, ForReview)
BY DEF JudgedSoundly, ForReview, Judged, Status

LEMMA ReviewIsSound ==
  ASSUME NEW s \in Sponsor, run.review[s] \in SponsorDecision(s), run.review[s] # Nothing
  PROVE  JudgedSoundly(s, ByReview(s))
<1> DEFINE d == run.review[s]
<1>1. /\ d.status \in {"accepted", "rejected"} /\ d.target \in LinkTarget \cup {NoTarget}
      /\ (d.status = "accepted") = (d.target # NoTarget)
  BY DEF SponsorDecision
<1>2. CASE d.of # CurrentEvidence(s) \/ (d.target.holding # Nothing /\ ~InContext(s))
  BY <1>2, ForReviewIsSound DEF ByReview
<1>3. CASE /\ ~(d.of # CurrentEvidence(s) \/ (d.target.holding # Nothing /\ ~InContext(s)))
           /\ d.status # "accepted"
  <2>1. ByReview(s) = [status |-> d.status, by |-> "review", target |-> NoTarget]
    BY <1>3 DEF ByReview, Judged
  <2>2. QED
    BY <2>1, <1>1, <1>3 DEF JudgedSoundly, Status
<1>4. CASE /\ ~(d.of # CurrentEvidence(s) \/ (d.target.holding # Nothing /\ ~InContext(s)))
           /\ d.status = "accepted" /\ Qualified(s, d.target)
  <2>1. ByReview(s) = [status |-> "accepted", by |-> "review", target |-> d.target]
    BY <1>4 DEF ByReview, Judged
  <2>2. QED
    BY <2>1, <1>1, <1>4 DEF JudgedSoundly, Status
<1>5. CASE /\ ~(d.of # CurrentEvidence(s) \/ (d.target.holding # Nothing /\ ~InContext(s)))
           /\ d.status = "accepted" /\ ~Qualified(s, d.target)
  BY <1>5, ForReviewIsSound DEF ByReview
<1>6. QED
  BY <1>2, <1>3, <1>4, <1>5

LEMMA LabelIsSound ==
  ASSUME NEW s \in Sponsor, run.registry \in Registries,
         run.review[s] = Nothing, ~Gated(s)
  PROVE  JudgedSoundly(s, ByLabel(s))
<1> DEFINE M == MatchingOffices(s)
<1>1. IsFiniteSet(M) /\ Nothing \notin M
  BY RegistriesNameOffices, FS_EmptySet DEF MatchingOffices
<1>2. M \subseteq LocalOffice
  BY DEF MatchingOffices, LocalOffice
<1>3. CASE s \in run.input[BillOf[s]].disputed \/ Cardinality(M) > 1
  BY <1>3, ForReviewIsSound DEF ByLabel
<1>4. CASE ~(s \in run.input[BillOf[s]].disputed \/ Cardinality(M) > 1) /\ M = {}
  <2>1. ByLabel(s) = [status |-> "unresolved", by |-> "none", target |-> NoTarget]
    BY <1>4 DEF ByLabel, Judged
  <2>2. QED
    BY <2>1, <1>4 DEF JudgedSoundly, Status
<1>5. CASE ~(s \in run.input[BillOf[s]].disputed \/ Cardinality(M) > 1) /\ M # {}
  <2>1. Cardinality(M) \in Nat /\ Cardinality(M) # 0
    BY <1>1, <1>5, FS_CardinalityType, FS_EmptySet
  <2>2. Cardinality(M) = 1
    BY <2>1, <1>5
  <2>3. PICK o : M = {o}
    BY <2>2, <1>1, FS_Singleton
  <2>4. (CHOOSE p \in M : TRUE) = o
    BY <2>3
  <2>5. ByLabel(s) = [status |-> "accepted", by |-> "label",
                      target |-> [office |-> o, holding |-> Nothing]]
    BY <1>5, <2>4 DEF ByLabel, Judged
  <2>6. o # Nothing /\ o \in LocalOffice
    BY <1>1, <1>2, <2>3
  <2>7. [office |-> o, holding |-> Nothing] # NoTarget
    BY <2>6 DEF NoTarget
  <2>8. [office |-> o, holding |-> Nothing] \in LinkTarget
    BY <2>6, <2>7 DEF LinkTarget
  <2>9. QED
    BY <2>3, <2>5, <2>7, <2>8 DEF JudgedSoundly, Status
<1>6. QED
  BY <1>3, <1>4, <1>5

LEMMA JudgementIsSound ==
  ASSUME SponsorTypeOK, run.at # "idle", NEW s \in Sponsor
  PROVE  JudgedSoundly(s, Judgement(s))
<1>1. run.registry \in Registries /\ run.review[s] \in SponsorDecision(s) \cup {Nothing}
  BY DEF SponsorTypeOK, Reviews
<1>2. CASE run.review[s] # Nothing
  BY <1>1, <1>2, ReviewIsSound DEF Judgement
<1>3. CASE run.review[s] = Nothing /\ Gated(s)
  BY <1>3, ForReviewIsSound DEF Judgement
<1>4. CASE run.review[s] = Nothing /\ ~Gated(s)
  BY <1>1, <1>4, LabelIsSound DEF Judgement
<1>5. QED
  BY <1>2, <1>3, <1>4

----------------------------------------------------------------------------
LEMMA EvidenceIsFingerprint ==
  ASSUME SponsorTypeOK, run.at # "idle", NEW s \in Sponsor, BillOf[s] \in DOMAIN run.input
  PROVE  /\ CurrentEvidence(s) \in Fingerprints(s)
         /\ CurrentEvidence(s) = [edition |-> run.input[BillOf[s]], registry |-> run.registry,
                                  tenure |-> PublishedHoldings(s), context |-> InContext(s)]
         /\ OfficesIn(CurrentEvidence(s), s) = MatchingOffices(s)
<1>1. CurrentEvidence(s) = [edition |-> run.input[BillOf[s]], registry |-> run.registry,
                            tenure |-> PublishedHoldings(s), context |-> InContext(s)]
  BY DEF CurrentEvidence, Fingerprint
<1>2. run.input[BillOf[s]] \in Editions[BillOf[s]] /\ run.input[BillOf[s]].dated \in BOOLEAN
  BY InputOfBill
<1>3. run.registry \in Registries /\ world.tenure[s] \in Tenures[s]
  BY DEF SponsorTypeOK, Holders
<1>4. PublishedHoldings(s) \in Tenures[s] \cup {{}}
  BY <1>3 DEF PublishedHoldings
<1>5. InContext(s) \in BOOLEAN
  BY <1>2 DEF InContext
<1>6. CurrentEvidence(s) \in Fingerprints(s)
  BY <1>1, <1>2, <1>3, <1>4, <1>5 DEF Fingerprints
<1>7. OfficesIn(CurrentEvidence(s), s) = MatchingOffices(s)
  BY <1>1 DEF OfficesIn, MatchingOffices
<1>8. QED
  BY <1>1, <1>6, <1>7

LEMMA LastDecisionType ==
  ASSUME SponsorTypeOK, run.at # "idle", NEW s \in Sponsor
  PROVE  LastDecision(s) \in SponsorDecision(s) \cup {Nothing}
<1>1. run.review[s] \in SponsorDecision(s) \cup {Nothing}
  BY DEF SponsorTypeOK, Reviews
<1>2. records[s] # Nothing => records[s].decision \in SponsorDecision(s) \cup {Nothing}
  BY DEF SponsorTypeOK, Record
<1>3. QED
  BY <1>1, <1>2 DEF LastDecision

LEMMA PresentRecordType ==
  ASSUME SponsorTypeOK, run.at # "idle", NEW s \in Sponsor,
         BillOf[s] \in DOMAIN run.input, s \in ListedSponsors(BillOf[s])
  PROVE  PresentRecord(s) \in Record(s) /\ PresentRecord(s) # Nothing
<1>1. PICK j : j = Judgement(s)
  OBVIOUS
<1>2. PICK i, e, d : i = Index(s) /\ e = CurrentEvidence(s) /\ d = LastDecision(s)
  OBVIOUS
<1>3. PresentRecord(s) = [present |-> TRUE, index |-> i, status |-> j.status, by |-> j.by,
                          of |-> e, decision |-> d, target |-> j.target]
  BY <1>1, <1>2 DEF PresentRecord
<1>4. /\ i \in Nat /\ e \in Fingerprints(s) /\ d \in SponsorDecision(s) \cup {Nothing}
      /\ j.status \in Status /\ j.by \in {"review", "label", "gate", "none"}
      /\ j.target \in LinkTarget \cup {NoTarget}
      /\ (j.status = "accepted") = (j.target # NoTarget)
  BY <1>1, <1>2, IndexIsNatural, EvidenceIsFingerprint, LastDecisionType, JudgementIsSound
     DEF JudgedSoundly
<1>5. PresentRecord(s) \in Record(s)
  BY <1>3, <1>4 DEF Record
<1>6. QED
  BY <1>5, NothingIsNoRow

LEMMA MissingRecordType ==
  ASSUME SponsorTypeOK, run.at # "idle", NEW s \in Sponsor, records[s] # Nothing
  PROVE  /\ MissingRecord(s) \in Record(s) /\ MissingRecord(s) # Nothing
         /\ MissingRecord(s).by = "gate" /\ MissingRecord(s).status = "review_required"
         /\ ~MissingRecord(s).present
<1>1. PICK r \in Record(s) : r = records[s]
  BY DEF SponsorTypeOK
<1>2. PICK d \in SponsorDecision(s) \cup {Nothing} : d = LastDecision(s)
  BY LastDecisionType
<1>3. MissingRecord(s) = [r EXCEPT !.present = FALSE, !.status = "review_required", !.by = "gate",
                                   !.decision = d, !.target = NoTarget]
  BY <1>1, <1>2 DEF MissingRecord
<1>4. /\ MissingRecord(s) \in Record(s)
      /\ MissingRecord(s).by = "gate" /\ MissingRecord(s).status = "review_required"
      /\ ~MissingRecord(s).present
  BY <1>3 DEF Record, Status
<1>5. QED
  BY <1>4, NothingIsNoRow

\* A present record is one the validator works out again.
LEMMA PresentRecordIsJustified ==
  ASSUME SponsorTypeOK, run.at # "idle", NEW s \in Sponsor,
         BillOf[s] \in DOMAIN run.input, s \in ListedSponsors(BillOf[s]),
         NEW r, r = PresentRecord(s)
  PROVE  /\ r # Nothing /\ r.present /\ r.of = CurrentEvidence(s)
         /\ IF r.status # "accepted" THEN r.target = NoTarget
            ELSE /\ r.target # NoTarget
                 /\ r.target.holding # Nothing => r.of.context /\ Qualified(s, r.target)
                 /\ IF r.by = "label"
                    THEN /\ MatchingOffices(s) = {r.target.office} /\ r.target.holding = Nothing
                         /\ r.decision = Nothing
                    ELSE /\ r.by = "review" /\ r.decision # Nothing
                         /\ r.decision.status = "accepted"
                         /\ r.decision.of = r.of /\ r.decision.target = r.target
<1>1. PICK j : j = Judgement(s)
  OBVIOUS
<1>2. PICK e, d : e = CurrentEvidence(s) /\ d = LastDecision(s)
  OBVIOUS
<1>3. r = [present |-> TRUE, index |-> Index(s), status |-> j.status, by |-> j.by,
           of |-> e, decision |-> d, target |-> j.target]
  BY <1>1, <1>2 DEF PresentRecord
<1>4. JudgedSoundly(s, j) /\ r # Nothing
  BY <1>1, JudgementIsSound, PresentRecordType
<1>5. e.context = InContext(s)
  BY <1>2, EvidenceIsFingerprint
<1>6. j.by = "review" => d = run.review[s] /\ d # Nothing
  BY <1>2, <1>4 DEF JudgedSoundly, LastDecision
<1>7. j.by = "label" => d = Nothing
  BY <1>2, <1>4 DEF JudgedSoundly, LastDecision, Gated
<1>8. j.status = "accepted" => j.by \in {"label", "review"}
  BY <1>4 DEF JudgedSoundly
<1>9. QED
  BY <1>2, <1>3, <1>4, <1>5, <1>6, <1>7, <1>8 DEF JudgedSoundly

\* What is accepted by its label anew, or for lack of an office is not, was
\* never in question.
LEMMA PresentRecordOutcome ==
  ASSUME SponsorTypeOK, OutcomeInv, OnlyUnquestionedIsAutomatic,
         run.at # "idle", NEW s \in Sponsor,
         BillOf[s] \in DOMAIN run.input, s \in ListedSponsors(BillOf[s]),
         NEW r, r = PresentRecord(s)
  PROVE  /\ r.by = "gate" => r.status = "review_required"
         /\ r.by = "review" => r.decision # Nothing
         /\ r.by = "none" => OfficesIn(r.of, s) = {}
         /\ r.by = "label" => \A a \in attempts[s] : a.by = "label" /\ a.of = r.of
<1>1. PICK j : j = Judgement(s)
  OBVIOUS
<1>2. PICK e, d : e = CurrentEvidence(s) /\ d = LastDecision(s)
  OBVIOUS
<1>3. r = [present |-> TRUE, index |-> Index(s), status |-> j.status, by |-> j.by,
           of |-> e, decision |-> d, target |-> j.target]
  BY <1>1, <1>2 DEF PresentRecord
<1>4. JudgedSoundly(s, j) /\ OfficesIn(e, s) = MatchingOffices(s)
  BY <1>1, <1>2, JudgementIsSound, EvidenceIsFingerprint
<1>5. j.by = "review" => d # Nothing
  BY <1>2, <1>4 DEF JudgedSoundly, LastDecision
<1>6. ASSUME j.by = "label"
      PROVE  \A a \in attempts[s] : a.by = "label" /\ a.of = e
  <2>1. ~Gated(s) /\ OfficesIn(e, s) # {}
    BY <1>4, <1>6 DEF JudgedSoundly
  <2>2. CASE records[s] = Nothing
    BY <2>2 DEF OutcomeInv
  <2>3. CASE records[s] # Nothing
    <3>1. PICK old \in Record(s) : old = records[s]
      BY <2>3 DEF SponsorTypeOK
    <3>2. old.of = e /\ old.decision = Nothing /\ old.status # "review_required"
      BY <1>2, <2>1, <2>3, <3>1 DEF Gated
    <3>3. old.by = "label"
      BY <2>1, <2>3, <3>1, <3>2 DEF OutcomeInv, Record
    <3>4. QED
      BY <2>3, <3>1, <3>2, <3>3 DEF OnlyUnquestionedIsAutomatic
  <2>4. QED
    BY <2>2, <2>3
<1>7. QED
  BY <1>3, <1>4, <1>5, <1>6 DEF JudgedSoundly

----------------------------------------------------------------------------
LEMMA LinksType ==
  ASSUME SponsorTypeOK, NEW b \in Bill
  PROVE  Links(b) \subseteq Of[b] \X LinkTarget
<1>1. \A s \in Of[b] : records[s] # Nothing /\ records[s].status = "accepted" =>
        records[s].target \in LinkTarget
  BY SponsorOfBill DEF SponsorTypeOK, Record
<1>2. QED
  BY <1>1 DEF Links

LEMMA SponsorInitInv == SponsorInit => SponsorInv
<1> SUFFICES ASSUME SponsorInit PROVE SponsorInv
  OBVIOUS
<1>1. world \in [source : Sources, registry : Registries, review : Reviews, tenure : Holders]
  <2>1. [b \in Bill |-> CHOOSE e \in Editions[b] : TRUE] \in Sources
    BY EditionsListSponsors DEF Sources
  <2>2. [s \in Sponsor |-> Nothing] \in Reviews
    <3>1. [s \in Sponsor |-> Nothing] \in
            [Sponsor -> (UNION {SponsorDecision(s) : s \in Sponsor}) \cup {Nothing}]
      OBVIOUS
    <3>2. QED
      BY <3>1 DEF Reviews
  <2>3. QED
    BY <2>1, <2>2 DEF SponsorInit
<1>2. run \in Runs /\ run.at = "idle"
  BY DEF SponsorInit, Idle, Runs, Steps
<1>3. /\ DOMAIN records = Sponsor /\ \A s \in Sponsor : records[s] = Nothing
      /\ \A s \in Sponsor : attempts[s] = {}
      /\ DOMAIN rows = Bill /\ \A b \in Bill : rows[b] = Nothing
      /\ presence \in [Bill -> {"unknown", "present", "missing"}]
      /\ graph \in [Bill -> SUBSET (Sponsor \X LinkTarget)]
      /\ \A b \in Bill : graph[b] \subseteq Of[b] \X LinkTarget
  BY DEF SponsorInit
<1>4. SponsorTypeOK
  BY <1>1, <1>2, <1>3 DEF SponsorTypeOK
<1>5. OutcomeInv /\ OnlyUnquestionedIsAutomatic
  BY <1>3 DEF OutcomeInv, OnlyUnquestionedIsAutomatic
<1>6. QED
  BY <1>2, <1>4, <1>5
     DEF SponsorInv, DecisionsAreJustified, BillInv, PendingLinksInv, SeenIsServed,
         FinishedRunIsServed

\* No command runs, or none any more: nothing is in hand.
LEMMA IdleKeepsSponsorInv ==
  ASSUME SponsorInv, run'.at = "idle", run' \in Runs,
         world' \in [source : Sources, registry : Registries, review : Reviews, tenure : Holders],
         UNCHANGED tables,
         graph' \in [Bill -> SUBSET (Sponsor \X LinkTarget)],
         \A b \in Bill : graph'[b] \subseteq Of[b] \X LinkTarget
  PROVE  SponsorInv'
<1>1. SponsorTypeOK'
  BY DEF SponsorInv, SponsorTypeOK, tables, IsPublication
<1>2. OutcomeInv' /\ OnlyUnquestionedIsAutomatic'
  BY DEF SponsorInv, OutcomeInv, OnlyUnquestionedIsAutomatic, tables
<1>3. QED
  BY <1>1, <1>2
     DEF SponsorInv, DecisionsAreJustified, BillInv, PendingLinksInv, SeenIsServed,
         FinishedRunIsServed

LEMMA IdleIsARun == Idle \in Runs /\ Idle.at = "idle"
BY DEF Idle, Runs, Steps

\* Whatever is edited stays in its domain.
LEMMA EditKeepsSponsorInv ==
  ASSUME SponsorInv, NEW w, Edit(w),
         w \in [source : Sources, registry : Registries, review : Reviews, tenure : Holders]
  PROVE  SponsorInv'
<1>1. run' = run /\ run.at = "idle" /\ world' = w /\ graph' = graph /\ UNCHANGED tables
  BY DEF Edit
<1>2. QED
  BY <1>1, IdleKeepsSponsorInv DEF SponsorInv, SponsorTypeOK

LEMMA BetweenRunsKeepsSponsorInv ==
  ASSUME SponsorInv, BetweenRuns
  PROVE  SponsorInv' \/ \E scope \in SUBSET Showing, complete, publish \in BOOLEAN :
                          StartRun(scope, complete, publish)
<1> DEFINE World == [source : Sources, registry : Registries, review : Reviews, tenure : Holders]
<1>1. PICK so \in Sources, re \in Registries, vi \in Reviews, te \in Holders :
        world = [source |-> so, registry |-> re, review |-> vi, tenure |-> te]
  BY DEF SponsorInv, SponsorTypeOK
<1>2. ASSUME NEW b \in Bill, NEW e \in Editions[b] \cup {Nothing}, SourceChanges(b, e)
      PROVE  SponsorInv'
  <2>1. [so EXCEPT ![b] = e] \in Sources
    <3>1. e \in (UNION {Editions[c] : c \in Bill}) \cup {Nothing}
      OBVIOUS
    <3>2. so \in [Bill -> (UNION {Editions[c] : c \in Bill}) \cup {Nothing}]
      BY DEF Sources
    <3>3. \A x \in Bill : [so EXCEPT ![b] = e][x] \in Editions[x] \cup {Nothing}
      BY <3>2 DEF Sources
    <3>4. [so EXCEPT ![b] = e] \in [Bill -> (UNION {Editions[c] : c \in Bill}) \cup {Nothing}]
      BY <3>1, <3>2
    <3>5. QED
      BY <3>3, <3>4 DEF Sources
  <2>2. [world EXCEPT !.source[b] = e] =
          [source |-> [so EXCEPT ![b] = e], registry |-> re, review |-> vi, tenure |-> te]
    BY <1>1
  <2>3. QED
    BY <1>2, <2>1, <2>2, EditKeepsSponsorInv DEF SourceChanges
<1>3. ASSUME NEW r \in Registries, RegistryReviewed(r)
      PROVE  SponsorInv'
  BY <1>1, <1>3, EditKeepsSponsorInv DEF RegistryReviewed
<1>4. ASSUME NEW s \in Sponsor, NEW t \in Tenures[s], HoldingsPublished(s, t)
      PROVE  SponsorInv'
  <2>1. [te EXCEPT ![s] = t] \in Holders
    <3>1. t \in UNION {Tenures[q] : q \in Sponsor}
      OBVIOUS
    <3>2. te \in [Sponsor -> UNION {Tenures[q] : q \in Sponsor}]
      BY DEF Holders
    <3>3. \A x \in Sponsor : [te EXCEPT ![s] = t][x] \in Tenures[x]
      BY <3>2 DEF Holders
    <3>4. [te EXCEPT ![s] = t] \in [Sponsor -> UNION {Tenures[q] : q \in Sponsor}]
      BY <3>1, <3>2
    <3>5. QED
      BY <3>3, <3>4 DEF Holders
  <2>2. [world EXCEPT !.tenure[s] = t] =
          [source |-> so, registry |-> re, review |-> vi, tenure |-> [te EXCEPT ![s] = t]]
    BY <1>1
  <2>3. QED
    BY <1>4, <2>1, <2>2, EditKeepsSponsorInv DEF HoldingsPublished
<1>5. ASSUME NEW s \in Sponsor, NEW d \in SponsorDecision(s) \cup {Nothing},
             Edit([world EXCEPT !.review[s] = d])
      PROVE  SponsorInv'
  <2>1. [vi EXCEPT ![s] = d] \in Reviews
    <3>1. d \in (UNION {SponsorDecision(q) : q \in Sponsor}) \cup {Nothing}
      OBVIOUS
    <3>2. vi \in [Sponsor -> (UNION {SponsorDecision(q) : q \in Sponsor}) \cup {Nothing}]
      BY DEF Reviews
    <3>3. \A x \in Sponsor : [vi EXCEPT ![s] = d][x] \in SponsorDecision(x) \cup {Nothing}
      BY <3>2 DEF Reviews
    <3>4. [vi EXCEPT ![s] = d] \in [Sponsor -> (UNION {SponsorDecision(q) : q \in Sponsor}) \cup {Nothing}]
      BY <3>1, <3>2
    <3>5. QED
      BY <3>3, <3>4 DEF Reviews
  <2>2. [world EXCEPT !.review[s] = d] =
          [source |-> so, registry |-> re, review |-> [vi EXCEPT ![s] = d], tenure |-> te]
    BY <1>1
  <2>3. QED
    BY <1>5, <2>1, <2>2, EditKeepsSponsorInv
<1>6. ASSUME NEW s \in Sponsor, NEW status \in {"accepted", "rejected"},
             NEW t \in Targets \cup {NoTarget},
             status = "accepted" <=> t # NoTarget, Reviewed(s, status, t)
      PROVE  SponsorInv'
  <2> DEFINE of == Fingerprint(world.source[BillOf[s]], world.registry, world.tenure[s],
                               t.holding # Nothing)
             d == [status |-> status, target |-> t, of |-> of]
  <2>1. so[BillOf[s]] \in Editions[BillOf[s]] /\ te[s] \in Tenures[s]
    BY <1>1, <1>6, BillOfSponsor DEF Reviewed, Sources, Holders
  <2>2. of \in Fingerprints(s)
    BY <1>1, <2>1 DEF Fingerprint, Fingerprints
  <2>3. t \in LinkTarget \cup {NoTarget} /\ (status = "accepted") = (t # NoTarget)
    BY <1>6, AcceptanceHasTarget DEF LinkTarget, LocalOffice
  <2> HIDE DEF of
  <2>4. d \in SponsorDecision(s)
    BY <2>2, <2>3 DEF SponsorDecision
  <2>5. Edit([world EXCEPT !.review[s] = d])
    BY <1>6 DEF Reviewed, of
  <2>6. QED
    BY <2>4, <2>5, <1>5
<1>7. ASSUME NEW s \in Sponsor, DecisionRemoved(s)
      PROVE  SponsorInv'
  BY <1>5, <1>7 DEF DecisionRemoved
<1>8. ASSUME Rebuild PROVE SponsorInv'
  <2>1. /\ run' = run /\ run.at = "idle" /\ world' = world /\ UNCHANGED tables
        /\ graph' = [b \in Bill |-> {}]
    BY <1>8 DEF Rebuild
  <2>2. QED
    BY <2>1, IdleKeepsSponsorInv DEF SponsorInv, SponsorTypeOK
<1>9. ASSUME NEW s \in Sponsor, Reviewed(s, "rejected", NoTarget)
      PROVE  SponsorInv'
  BY <1>6, <1>9
<1>10. ASSUME NEW s \in Sponsor, NEW t \in Targets, Reviewed(s, "accepted", t)
       PROVE  SponsorInv'
  <2>1. t # NoTarget
    BY AcceptanceHasTarget
  <2>2. QED
    BY <1>6, <1>10, <2>1
<1>11. QED
  BY <1>2, <1>3, <1>4, <1>7, <1>8, <1>9, <1>10 DEF BetweenRuns

----------------------------------------------------------------------------
\* The steps of a command, one lemma for each; those that leave the records
\* alone leave what is said of them alone.

LEMMA RecordsUnchanged ==
  ASSUME OutcomeInv, OnlyUnquestionedIsAutomatic, UNCHANGED <<records, attempts>>
  PROVE  /\ OutcomeInv' /\ OnlyUnquestionedIsAutomatic'
         /\ \A b \in Bill : Links(b)' = Links(b)
BY DEF OutcomeInv, OnlyUnquestionedIsAutomatic, Links

LEMMA StartRunKeepsSponsorInv ==
  ASSUME SponsorInv, NEW scope \in SUBSET Showing, NEW complete \in BOOLEAN,
         NEW publish \in BOOLEAN, StartRun(scope, complete, publish)
  PROVE  SponsorInv'
<1>1. PICK so \in Sources : so = world.source
  BY DEF SponsorInv, SponsorTypeOK
<1>2. PICK re \in Registries, vi \in Reviews : re = world.registry /\ vi = world.review
  BY DEF SponsorInv, SponsorTypeOK
<1>3. PICK in : in = [b \in scope |-> so[b]]
  OBVIOUS
<1>4. scope \subseteq Bill /\ \A b \in scope : so[b] \in Editions[b]
  BY <1>1 DEF Showing, Sources
<1>5. in \in Inputs /\ DOMAIN in = scope
  <2>1. \A b \in scope : so[b] \in UNION {Editions[c] : c \in Bill}
    BY <1>4
  <2>2. in \in [scope -> UNION {Editions[c] : c \in Bill}]
    BY <1>3, <2>1
  <2>3. \A b \in DOMAIN in : in[b] \in Editions[b]
    BY <1>3, <1>4
  <2>4. QED
    BY <1>3, <1>4, <2>2, <2>3 DEF Inputs
<1>6. run' = [at |-> "bills", publish |-> publish, complete |-> complete, input |-> in,
              registry |-> re, review |-> vi, seen |-> {}, bill |-> Nothing]
  BY <1>1, <1>2, <1>3 DEF StartRun
<1>7. UNCHANGED <<world, records, attempts, rows, presence, graph>>
  BY DEF StartRun, tables
<1>8. run' \in Runs
  BY <1>5, <1>6 DEF Runs, Steps
<1>9. /\ run'.at = "bills" /\ run'.seen = {} /\ run'.input \in Inputs
      /\ run'.registry \in Registries /\ run'.review \in Reviews
  BY <1>5, <1>6
<1>10. SponsorTypeOK'
  BY <1>7, <1>8, <1>9 DEF SponsorInv, SponsorTypeOK, IsPublication
<1>11. OutcomeInv' /\ OnlyUnquestionedIsAutomatic'
  BY <1>7, RecordsUnchanged DEF SponsorInv
<1>12. QED
  BY <1>9, <1>10, <1>11
     DEF SponsorInv, DecisionsAreJustified, BillInv, PendingLinksInv, SeenIsServed,
         FinishedRunIsServed

\* One transaction for the sponsors of a Bill: what each record says after it.
LEMMA ReconcileRecords ==
  ASSUME SponsorInv, NEW b \in Bill, ReconcileSponsors(b), NEW s \in Sponsor
  PROVE  /\ s \notin Of[b] => records'[s] = records[s] /\ attempts'[s] = attempts[s]
         /\ s \in Of[b] =>
              /\ records'[s] = Updated(s)
              /\ attempts'[s] = IF Updated(s) # Nothing THEN attempts[s] \cup {Attempt(Updated(s))}
                                ELSE attempts[s]
              /\ run.at # "idle" /\ BillOf[s] = b /\ b \in DOMAIN run.input
BY SponsorOfBill DEF ReconcileSponsors

LEMMA ReconcileKeepsRecords ==
  ASSUME SponsorInv, NEW b \in Bill, ReconcileSponsors(b)
  PROVE  /\ \A s \in Sponsor : records'[s] = Nothing \/ records'[s] \in Record(s)
         /\ OutcomeInv' /\ OnlyUnquestionedIsAutomatic'
<1> DEFINE Kept(s) ==
      /\ records'[s] = Nothing \/ records'[s] \in Record(s)
      /\ IF records'[s] = Nothing THEN attempts'[s] = {}
         ELSE /\ records'[s].by = "gate" => records'[s].status = "review_required"
              /\ records'[s].by = "review" => records'[s].decision # Nothing
              /\ records'[s].by = "none" => OfficesIn(records'[s].of, s) = {}
              /\ records'[s].by = "label" =>
                   \A a \in attempts'[s] : a.by = "label" /\ a.of = records'[s].of
<1>1. SponsorTypeOK /\ OutcomeInv /\ OnlyUnquestionedIsAutomatic
  BY DEF SponsorInv
<1>2. ASSUME NEW s \in Sponsor PROVE Kept(s)
  <2>1. CASE s \notin Of[b]
    <3>1. records'[s] = records[s] /\ attempts'[s] = attempts[s]
      BY <2>1, ReconcileRecords
    <3>2. records[s] = Nothing \/ records[s] \in Record(s)
      BY <1>1 DEF SponsorTypeOK
    <3>3. QED
      BY <1>1, <3>1, <3>2 DEF OutcomeInv, OnlyUnquestionedIsAutomatic
  <2>2. CASE s \in Of[b] /\ s \in ListedSponsors(b)
    <3>1. PICK r : r = PresentRecord(s)
      OBVIOUS
    <3>2. run.at # "idle" /\ BillOf[s] = b /\ b \in DOMAIN run.input
      BY <2>2, ReconcileRecords
    <3>3. r \in Record(s) /\ r # Nothing
      BY <1>1, <2>2, <3>1, <3>2, PresentRecordType
    <3>4. records'[s] = r /\ attempts'[s] = attempts[s] \cup {Attempt(r)}
      BY <2>2, <3>1, <3>2, <3>3, ReconcileRecords DEF Updated
    <3>5. Attempt(r).by = r.by /\ Attempt(r).of = r.of
      BY DEF Attempt
    <3>6. /\ r.by = "gate" => r.status = "review_required"
          /\ r.by = "review" => r.decision # Nothing
          /\ r.by = "none" => OfficesIn(r.of, s) = {}
          /\ r.by = "label" => \A a \in attempts[s] : a.by = "label" /\ a.of = r.of
      BY <1>1, <2>2, <3>1, <3>2, PresentRecordOutcome
    <3>7. QED
      BY <3>3, <3>4, <3>5, <3>6
  <2>3. CASE s \in Of[b] /\ s \notin ListedSponsors(b) /\ records[s] # Nothing
    <3>1. PICK r : r = MissingRecord(s)
      OBVIOUS
    <3>2. run.at # "idle" /\ BillOf[s] = b
      BY <2>3, ReconcileRecords
    <3>3. r \in Record(s) /\ r # Nothing /\ r.by = "gate" /\ r.status = "review_required"
      BY <1>1, <2>3, <3>1, <3>2, MissingRecordType
    <3>4. records'[s] = r
      BY <2>3, <3>1, <3>2, ReconcileRecords DEF Updated
    <3>5. QED
      BY <3>3, <3>4
  <2>4. CASE s \in Of[b] /\ s \notin ListedSponsors(b) /\ records[s] = Nothing
    <3>1. BillOf[s] = b /\ Updated(s) = Nothing
      BY <2>4, ReconcileRecords DEF Updated
    <3>2. records'[s] = Nothing /\ attempts'[s] = attempts[s]
      BY <2>4, <3>1, ReconcileRecords
    <3>3. QED
      BY <1>1, <2>4, <3>2 DEF OutcomeInv
  <2>5. QED
    BY <2>1, <2>2, <2>3, <2>4
<1>3. QED
  BY <1>2 DEF OutcomeInv, OnlyUnquestionedIsAutomatic

LEMMA ReconcileIsJustified ==
  ASSUME SponsorInv, NEW b \in Bill, ReconcileSponsors(b)
  PROVE  DecisionsAreJustified'
<1>1. SponsorTypeOK /\ run.at # "idle" /\ b \in DOMAIN run.input
  BY DEF SponsorInv, ReconcileSponsors
<1>2. run' = [run EXCEPT !.at = "build", !.bill = b] /\ world' = world
  BY DEF ReconcileSponsors
<1>3. /\ run'.bill = b /\ run'.input = run.input /\ run'.registry = run.registry
      /\ run'.publish = run.publish
  BY <1>1, <1>2 DEF SponsorTypeOK, Runs
<1>4. ASSUME NEW s \in ListedSponsors(b)
      PROVE  Justified(s)'
  <2>1. s \in Of[b] /\ s \in Sponsor /\ BillOf[s] = b
    BY <1>1, <1>4, InputOfBill, SponsorOfBill
  <2>2. PICK r : r = PresentRecord(s)
    OBVIOUS
  <2>3. records'[s] = r
    BY <1>4, <2>1, <2>2, ReconcileRecords DEF Updated
  <2>4. /\ r # Nothing /\ r.present /\ r.of = CurrentEvidence(s)
        /\ IF r.status # "accepted" THEN r.target = NoTarget
           ELSE /\ r.target # NoTarget
                /\ r.target.holding # Nothing => r.of.context /\ Qualified(s, r.target)
                /\ IF r.by = "label"
                   THEN /\ MatchingOffices(s) = {r.target.office} /\ r.target.holding = Nothing
                        /\ r.decision = Nothing
                   ELSE /\ r.by = "review" /\ r.decision # Nothing
                        /\ r.decision.status = "accepted"
                        /\ r.decision.of = r.of /\ r.decision.target = r.target
    BY <1>1, <1>4, <2>1, <2>2, PresentRecordIsJustified
  <2>5. PublishedHoldings(s)' = PublishedHoldings(s)
    BY <1>2, <1>3 DEF PublishedHoldings
  <2>6. MatchingOffices(s)' = MatchingOffices(s)
    BY <1>3 DEF MatchingOffices
  <2>8. Qualified(s, r.target) => Qualified(s, r.target)'
    BY <2>5 DEF Qualified
  <2>9. r.of = Fingerprint(run'.input[BillOf[s]], run'.registry, PublishedHoldings(s)',
                           r.of.context)
    BY <1>1, <1>3, <2>1, <2>4, <2>5, EvidenceIsFingerprint DEF Fingerprint
  <2>10. QED
    BY <2>3, <2>4, <2>6, <2>8, <2>9 DEF Justified
<1>5. ListedSponsors(b)' = ListedSponsors(b)
  BY <1>3 DEF ListedSponsors
<1>6. QED
  BY <1>3, <1>4, <1>5 DEF DecisionsAreJustified, Valid, ListedSponsors

LEMMA ReconcileKeepsSponsorInv ==
  ASSUME SponsorInv, NEW b \in Bill, ReconcileSponsors(b)
  PROVE  SponsorInv'
<1>1. /\ run.at = "bills" /\ b \in DOMAIN run.input \ run.seen
      /\ run' = [run EXCEPT !.at = "build", !.bill = b]
      /\ UNCHANGED <<world, rows, presence, graph>> /\ DOMAIN records' = Sponsor
  BY DEF ReconcileSponsors
<1>2. /\ run' \in Runs /\ run'.at = "build" /\ run'.bill = b /\ run'.input = run.input
      /\ run'.registry = run.registry /\ run'.review = run.review /\ run'.seen = run.seen
      /\ run'.publish = run.publish
  BY <1>1 DEF SponsorInv, SponsorTypeOK, Runs, Steps
<1>3. SponsorTypeOK'
  BY <1>1, <1>2, ReconcileKeepsRecords DEF SponsorInv, SponsorTypeOK, IsPublication
<1>4. BillInv' /\ PendingLinksInv' /\ FinishedRunIsServed'
  BY <1>1, <1>2 DEF SponsorInv, BillInv, PendingLinksInv, FinishedRunIsServed
<1>5. ASSUME NEW c \in run.seen PROVE Links(c)' = Links(c)
  <2>1. c \in Bill /\ c # b
    BY <1>1 DEF SponsorInv, SponsorTypeOK, Runs
  <2>2. \A s \in Of[c] : s \in Sponsor /\ s \notin Of[b]
    BY <2>1, SponsorOfBill, EditionsListSponsors
  <2>3. \A s \in Of[c] : records'[s] = records[s]
    BY <2>2, ReconcileRecords
  <2>4. QED
    BY <2>3 DEF Links
<1>6. SeenIsServed'
  BY <1>1, <1>2, <1>5 DEF SponsorInv, SeenIsServed
<1>7. QED
  BY <1>3, <1>4, <1>6, ReconcileKeepsRecords, ReconcileIsJustified DEF SponsorInv

\* The Bill in hand is done: Inspect, SkipUnchanged and the end of a
\* publication of the input.
LEMMA ProcessedRun ==
  ASSUME SponsorTypeOK, run.at # "idle", NEW b \in DOMAIN run.input
  PROVE  /\ Processed(b) = [run EXCEPT !.at = "bills", !.seen = run.seen \cup {b}, !.bill = Nothing]
         /\ Processed(b) \in Runs /\ Processed(b).at = "bills"
         /\ Processed(b).seen = run.seen \cup {b} /\ Processed(b).input = run.input
         /\ Processed(b).registry = run.registry /\ Processed(b).review = run.review
         /\ Processed(b).publish = run.publish
<1>1. b \in Bill
  BY InputOfBill
<1>2. Processed(b) = [run EXCEPT !.at = "bills", !.seen = run.seen \cup {b}, !.bill = Nothing]
  BY DEF Processed
<1>3. PICK seen \in SUBSET Bill : seen = run.seen \cup {b}
  BY <1>1 DEF SponsorTypeOK, Runs
<1>4. PICK done : done = [run EXCEPT !.at = "bills", !.seen = seen, !.bill = Nothing]
  OBVIOUS
<1>5. /\ done \in Runs /\ done.at = "bills" /\ done.seen = seen /\ done.input = run.input
      /\ done.registry = run.registry /\ done.review = run.review /\ done.publish = run.publish
  BY <1>4 DEF SponsorTypeOK, Runs, Steps
<1>6. Processed(b) = done
  BY <1>2, <1>3, <1>4
<1>7. QED
  BY <1>2, <1>3, <1>5, <1>6

\* A step to the next Bill.
LEMMA ProcessedKeepsSponsorInv ==
  ASSUME SponsorInv, run.at # "idle", NEW b \in DOMAIN run.input, run' = Processed(b),
         UNCHANGED <<world, records, attempts, presence, graph>>,
         DOMAIN rows' = Bill,
         \A c \in Bill : rows'[c] = Nothing \/ IsPublication(c, rows'[c]),
         \A c \in Bill \ {b} : rows'[c] = rows[c],
         run.publish => /\ rows'[b] # Nothing => rows'[b].state = "clean"
                        /\ graph[b] = Links(b)
  PROVE  SponsorInv'
<1>1. SponsorTypeOK
  BY DEF SponsorInv
<1>2. /\ run' \in Runs /\ run'.at = "bills" /\ run'.seen = run.seen \cup {b}
      /\ run'.input = run.input /\ run'.registry = run.registry /\ run'.review = run.review
      /\ run'.publish = run.publish
  BY <1>1, ProcessedRun
<1>3. SponsorTypeOK'
  BY <1>2 DEF SponsorInv, SponsorTypeOK, IsPublication
<1>4. OutcomeInv' /\ OnlyUnquestionedIsAutomatic' /\ \A c \in Bill : Links(c)' = Links(c)
  BY RecordsUnchanged DEF SponsorInv
<1>5. DecisionsAreJustified' /\ BillInv' /\ PendingLinksInv' /\ FinishedRunIsServed'
  BY <1>2 DEF SponsorInv, DecisionsAreJustified, BillInv, PendingLinksInv, FinishedRunIsServed
<1>6. b \in Bill /\ run.seen \subseteq Bill
  BY <1>1, InputOfBill DEF SponsorTypeOK, Runs
<1>7. SeenIsServed'
  BY <1>2, <1>4, <1>6 DEF SponsorInv, SeenIsServed
<1>8. QED
  BY <1>3, <1>4, <1>5, <1>7 DEF SponsorInv

LEMMA InspectKeepsSponsorInv ==
  ASSUME SponsorInv, Inspect
  PROVE  SponsorInv'
<1>1. run.bill \in DOMAIN run.input
  BY DEF SponsorInv, BillInv, Inspect
<1>2. QED
  BY <1>1, ProcessedKeepsSponsorInv DEF Inspect, tables, SponsorInv, SponsorTypeOK

LEMMA SkipKeepsSponsorInv ==
  ASSUME SponsorInv, SkipUnchanged
  PROVE  SponsorInv'
<1>1. run.bill \in DOMAIN run.input
  BY DEF SponsorInv, BillInv, SkipUnchanged
<1>2. QED
  BY <1>1, ProcessedKeepsSponsorInv DEF SkipUnchanged, UpToDate, tables, SponsorInv, SponsorTypeOK

LEMMA MarkKeepsSponsorInv ==
  ASSUME SponsorInv, MarkPublicationDirty
  PROVE  SponsorInv'
<1>1. PICK b : b = run.bill
  OBVIOUS
<1>2. SponsorTypeOK /\ run.at = "build" /\ run.publish /\ b \in DOMAIN run.input \ run.seen
  BY <1>1 DEF SponsorInv, BillInv, MarkPublicationDirty
<1>3. b \in Bill
  BY <1>2, InputOfBill
<1>4. PICK old : old = IF rows[b] = Nothing THEN NewRow ELSE rows[b]
  OBVIOUS
<1>5. IsPublication(b, old)
  BY <1>2, <1>3, <1>4 DEF SponsorTypeOK, IsPublication, NewRow
<1>6. PICK links, evidence : links = Links(b) /\ evidence = EvidenceOf(b)
  OBVIOUS
<1>7. PICK new : new = [old EXCEPT !.state = "dirty", !.pending = links,
                                   !.pendingEvidence = evidence]
  OBVIOUS
<1>8. links \subseteq Of[b] \X LinkTarget
  BY <1>2, <1>3, <1>6, LinksType
<1>9. new = [state |-> "dirty", published |-> old.published, evidence |-> old.evidence,
             pending |-> links, pendingEvidence |-> evidence]
  BY <1>5, <1>7 DEF IsPublication
<1>10. IsPublication(b, new) /\ new.state = "dirty" /\ new.pending = links
  BY <1>5, <1>8, <1>9 DEF IsPublication
<1>11. rows' = [rows EXCEPT ![b] = new] /\ run' = [run EXCEPT !.at = "put"]
  BY <1>1, <1>4, <1>6, <1>7 DEF MarkPublicationDirty
<1>12. UNCHANGED <<world, records, attempts, presence, graph>>
  BY DEF MarkPublicationDirty
<1>13. /\ DOMAIN rows' = Bill /\ rows'[b] = new
       /\ \A c \in Bill \ {b} : rows'[c] = rows[c]
  BY <1>2, <1>3, <1>11 DEF SponsorTypeOK
<1>14. /\ run' \in Runs /\ run'.at = "put" /\ run'.bill = b /\ run'.seen = run.seen
       /\ run'.input = run.input /\ run'.registry = run.registry /\ run'.review = run.review
       /\ run'.publish = run.publish
  BY <1>1, <1>2, <1>11 DEF SponsorTypeOK, Runs, Steps
<1>15. \A c \in Bill : rows'[c] = Nothing \/ IsPublication(c, rows'[c])
  BY <1>2, <1>10, <1>13 DEF SponsorTypeOK
<1>16. SponsorTypeOK'
  BY <1>2, <1>12, <1>13, <1>14, <1>15 DEF SponsorTypeOK, IsPublication
<1>17. OutcomeInv' /\ OnlyUnquestionedIsAutomatic' /\ \A c \in Bill : Links(c)' = Links(c)
  BY <1>12, RecordsUnchanged DEF SponsorInv
<1>18. DecisionsAreJustified' /\ FinishedRunIsServed'
  BY <1>14 DEF DecisionsAreJustified, FinishedRunIsServed
<1>19. BillInv'
  BY <1>2, <1>3, <1>14 DEF SponsorInv, BillInv
<1>20. PendingLinksInv'
  BY <1>3, <1>6, <1>10, <1>13, <1>14, <1>17 DEF PendingLinksInv, IsPublication
<1>21. run.seen \subseteq Bill
  BY <1>2 DEF SponsorTypeOK, Runs
<1>22. SeenIsServed'
  BY <1>2, <1>12, <1>13, <1>14, <1>17, <1>21 DEF SponsorInv, SeenIsServed
<1>23. QED
  BY <1>16, <1>17, <1>18, <1>19, <1>20, <1>22 DEF SponsorInv

\* The PUT, answered or not.
LEMMA PutGraph ==
  ASSUME SponsorInv, run.at = "put",
         graph' = [graph EXCEPT ![run.bill] = rows[run.bill].pending]
  PROVE  /\ graph' \in [Bill -> SUBSET (Sponsor \X LinkTarget)]
         /\ \A b \in Bill : graph'[b] \subseteq Of[b] \X LinkTarget
         /\ \A b \in Bill : b # run.bill => graph'[b] = graph[b]
         /\ run.bill \in Bill \ run.seen
<1>1. PICK b, p : b = run.bill /\ p = rows[b].pending
  OBVIOUS
<1>2. SponsorTypeOK /\ b \in Bill \ run.seen /\ IsPublication(b, rows[b])
  BY <1>1 DEF SponsorInv, BillInv, PendingLinksInv
<1>3. p \subseteq Of[b] \X LinkTarget
  BY <1>1, <1>2 DEF IsPublication
<1>4. p \in SUBSET (Sponsor \X LinkTarget)
  BY <1>2, <1>3, SponsorOfBill
<1>5. graph' = [graph EXCEPT ![b] = p]
  BY <1>1
<1>6. QED
  BY <1>1, <1>2, <1>3, <1>4, <1>5 DEF SponsorTypeOK

LEMMA PutKeepsSponsorInv ==
  ASSUME SponsorInv, Put
  PROVE  SponsorInv'
<1>1. SponsorTypeOK /\ run.at = "put"
  BY DEF SponsorInv, Put
<1>2. /\ graph' = [graph EXCEPT ![run.bill] = rows[run.bill].pending]
      /\ run' = [run EXCEPT !.at = "complete"]
      /\ UNCHANGED <<world, records, attempts, rows, presence>>
  BY DEF Put, tables
<1>3. /\ graph' \in [Bill -> SUBSET (Sponsor \X LinkTarget)]
      /\ \A b \in Bill : graph'[b] \subseteq Of[b] \X LinkTarget
      /\ \A b \in Bill : b # run.bill => graph'[b] = graph[b]
      /\ run.bill \in Bill \ run.seen
  BY <1>1, <1>2, PutGraph
<1>4. /\ run' \in Runs /\ run'.at = "complete" /\ run'.bill = run.bill /\ run'.seen = run.seen
      /\ run'.input = run.input /\ run'.registry = run.registry /\ run'.review = run.review
      /\ run'.publish = run.publish
  BY <1>1, <1>2 DEF SponsorTypeOK, Runs, Steps
<1>5. SponsorTypeOK'
  BY <1>1, <1>2, <1>3, <1>4 DEF SponsorTypeOK, IsPublication
<1>6. OutcomeInv' /\ OnlyUnquestionedIsAutomatic' /\ \A c \in Bill : Links(c)' = Links(c)
  BY <1>2, RecordsUnchanged DEF SponsorInv
<1>7. DecisionsAreJustified' /\ FinishedRunIsServed'
  BY <1>4 DEF DecisionsAreJustified, FinishedRunIsServed
<1>8. BillInv'
  BY <1>1, <1>4 DEF SponsorInv, BillInv
<1>9. PendingLinksInv'
  BY <1>1, <1>2, <1>4, <1>6 DEF SponsorInv, PendingLinksInv, IsPublication
<1>10. run.seen \subseteq Bill
  BY <1>1 DEF SponsorTypeOK, Runs
<1>11. SeenIsServed'
  BY <1>1, <1>2, <1>3, <1>4, <1>6, <1>10 DEF SponsorInv, SeenIsServed
<1>12. QED
  BY <1>5, <1>6, <1>7, <1>8, <1>9, <1>11 DEF SponsorInv

LEMMA CompleteKeepsSponsorInv ==
  ASSUME SponsorInv, CompletePublication
  PROVE  SponsorInv'
<1>1. PICK b : b = run.bill
  OBVIOUS
<1>2. SponsorTypeOK /\ run.at = "complete" /\ run.publish /\ b \in Bill \ run.seen
  BY <1>1 DEF SponsorInv, BillInv, CompletePublication
<1>3. PICK old : old = rows[b]
  OBVIOUS
<1>4. /\ IsPublication(b, old) /\ graph[b] = old.pending
      /\ b \in DOMAIN run.input => old.pending = Links(b)
  BY <1>1, <1>2, <1>3 DEF SponsorInv, PendingLinksInv, CompletePublication
<1>5. PICK new : new = Completed(old)
  OBVIOUS
<1>6. new = [state |-> "clean", published |-> old.pending, evidence |-> old.pendingEvidence,
             pending |-> {}, pendingEvidence |-> Nothing]
  BY <1>4, <1>5 DEF Completed, IsPublication
<1>7. IsPublication(b, new) /\ new.state = "clean"
  BY <1>4, <1>6 DEF IsPublication
<1>8. /\ rows' = [rows EXCEPT ![b] = new]
      /\ UNCHANGED <<world, records, attempts, presence, graph>>
  BY <1>1, <1>3, <1>5 DEF CompletePublication
<1>9. /\ DOMAIN rows' = Bill /\ rows'[b] = new /\ \A c \in Bill \ {b} : rows'[c] = rows[c]
      /\ \A c \in Bill : rows'[c] = Nothing \/ IsPublication(c, rows'[c])
  BY <1>2, <1>7, <1>8 DEF SponsorTypeOK
<1>10. CASE b \in DOMAIN run.input
  <2>1. run' = Processed(b)
    BY <1>1, <1>10 DEF CompletePublication
  <2>2. QED
    BY <1>2, <1>4, <1>7, <1>8, <1>9, <1>10, <2>1, ProcessedKeepsSponsorInv
<1>11. CASE b \notin DOMAIN run.input
  <2>1. run' = [run EXCEPT !.at = "replay", !.bill = Nothing]
    BY <1>1, <1>11 DEF CompletePublication
  <2>2. /\ run' \in Runs /\ run'.at = "replay" /\ run'.seen = run.seen
        /\ run'.input = run.input /\ run'.registry = run.registry /\ run'.review = run.review
        /\ run'.publish = run.publish
    BY <1>2, <2>1 DEF SponsorTypeOK, Runs, Steps
  <2>3. SponsorTypeOK'
    BY <1>2, <1>8, <1>9, <2>2 DEF SponsorTypeOK, IsPublication
  <2>4. OutcomeInv' /\ OnlyUnquestionedIsAutomatic' /\ \A c \in Bill : Links(c)' = Links(c)
    BY <1>8, RecordsUnchanged DEF SponsorInv
  <2>5. BillInv' /\ DecisionsAreJustified' /\ PendingLinksInv' /\ FinishedRunIsServed'
    BY <1>1, <1>2, <1>11, <2>2
       DEF SponsorInv, BillInv, DecisionsAreJustified, PendingLinksInv, FinishedRunIsServed
  <2>6. run.seen \subseteq Bill
    BY <1>2 DEF SponsorTypeOK, Runs
  <2>7. SeenIsServed'
    BY <1>2, <1>8, <1>9, <2>2, <2>4, <2>6 DEF SponsorInv, SeenIsServed
  <2>8. QED
    BY <2>3, <2>4, <2>5, <2>7 DEF SponsorInv
<1>12. QED
  BY <1>10, <1>11

\* The run goes on to its next part; nothing is published.
LEMMA GoOnKeepsSponsorInv ==
  ASSUME SponsorInv, run.at # "idle", UNCHANGED <<world, records, attempts, rows, graph>>,
         presence' \in [Bill -> {"unknown", "present", "missing"}],
         run' \in Runs, run'.seen = run.seen, run'.input = run.input,
         run'.registry = run.registry, run'.review = run.review, run'.publish = run.publish,
         run'.at \in {"put", "replay", "done"},
         BillInv', PendingLinksInv', FinishedRunIsServed'
  PROVE  SponsorInv'
<1>1. SponsorTypeOK'
  BY DEF SponsorInv, SponsorTypeOK, IsPublication
<1>2. OutcomeInv' /\ OnlyUnquestionedIsAutomatic' /\ \A c \in Bill : Links(c)' = Links(c)
  BY RecordsUnchanged DEF SponsorInv
<1>3. run.seen \subseteq Bill
  BY DEF SponsorInv, SponsorTypeOK, Runs
<1>4. SeenIsServed'
  BY <1>2, <1>3 DEF SponsorInv, SeenIsServed
<1>5. QED
  BY <1>1, <1>2, <1>4 DEF SponsorInv, DecisionsAreJustified

LEMMA PresenceKeepsSponsorInv ==
  ASSUME SponsorInv, RecordPresence
  PROVE  SponsorInv'
<1>1. /\ run.at = "bills" /\ run.seen = DOMAIN run.input
      /\ run' = [run EXCEPT !.at = "replay"]
      /\ UNCHANGED <<world, records, attempts, rows, graph>>
  BY DEF RecordPresence
<1>2. /\ run' \in Runs /\ run'.at = "replay" /\ run'.seen = run.seen /\ run'.input = run.input
      /\ run'.registry = run.registry /\ run'.review = run.review /\ run'.publish = run.publish
  BY <1>1 DEF SponsorInv, SponsorTypeOK, Runs, Steps
<1>3. presence' \in [Bill -> {"unknown", "present", "missing"}]
  <2>1. presence \in [Bill -> {"unknown", "present", "missing"}]
    BY DEF SponsorInv, SponsorTypeOK
  <2>2. QED
    BY <2>1 DEF RecordPresence
<1>4. BillInv' /\ PendingLinksInv' /\ FinishedRunIsServed'
  BY <1>1, <1>2 DEF SponsorInv, BillInv, PendingLinksInv, FinishedRunIsServed
<1>5. QED
  BY <1>1, <1>2, <1>3, <1>4, GoOnKeepsSponsorInv

LEMMA ReplayKeepsSponsorInv ==
  ASSUME SponsorInv, NEW b \in Bill, ReplayMissing(b)
  PROVE  SponsorInv'
<1>1. /\ run.at = "replay" /\ run.publish /\ b \in Bill \ run.seen
      /\ rows[b] # Nothing /\ rows[b].state = "dirty"
      /\ run' = [run EXCEPT !.at = "put", !.bill = b]
      /\ UNCHANGED <<world, records, attempts, rows, presence, graph>>
  BY DEF ReplayMissing, Interrupted, tables
<1>2. SponsorTypeOK /\ run.seen = DOMAIN run.input
  BY <1>1 DEF SponsorInv, BillInv
<1>3. /\ run' \in Runs /\ run'.at = "put" /\ run'.bill = b /\ run'.seen = run.seen
      /\ run'.input = run.input /\ run'.registry = run.registry /\ run'.review = run.review
      /\ run'.publish = run.publish
  BY <1>1, <1>2 DEF SponsorTypeOK, Runs, Steps
<1>4. IsPublication(b, rows[b])
  BY <1>1, <1>2 DEF SponsorTypeOK
<1>5. BillInv' /\ FinishedRunIsServed'
  BY <1>1, <1>2, <1>3 DEF BillInv, FinishedRunIsServed
<1>6. PendingLinksInv'
  BY <1>1, <1>2, <1>3, <1>4 DEF PendingLinksInv, IsPublication
<1>7. QED
  BY <1>1, <1>2, <1>3, <1>5, <1>6, GoOnKeepsSponsorInv DEF SponsorTypeOK

LEMMA FinishKeepsSponsorInv ==
  ASSUME SponsorInv, Finish
  PROVE  SponsorInv'
<1>1. /\ run.at = "replay"
      /\ run.publish => Interrupted = {}
      /\ run' = [run EXCEPT !.at = "done"]
      /\ UNCHANGED <<world, records, attempts, rows, presence, graph>>
  BY DEF Finish, tables
<1>2. SponsorTypeOK /\ run.seen = DOMAIN run.input /\ SeenIsServed
  BY <1>1 DEF SponsorInv, BillInv
<1>3. /\ run' \in Runs /\ run'.at = "done" /\ run'.seen = run.seen
      /\ run'.input = run.input /\ run'.registry = run.registry /\ run'.review = run.review
      /\ run'.publish = run.publish
  BY <1>1, <1>2 DEF SponsorTypeOK, Runs, Steps
<1>4. BillInv' /\ PendingLinksInv'
  BY <1>2, <1>3 DEF BillInv, PendingLinksInv
<1>5. ASSUME run.publish, NEW b \in Bill, rows[b] # Nothing
      PROVE  rows[b].state = "clean"
  <2>1. CASE b \in run.seen
    BY <1>1, <1>2, <1>5, <2>1 DEF SeenIsServed
  <2>2. CASE b \notin run.seen
    BY <1>1, <1>2, <1>5, <2>2 DEF Interrupted, SponsorTypeOK, IsPublication
  <2>3. QED
    BY <2>1, <2>2
<1>6. run.seen \subseteq Bill /\ \A c \in Bill : Links(c)' = Links(c)
  BY <1>1, <1>2 DEF SponsorTypeOK, Runs, Links
<1>7. FinishedRunIsServed'
  BY <1>1, <1>2, <1>3, <1>5, <1>6 DEF FinishedRunIsServed, SeenIsServed
<1>8. QED
  BY <1>1, <1>2, <1>3, <1>4, <1>7, GoOnKeepsSponsorInv DEF SponsorTypeOK

LEMMA EndKeepsSponsorInv ==
  ASSUME SponsorInv, Report \/ Fail \/ PutUnanswered
  PROVE  SponsorInv'
<1>1. run' = Idle /\ world' = world /\ UNCHANGED tables
  BY DEF Report, Fail, PutUnanswered
<1>2. world \in [source : Sources, registry : Registries, review : Reviews, tenure : Holders]
  BY DEF SponsorInv, SponsorTypeOK
<1>3. /\ graph' \in [Bill -> SUBSET (Sponsor \X LinkTarget)]
      /\ \A b \in Bill : graph'[b] \subseteq Of[b] \X LinkTarget
  <2>1. CASE Report \/ Fail
    BY <2>1 DEF Report, Fail, SponsorInv, SponsorTypeOK
  <2>2. CASE PutUnanswered
    BY <2>2, PutGraph DEF PutUnanswered
  <2>3. QED
    BY <2>1, <2>2
<1>4. QED
  BY <1>1, <1>2, <1>3, IdleIsARun, IdleKeepsSponsorInv

LEMMA StutterKeepsSponsorInv ==
  ASSUME SponsorInv, UNCHANGED sponsorVars
  PROVE  SponsorInv'
<1>1. UNCHANGED <<world, records, attempts, rows, presence, graph, run>>
  BY DEF sponsorVars, tables
<1>2. SponsorTypeOK'
  BY <1>1 DEF SponsorInv, SponsorTypeOK, IsPublication
<1>3. OutcomeInv' /\ OnlyUnquestionedIsAutomatic' /\ \A b \in Bill : Links(b)' = Links(b)
  BY <1>1, RecordsUnchanged DEF SponsorInv
<1>4. DecisionsAreJustified'
  BY <1>1 DEF SponsorInv, DecisionsAreJustified, Valid, Justified, ListedSponsors, Qualified,
              PublishedHoldings, MatchingOffices
<1>5. BillInv' /\ PendingLinksInv'
  BY <1>1, <1>3 DEF SponsorInv, BillInv, PendingLinksInv, IsPublication
<1>6. run.seen \subseteq Bill
  BY DEF SponsorInv, SponsorTypeOK, Runs
<1>7. SeenIsServed' /\ FinishedRunIsServed'
  BY <1>1, <1>3, <1>6 DEF SponsorInv, SeenIsServed, FinishedRunIsServed
<1>8. QED
  BY <1>2, <1>3, <1>4, <1>5, <1>7 DEF SponsorInv

LEMMA SponsorStep ==
  ASSUME SponsorInv, [SponsorNext]_sponsorVars
  PROVE  SponsorInv'
<1>1. CASE BetweenRuns
  BY <1>1, BetweenRunsKeepsSponsorInv, StartRunKeepsSponsorInv
<1>2. CASE Command
  BY <1>2, ReconcileKeepsSponsorInv, ReplayKeepsSponsorInv, InspectKeepsSponsorInv,
     SkipKeepsSponsorInv, MarkKeepsSponsorInv, PutKeepsSponsorInv, CompleteKeepsSponsorInv,
     PresenceKeepsSponsorInv, FinishKeepsSponsorInv, EndKeepsSponsorInv DEF Command
<1>3. CASE UNCHANGED sponsorVars
  BY <1>3, StutterKeepsSponsorInv
<1>4. QED
  BY <1>1, <1>2, <1>3 DEF SponsorNext

THEOREM SponsorInvariant == SponsorSpec => []SponsorInv
<1>1. QED
  BY SponsorInitInv, SponsorStep, PTL DEF SponsorSpec

\* Every table, graph and command keeps its shape: no acceptance without a
\* target, no target without an acceptance, each row a publication of its Bill.
THEOREM SponsorsTypeCorrect == SponsorSpec => []SponsorTypeOK
<1>1. SponsorInv => SponsorTypeOK
  BY DEF SponsorInv
<1>2. QED
  BY <1>1, SponsorInvariant, PTL

\* Whatever reconcile accepts, the independent validator accepts, for any
\* registry, holdings, review file and history of the records.
THEOREM AcceptedIsJustified == SponsorSpec => []DecisionsAreJustified
<1>1. SponsorInv => DecisionsAreJustified
  BY DEF SponsorInv
<1>2. QED
  BY <1>1, SponsorInvariant, PTL

\* A label accepts only a sponsor about whom nothing was ever in question.
THEOREM NothingQuestionedIsAutomatic == SponsorSpec => []OnlyUnquestionedIsAutomatic
<1>1. SponsorInv => OnlyUnquestionedIsAutomatic
  BY DEF SponsorInv
<1>2. QED
  BY <1>1, SponsorInvariant, PTL

\* A finished publishing run leaves nothing half published and serves, of each
\* Bill it saw, the links of its records.
THEOREM FinishedRunServesItsRecords == SponsorSpec => []FinishedRunIsServed
<1>1. SponsorInv => FinishedRunIsServed
  BY DEF SponsorInv
<1>2. QED
  BY <1>1, SponsorInvariant, PTL

\* The graph of a Bill outside the input changes only by the end of a
\* publication that was interrupted; only a complete scan calls a Bill missing.
THEOREM AbsenceRemovesNoLinks == SponsorSpec => AbsenceRemovesNothing
<1>1. ASSUME SponsorInv, [SponsorNext]_sponsorVars, run.at # "idle",
             NEW b \in Bill \ DOMAIN run.input
      PROVE  /\ graph'[b] # graph[b] => rows[b].state = "dirty" /\ graph'[b] = rows[b].pending
             /\ presence'[b] = "missing" => presence[b] = "missing" \/ run.complete
  <2>1. CASE Put \/ PutUnanswered
    <3>1. /\ run.at = "put" /\ presence' = presence
          /\ graph' = [graph EXCEPT ![run.bill] = rows[run.bill].pending]
      BY <2>1 DEF Put, PutUnanswered, tables
    <3>2. CASE b = run.bill
      BY <1>1, <3>1, <3>2 DEF SponsorInv, SponsorTypeOK, PendingLinksInv
    <3>3. CASE b # run.bill
      BY <1>1, <3>1, <3>3 DEF SponsorInv, SponsorTypeOK
    <3>4. QED
      BY <3>2, <3>3
  <2>2. CASE RecordPresence
    <3>1. graph' = graph /\ run.seen = DOMAIN run.input
      BY <2>2 DEF RecordPresence
    <3>2. ~run.complete => presence'[b] = presence[b]
      BY <2>2 DEF RecordPresence
    <3>3. QED
      BY <3>1, <3>2
  <2>3. CASE UNCHANGED <<graph, presence>>
    BY <2>3
  <2>4. Put \/ PutUnanswered \/ RecordPresence \/ UNCHANGED <<graph, presence>>
    <3>1. ~BetweenRuns
      BY <1>1 DEF BetweenRuns, SourceChanges, RegistryReviewed, HoldingsPublished,
                  DecisionRemoved, Reviewed, Edit, Rebuild, StartRun
    <3>2. QED
      BY <1>1, <3>1 DEF SponsorNext, Command, ReconcileSponsors, ReplayMissing, Inspect,
         SkipUnchanged, MarkPublicationDirty, CompletePublication, Finish, Report, Fail,
         sponsorVars, tables
  <2>5. QED
    BY <2>1, <2>2, <2>3, <2>4
<1>2. SponsorInv /\ [SponsorNext]_sponsorVars =>
        [run.at # "idle" => \A b \in Bill \ DOMAIN run.input :
           /\ graph'[b] # graph[b] => rows[b].state = "dirty" /\ graph'[b] = rows[b].pending
           /\ presence'[b] = "missing" => presence[b] = "missing" \/ run.complete]_sponsorVars
  BY <1>1
<1>3. QED
  BY <1>2, SponsorInvariant, PTL DEF SponsorSpec, AbsenceRemovesNothing
=============================================================================

---------------------------- MODULE OfficeLedger ----------------------------
(***************************************************************************)
(* The office occurrence ledger (office_reconciliation.py) for the reports *)
(* of one identity: one office label of one membership of one member,      *)
(* reported once or several times with different dates.  A complete scan   *)
(* matches the reports with the rows the ledger has, decides each from the *)
(* registry's candidates and the review file, and commits in one SQLite    *)
(* transaction.  A source snapshot stands for its fingerprint.             *)
(***************************************************************************)
EXTENDS Integers

CONSTANTS
  Snapshot,   \* what a report of this identity can look like
  Malformed,  \* snapshots that fail source validation
  Office,     \* the registered offices
  NoDecision, NotAccepted, \* the column is NULL
  MaxChanges  \* bound on changes of the source, the registry and the review file

ASSUME SomeAreMalformed == Malformed \subseteq Snapshot
ASSUME ChangesAreBounded == MaxChanges \in Nat

Identity == "occ-identity"
AnySnapshot == "any snapshot"

VARIABLES
  listed,    \* the member is in the source
  reports,   \* the snapshots its reports have, if it is
  matches,   \* the registry's candidates for the label
  review,    \* the review file: decision of each occurrence key
  ledger,    \* office_occurrence: a row for each key in its domain
  acceptances, \* the accepted resolutions that rows and attempts of a key record
  reused,    \* keys a scan gave to another report than the row they had (history variable)
  changes

sourceVars == <<listed, reports, matches, review, changes>>
ledgerVars == <<ledger, acceptances, reused>>

\* "occ-" and the identity, or "occ-" and the hash of identity and fingerprint.
Key == Snapshot \cup {Identity}

Resolution == [office : Office, snapshot : Snapshot]

\* A decision may be bound to a snapshot; a revocation must be.
Decision ==
  [verdict : {"accept"}, office : Office, snapshot : Snapshot \cup {AnySnapshot}]
    \cup [verdict : {"reject"}, snapshot : Snapshot \cup {AnySnapshot}]
    \cup [verdict : {"revoke"}, snapshot : Snapshot]

ASSUME NamesAreFresh ==
  /\ Identity \notin Snapshot /\ AnySnapshot \notin Snapshot
  /\ NoDecision \notin Decision /\ NotAccepted \notin Resolution

Row == [snapshot : Snapshot, present : BOOLEAN,
        status : {"accepted", "rejected", "review_required"},
        candidates : SUBSET Office,
        decision : Decision \cup {NoDecision},  \* the last one, kept when it is removed
        last : Resolution \cup {NotAccepted}]

LedgerInit ==
  /\ listed = TRUE /\ reports \in SUBSET Snapshot
  /\ matches \in SUBSET Office
  /\ review = [k \in Key |-> NoDecision]
  /\ ledger = << >>
  /\ acceptances = [k \in Key |-> {}]
  /\ reused = {}
  /\ changes = 0

----------------------------------------------------------------------------
\* The source, the registry and the reviewers

Change == changes < MaxChanges /\ changes' = changes + 1

ChangeReports(S) ==
  /\ Change
  /\ S # reports
  /\ reports' = S
  /\ UNCHANGED <<listed, matches, review, ledgerVars>>

ChangeListing ==
  /\ Change
  /\ listed' = ~listed
  /\ UNCHANGED <<reports, matches, review, ledgerVars>>

ChangeRegistry(C) ==
  /\ Change
  /\ C # matches
  /\ matches' = C
  /\ UNCHANGED <<listed, reports, review, ledgerVars>>

\* A reviewer enters, replaces or removes the decision on an occurrence.
Decide(k, d) ==
  /\ Change
  /\ k \in DOMAIN ledger
  /\ d # review[k]
  /\ review' = [review EXCEPT ![k] = d]
  /\ UNCHANGED <<listed, reports, matches, ledgerVars>>

----------------------------------------------------------------------------
\* Which row a report belongs to

Observed == IF listed THEN reports ELSE {}

Exact(s) == {k \in DOMAIN ledger : ledger[k].snapshot = s}

UnmatchedReports == {s \in Observed : Exact(s) = {}}
UnmatchedRows == {k \in DOMAIN ledger : ledger[k].snapshot \notin Observed}

\* One report and one row are left over: the report corrects the row.
IsCorrection == \E s \in Snapshot, k \in Key : UnmatchedReports = {s} /\ UnmatchedRows = {k}

\* Something is left over on both sides, and no telling what belongs together.
IsAmbiguous == UnmatchedReports # {} /\ UnmatchedRows # {} /\ ~IsCorrection

NewKey(s) == IF DOMAIN ledger = {} /\ Observed = {s} THEN Identity ELSE s

\* The row, if any, whose history the report continues.
Predecessor(s) ==
  IF s \notin UnmatchedReports THEN Exact(s)
  ELSE IF IsCorrection THEN UnmatchedRows ELSE {}

KeyOf(s) == IF Predecessor(s) = {} THEN NewKey(s) ELSE CHOOSE k \in Predecessor(s) : TRUE

\* "office occurrence key collision": the scan raises and is rolled back.
Collides == \E s, t \in Observed : s # t /\ KeyOf(s) = KeyOf(t)

----------------------------------------------------------------------------
\* What becomes of report s with key k, which is known if row k is its
\* predecessor and new otherwise.

Candidates(s) == IF s \in Malformed THEN {} ELSE matches

\* The registry, the report or the row's presence is not what it was.
Corrected(s, k, known) == known /\ ledger[k].snapshot # s
Reappeared(k, known) == known /\ ~ledger[k].present
CandidatesChanged(s, k, known) == known /\ ledger[k].candidates # Candidates(s)

HasChanged(s, k, known) ==
  Corrected(s, k, known) \/ CandidatesChanged(s, k, known) \/ Reappeared(k, known)

\* The decision is bound to another snapshot, was there before a change it
\* has not seen, or was removed.
ReviewIsStale(s, k, known) ==
  IF review[k] = NoDecision
    THEN known /\ ledger[k].decision # NoDecision
    ELSE \/ review[k].snapshot \notin {AnySnapshot, s}
         \/ HasChanged(s, k, known) /\ ledger[k].decision = review[k]

NeedsReview(s, k, known) ==
  \/ s \in Malformed
  \/ ~known /\ IsAmbiguous
  \/ ReviewIsStale(s, k, known)
  \/ Reappeared(k, known) /\ review[k] = NoDecision

\* Without a decision, a single report with a single candidate speaks for itself.
AutoAccepts(s, k, known) ==
  /\ Observed = {s}
  /\ \E o \in Office : Candidates(s) = {o}
  /\ ~HasChanged(s, k, known)

StatusOf(s, k, known) ==
  IF NeedsReview(s, k, known) THEN "review_required"
  ELSE IF review[k] # NoDecision
    THEN IF review[k].verdict = "accept" THEN "accepted" ELSE "rejected"
  ELSE IF AutoAccepts(s, k, known) THEN "accepted" ELSE "review_required"

Target(s, k) ==
  IF review[k] # NoDecision THEN review[k].office ELSE CHOOSE o \in Office : Candidates(s) = {o}

\* Mutant: a removed decision is forgotten.
CurrentDecision(k, known) == review[k]

LatestDecision(k, known) ==
  IF review[k] # NoDecision \/ ~known THEN review[k] ELSE ledger[k].decision

RowOf(s, k, known) ==
  LET status == StatusOf(s, k, known)
  IN [snapshot |-> s, present |-> TRUE, status |-> status, candidates |-> Candidates(s),
      decision |-> LatestDecision(k, known),
      last |-> IF status = "accepted" THEN [office |-> Target(s, k), snapshot |-> s]
               ELSE IF known THEN ledger[k].last ELSE NotAccepted]

\* Absence is something to review; it takes nothing back.
AbsentRow(k) ==
  [ledger[k] EXCEPT !.present = FALSE, !.status = "review_required",
                    !.decision = LatestDecision(k, TRUE)]

\* Mutant: an attempt does not keep what was accepted at the time.
InRow(k, rows) == {r \in Resolution : k \in DOMAIN rows /\ rows[k].last = r}

\* Every attempt keeps what was accepted at the time.
Recorded(k, rows) == acceptances[k] \cup {r \in Resolution : k \in DOMAIN rows /\ rows[k].last = r}

\* reconcile, on a complete scan
Reconcile ==
  LET known == {s \in Observed : Predecessor(s) # {}}
      key == [s \in Observed |-> KeyOf(s)]
      keys == {key[s] : s \in Observed}
  IN /\ \A s, t \in Observed : key[s] = key[t] => s = t
     /\ ledger' = [k \in DOMAIN ledger \cup keys |->
                     IF k \in keys
                       THEN LET s == CHOOSE t \in Observed : key[t] = k
                            IN RowOf(s, k, s \in known)
                       ELSE AbsentRow(k)]
     /\ acceptances' = [k \in Key |-> Recorded(k, ledger')]
     /\ reused' = reused \cup {k \in DOMAIN ledger : \E s \in Observed \ known : key[s] = k}
     /\ UNCHANGED sourceVars
=============================================================================

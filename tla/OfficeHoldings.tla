--------------------------- MODULE OfficeHoldings ---------------------------
(***************************************************************************)
(* The office holdings in a member's graph (cli.py, the Members run).  A   *)
(* complete run first reconciles the ledger, which commits on its own,     *)
(* then composes the graph from the ledger and from the payload it last    *)
(* published, and publishes it as ResourcePublication describes; of that   *)
(* only the two commits to Core State are kept here.  The run may end at   *)
(* any step, and oir-etl reconcile offices updates the ledger by itself.   *)
(***************************************************************************)
EXTENDS OfficeLedger

CONSTANTS
  NoPayload,  \* the column is NULL
  MaxFaults   \* bound on runs that die or have the member withheld

ASSUME FaultsAreBounded == MaxFaults \in Nat

VARIABLES
  published, \* payload of the last completed publication, if there is one
  pending,   \* payload of a publication begun, if the row is dirty
  pc,        \* the Members run
  fetched,   \* the reports it saw
  faults

runVars == <<pc, fetched>>
coreVars == <<published, pending>>
vars == <<sourceVars, ledgerVars, coreVars, runVars, faults>>

Holding == [key : Key, office : Office, snapshot : Snapshot]
Payload == [reports : SUBSET Snapshot, holdings : SUBSET Holding]

ASSUME PayloadIsNotNull == NoPayload \notin Payload

Init ==
  /\ LedgerInit
  /\ published = NoPayload /\ pending = NoPayload
  /\ pc = "idle" /\ fetched = {}
  /\ faults = 0

Fault == faults < MaxFaults /\ faults' = faults + 1

----------------------------------------------------------------------------
\* The evidence: what is accepted now, was accepted before, is revoked.

HoldingOf(k, r) == [key |-> k, office |-> r.office, snapshot |-> r.snapshot]

\* Mutant: an acceptance counts while its report is there.
PresentEvidence == {k \in DOMAIN ledger : ledger[k].present /\ ledger[k].last # NotAccepted}

Evidence == {k \in DOMAIN ledger : ledger[k].last # NotAccepted}

Accepted ==
  {k \in Evidence : /\ ledger[k].present /\ ledger[k].status = "accepted"
                    /\ ledger[k].last.snapshot = ledger[k].snapshot}

Revoked ==
  {k \in Evidence : /\ ledger[k].present /\ ledger[k].status = "rejected"
                    /\ ledger[k].decision.verdict = "revoke"
                    /\ ledger[k].decision.snapshot = ledger[k].snapshot}

\* Mutant: what is accepted anew is kept as well.
RetainableUnlessRevoked == Evidence \ Revoked

Retainable == Evidence \ (Accepted \cup Revoked)

Holdings(p) == IF p = NoPayload THEN {} ELSE p.holdings

Current == {HoldingOf(k, ledger[k].last) : k \in Accepted}

\* Published before, exactly as it was accepted.
Retained ==
  {h \in Holdings(published) :
     /\ h.key \in Retainable
     /\ [office |-> h.office, snapshot |-> h.snapshot] \in acceptances[h.key]}

\* Its occurrence is accepted anew or revoked.
IsSuperseded(h) ==
  /\ h.key \in Accepted \cup Revoked
  /\ \E r \in acceptances[h.key] : r.office = h.office

\* Published, and nothing says what should become of it.
Unaccounted ==
  {h \in Holdings(published) :
     /\ ~\E g \in Current \cup Retained : g.key = h.key /\ g.office = h.office
     /\ ~IsSuperseded(h)}

IsBlocked == Evidence # {} /\ Unaccounted # {}

Composed == [reports |-> fetched, holdings |-> Current \cup Retained]

\* The graph would be the one published, or neither the record nor any
\* accepted office of the member has changed it.
IsUnchanged ==
  /\ pending = NoPayload /\ published # NoPayload
  /\ published.reports = fetched
  /\ Evidence = {} \/ published = Composed

----------------------------------------------------------------------------
\* oir-etl reconcile offices
ReconcileOnly ==
  /\ pc = "idle"
  /\ Reconcile
  /\ UNCHANGED <<coreVars, runVars, faults>>

\* oir-etl run members, as far as the ledger
StartMembers ==
  /\ pc = "idle"
  /\ Reconcile
  /\ fetched' = Observed
  /\ pc' = IF listed THEN "compose" ELSE "replay"
  /\ UNCHANGED <<coreVars, faults>>

\* Either command, when two reports would get one key: nothing is committed.
ScanCollides ==
  /\ pc = "idle"
  /\ Collides
  /\ UNCHANGED vars

EndMembers == pc' = "idle" /\ fetched' = {}

Skip ==
  /\ pc = "compose"
  /\ IsBlocked \/ IsUnchanged
  /\ EndMembers
  /\ UNCHANGED <<sourceVars, ledgerVars, coreVars, faults>>

\* A record that could be skipped is composed again when the registry or the
\* review file is another one than at the last scan.
MarkDirty ==
  /\ pc = "compose"
  /\ ~IsBlocked
  /\ ~(IsUnchanged /\ published = Composed)
  /\ pending' = Composed
  /\ pc' = "publish"
  /\ UNCHANGED <<sourceVars, ledgerVars, published, fetched, faults>>

Complete ==
  /\ pc = "publish"
  /\ published' = pending
  /\ pending' = NoPayload
  /\ EndMembers
  /\ UNCHANGED <<sourceVars, ledgerVars, faults>>

\* The member is not in the source: what is pending is published as it is.
Replay ==
  /\ pc = "replay"
  /\ IF pending # NoPayload
       THEN pc' = "publish" /\ UNCHANGED fetched
       ELSE EndMembers
  /\ UNCHANGED <<sourceVars, ledgerVars, coreVars, faults>>

\* The run dies or a request fails; or the record breaks its contract, lacks
\* the membership of an accepted office or fails to transform.
GiveUp ==
  /\ pc # "idle"
  /\ Fault
  /\ EndMembers
  /\ UNCHANGED <<sourceVars, ledgerVars, coreVars>>

----------------------------------------------------------------------------
Members == StartMembers \/ Skip \/ MarkDirty \/ Complete \/ Replay

Environment ==
  \/ \E S \in SUBSET Snapshot : ChangeReports(S)
  \/ ChangeListing
  \/ \E C \in SUBSET Office : ChangeRegistry(C)
  \/ \E k \in Key, d \in Decision \cup {NoDecision} : Decide(k, d)

Next ==
  \/ Members
  \/ ReconcileOnly
  \/ ScanCollides
  \/ GiveUp
  \/ Environment /\ UNCHANGED <<coreVars, runVars, faults>>

Spec == Init /\ [][Next]_vars

----------------------------------------------------------------------------
\* Every variable stays in its domain.
TypeOK ==
  /\ listed \in BOOLEAN /\ reports \subseteq Snapshot /\ matches \subseteq Office
  /\ review \in [Key -> Decision \cup {NoDecision}]
  /\ DOMAIN ledger \subseteq Key /\ ledger \in [DOMAIN ledger -> Row]
  /\ acceptances \in [Key -> SUBSET Resolution]
  /\ reused \subseteq Key
  /\ changes \in 0..MaxChanges
  /\ published \in Payload \cup {NoPayload}
  /\ pending \in Payload \cup {NoPayload}
  /\ pc \in {"idle", "compose", "replay", "publish"}
  /\ fetched \subseteq Snapshot
  /\ faults \in 0..MaxFaults

\* No two occurrences have the same snapshot, so that a report never belongs
\* to two of them ("ambiguous duplicate occurrence ledger rows").
RowsAreDistinct ==
  \A j, k \in DOMAIN ledger : ledger[j].snapshot = ledger[k].snapshot => j = k

\* Whatever a graph says a member held was accepted by the ledger, for that
\* occurrence and with those dates: Core State never runs ahead of the other
\* database, whichever of the two a crash left behind.
HoldingsAreAccepted ==
  \A h \in Holdings(published) \cup Holdings(pending) :
    [office |-> h.office, snapshot |-> h.snapshot] \in acceptances[h.key]

\* A graph gives an occurrence each office once: its IRI is made from the two,
\* so a second holding would add its dates to the first's.
HoldingsAreDistinct ==
  \A p \in {published, pending} : \A g, h \in Holdings(p) :
    g.key = h.key /\ g.office = h.office => g = h

\* A holding is left out of a new graph only if its occurrence is accepted anew
\* or revoked: absence, correction, conflict and rejection retire nothing.
\* Unless its key was given to another report.
RetirementNeedsEvidence ==
  [][pending' \notin {pending, NoPayload} =>
       \A h \in Holdings(published) :
         \/ h.key \in reused \cup Accepted \cup Revoked
         \/ \E g \in pending'.holdings : g.key = h.key /\ g.office = h.office]_vars

\* An occurrence whose decision was removed from the review file is not
\* accepted by a scan, nor is the decision forgotten that the next one must
\* miss: however often it is scanned, it awaits another.
RemovalNeedsReview ==
  [][\A k \in DOMAIN ledger \ reused' :
       ledger[k].decision # NoDecision /\ review[k] = NoDecision /\ ledger' # ledger
         => ledger'[k].status # "accepted" /\ ledger'[k].decision # NoDecision]_vars

=============================================================================

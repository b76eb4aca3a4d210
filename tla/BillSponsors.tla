---------------------------- MODULE BillSponsors ----------------------------
(***************************************************************************)
(* `reconcile bills-local`: the sponsors a Bill shows at the source are    *)
(* linked to reviewed offices, and by human decision to the office holding *)
(* of a Member, in one graph per Bill that no other owner writes.          *)
(* bill-sponsors.sqlite keeps the record of every sponsor ever seen, the   *)
(* history of the outcomes and the publication state of every graph.       *)
(*                                                                         *)
(* A sponsor is its Participation: the role, the person and the primary    *)
(* flag of a Bill.  The hash of a Bill, of the registry or of the holdings *)
(* is the value itself.  The source, the registry and the review file are  *)
(* read when a command starts; the locks of Core State and of the office   *)
(* ledger keep the holdings still while it runs.  The checks of the core   *)
(* graph and of the published registry have no effect but to end the run,  *)
(* as Fail does at every step.                                             *)
(***************************************************************************)
EXTENDS Integers, FiniteSets, FiniteSetsExt, SequencesExt

CONSTANTS
  Bill,        \* Bills
  Editions,    \* the sponsor lists each Bill may show at the source
  Registries,  \* reviewed registries: offices whose labels match each sponsor
  Tenures,     \* sets of holdings each sponsor's person may have on the event date
  Targets,     \* the targets a human decision may accept
  Nothing,     \* an absent row, decision, target or Bill
  MaxEdits,    \* bound on changes of the source, the registry, the holdings and the review
  MaxRuns,     \* bound on commands
  MaxInterruptions    \* bound on failures, crashes and rebuilds of the dataset

ASSUME BoundsAreNatural == {MaxEdits, MaxRuns, MaxInterruptions} \subseteq Nat

VARIABLES
  world,     \* source, registry, holdings and review file at this moment
  records,   \* bill_sponsor_observation
  attempts,  \* bill_sponsor_attempt
  rows,      \* bill_sponsor_publication
  presence,  \* bill_sponsor_presence
  graph,     \* the local graph of each Bill in the triple store
  run,       \* the command that is running
  edits, runs, interruptions

tables == <<records, attempts, rows, presence>>
counters == <<edits, runs, interruptions>>
sponsorVars == <<world, tables, graph, run, counters>>

Of == [b \in Bill |-> UNION {Range(e.order) : e \in Editions[b]}]
Sponsor == UNION Range(Of)
BillOf == [s \in Sponsor |-> CHOOSE b \in Bill : s \in Of[b]]

\* A time context selects a dated event of the Bill; only a decision on a
\* holding has one.
NoTarget == [office |-> Nothing, holding |-> Nothing]
LocalOffice == {t.office : t \in Targets} \cup UNION {r[s] : r \in Registries, s \in Sponsor}
LinkTarget ==
  [office : LocalOffice \cup {Nothing}, holding : {t.holding : t \in Targets} \cup {Nothing}]
    \ {NoTarget}
Status == {"accepted", "rejected", "unresolved", "review_required"}

\* sponsor_input_fingerprint: all the evidence one decision rests on.
Fingerprint(edition, registry, tenure, dated) ==
  [edition |-> edition, registry |-> registry, tenure |-> tenure, context |-> dated]
Fingerprints(s) == [edition : Editions[BillOf[s]], registry : Registries,
                    tenure : Tenures[s] \cup {{}}, context : BOOLEAN]
\* What is accepted has a target, nothing else has one.
SponsorDecision(s) ==
  {d \in [status : {"accepted", "rejected"}, target : LinkTarget \cup {NoTarget},
          of : Fingerprints(s)] :
     (d.status = "accepted") = (d.target # NoTarget)}

Record(s) ==
  {r \in [present : BOOLEAN, index : Nat, status : Status,
          by : {"review", "label", "gate", "none"}, of : Fingerprints(s),
          decision : SponsorDecision(s) \cup {Nothing}, target : LinkTarget \cup {NoTarget}] :
     (r.status = "accepted") = (r.target # NoTarget)}

Sources == {f \in [Bill -> (UNION {Editions[b] : b \in Bill}) \cup {Nothing}] :
              \A b \in Bill : f[b] \in Editions[b] \cup {Nothing}}
Reviews == {f \in [Sponsor -> (UNION {SponsorDecision(s) : s \in Sponsor}) \cup {Nothing}] :
              \A s \in Sponsor : f[s] \in SponsorDecision(s) \cup {Nothing}}
Holders == {f \in [Sponsor -> UNION {Tenures[s] : s \in Sponsor}] :
              \A s \in Sponsor : f[s] \in Tenures[s]}

\* A Participation is of one Bill.
ASSUME EditionsListSponsors ==
  \A b \in Bill :
    /\ Editions[b] # {} /\ Nothing \notin Editions[b]
    /\ \A e \in Editions[b] : e.order \in Seq(Of[b]) /\ e.dated \in BOOLEAN
    /\ \A c \in Bill \ {b} : Of[b] \cap Of[c] = {}
ASSUME RegistriesNameOffices ==
  \A r \in Registries, s \in Sponsor : IsFiniteSet(r[s]) /\ Nothing \notin r[s]
ASSUME AcceptanceHasTarget ==
  \A t \in Targets : t = [office |-> t.office, holding |-> t.holding] /\ t # NoTarget
ASSUME NothingIsNoRow ==
  Nothing \notin Bill /\ \A s \in Sponsor : Nothing \notin Record(s) \cup SponsorDecision(s)

Idle == [at |-> "idle", publish |-> FALSE, complete |-> FALSE, input |-> Nothing,
         registry |-> Nothing, review |-> Nothing, seen |-> {}, bill |-> Nothing]

SponsorInit ==
  /\ world \in [source : {[b \in Bill |-> CHOOSE e \in Editions[b] : TRUE]},
                registry : Registries, review : {[s \in Sponsor |-> Nothing]}, tenure : Holders]
  /\ records = [s \in Sponsor |-> Nothing]
  /\ attempts = [s \in Sponsor |-> {}]
  /\ rows = [b \in Bill |-> Nothing]
  /\ presence = [b \in Bill |-> "unknown"]
  /\ graph = [b \in Bill |-> {}]
  /\ run = Idle
  /\ edits = 0 /\ runs = 0 /\ interruptions = 0

----------------------------------------------------------------------------
\* Between commands

Edit(w) ==
  /\ run.at = "idle"
  /\ edits < MaxEdits /\ edits' = edits + 1
  /\ world' = w /\ w # world
  /\ UNCHANGED <<tables, graph, run, runs, interruptions>>

SourceChanges(b, e) == Edit([world EXCEPT !.source[b] = e])
RegistryReviewed(r) == Edit([world EXCEPT !.registry = r])
HoldingsPublished(s, t) == Edit([world EXCEPT !.tenure[s] = t])
DecisionRemoved(s) == Edit([world EXCEPT !.review[s] = Nothing])

\* A decision names the fingerprint of the evidence that was reviewed.
Reviewed(s, status, target) ==
  /\ world.source[BillOf[s]] # Nothing
  /\ Edit([world EXCEPT !.review[s] =
       [status |-> status, target |-> target,
        of |-> Fingerprint(world.source[BillOf[s]], world.registry, world.tenure[s],
                           target.holding # Nothing)]])

\* A rebuilt dataset holds the payloads of Core State and of the identity
\* reconciliation: no Bill's local graph is among them.
Rebuild ==
  /\ run.at = "idle"
  /\ interruptions < MaxInterruptions /\ interruptions' = interruptions + 1
  /\ graph' = [b \in Bill |-> {}]
  /\ UNCHANGED <<world, tables, run, edits, runs>>

----------------------------------------------------------------------------
\* A command: every Bill of its input, then the Bills it did not see

Showing == {b \in Bill : world.source[b] # Nothing}

\* A live scan is complete; a fixture holds some of the Bills and is not.
StartRun(scope, complete, publish) ==
  /\ run.at = "idle"
  /\ runs < MaxRuns /\ runs' = runs + 1
  /\ scope \subseteq Showing
  /\ IF complete THEN scope = Showing ELSE scope # {}
  /\ run' = [at |-> "bills", publish |-> publish, complete |-> complete,
             input |-> [b \in scope |-> world.source[b]],
             registry |-> world.registry, review |-> world.review,
             seen |-> {}, bill |-> Nothing]
  /\ UNCHANGED <<world, tables, graph, edits, interruptions>>

ListedSponsors(b) == Range(run.input[b].order)
Index(s) == CHOOSE i \in 1..Len(run.input[BillOf[s]].order) :
              /\ run.input[BillOf[s]].order[i] = s
              /\ \A j \in 1..(i - 1) : run.input[BillOf[s]].order[j] # s

\* Only a publishing command reads published Member holdings.
PublishedHoldings(s) == IF run.publish THEN world.tenure[s] ELSE {}

\* The event a decision selected is still in the Bill.
InContext(s) ==
  /\ run.review[s] # Nothing /\ run.review[s].target.holding # Nothing
  /\ run.input[BillOf[s]].dated

CurrentEvidence(s) ==
  Fingerprint(run.input[BillOf[s]], run.registry, PublishedHoldings(s), InContext(s))

\* Exactly one holding, known to the day, covers the event, and the decision
\* names it and no other office.
Qualified(s, target) ==
  \/ target.holding = Nothing
  \/ /\ \E h \in PublishedHoldings(s) : PublishedHoldings(s) = {h} /\ h.exact /\ h.office = target.holding
     /\ target.office \in {Nothing, target.holding}

\* Offices whose reviewed label or alias is the sponsor's role.
MatchingOffices(s) ==
  IF s \in run.input[BillOf[s]].disputed THEN {} ELSE run.registry[s]

\* What blocks an implicit acceptance: evidence that changed, a decision that
\* was taken back, an absence, a sponsor that took another's position, or a
\* review that is still pending.
ReplacesAnother(s) ==
  \E t \in Of[BillOf[s]] \ {s} :
    records[t] # Nothing /\ records[t].present /\ records[t].index = Index(s)

\* Mutant: the gate closes when something changes and opens again by itself.
GatedOnce(s) ==
  LET old == records[s]
  IN  IF old = Nothing THEN ReplacesAnother(s)
      ELSE old.of # CurrentEvidence(s) \/ old.decision # Nothing \/ ~old.present

Gated(s) ==
  LET old == records[s]
  IN  IF old = Nothing THEN ReplacesAnother(s)
      ELSE \/ old.of # CurrentEvidence(s) \/ old.decision # Nothing
           \/ ~old.present \/ old.status = "review_required"

Judged(status, by, target) == [status |-> status, by |-> by, target |-> target]
ForReview == Judged("review_required", "gate", NoTarget)

\* Mutant: a decision is applied whatever evidence it was made on.
ByReviewUnbound(s) ==
  LET d == run.review[s]
  IN  IF d.status # "accepted" THEN Judged(d.status, "review", NoTarget)
      ELSE IF Qualified(s, d.target) THEN Judged("accepted", "review", d.target)
      ELSE ForReview

ByReview(s) ==
  LET d == run.review[s]
  IN  IF d.of # CurrentEvidence(s) \/ (d.target.holding # Nothing /\ ~InContext(s)) THEN ForReview
      ELSE IF d.status # "accepted" THEN Judged(d.status, "review", NoTarget)
      ELSE IF Qualified(s, d.target) THEN Judged("accepted", "review", d.target)
      ELSE ForReview

ByLabel(s) ==
  IF s \in run.input[BillOf[s]].disputed \/ Cardinality(MatchingOffices(s)) > 1 THEN ForReview
  ELSE IF MatchingOffices(s) = {} THEN Judged("unresolved", "none", NoTarget)
  ELSE Judged("accepted", "label",
              [office |-> CHOOSE o \in MatchingOffices(s) : TRUE, holding |-> Nothing])

Judgement(s) ==
  IF run.review[s] # Nothing THEN ByReview(s)
  ELSE IF Gated(s) THEN ForReview ELSE ByLabel(s)

\* The digest of a decision outlives the decision.
LastDecision(s) ==
  IF run.review[s] # Nothing \/ records[s] = Nothing THEN run.review[s] ELSE records[s].decision

PresentRecord(s) ==
  LET j == Judgement(s)
  IN  [present |-> TRUE, index |-> Index(s), status |-> j.status, by |-> j.by,
       of |-> CurrentEvidence(s), decision |-> LastDecision(s), target |-> j.target]

MissingRecord(s) ==
  [records[s] EXCEPT !.present = FALSE, !.status = "review_required", !.by = "gate",
                     !.decision = LastDecision(s), !.target = NoTarget]

Updated(s) ==
  IF s \in ListedSponsors(BillOf[s]) THEN PresentRecord(s)
  ELSE IF records[s] # Nothing THEN MissingRecord(s) ELSE Nothing

Attempt(r) == [status |-> r.status, by |-> r.by, of |-> r.of, target |-> r.target]

\* BillSponsorStore.reconcile: one transaction for all the sponsors of a Bill.
ReconcileSponsors(b) ==
  /\ run.at = "bills" /\ b \in DOMAIN run.input \ run.seen
  /\ LET new == [s \in Of[b] |-> Updated(s)]
     IN  /\ records' = [s \in Sponsor |-> IF s \in Of[b] THEN new[s] ELSE records[s]]
         /\ attempts' = [s \in Sponsor |->
              IF s \in Of[b] /\ new[s] # Nothing THEN attempts[s] \cup {Attempt(new[s])}
              ELSE attempts[s]]
  /\ run' = [run EXCEPT !.at = "build", !.bill = b]
  /\ UNCHANGED <<world, rows, presence, graph, counters>>

\* build_bill_sponsor_graph: the accepted sponsors of the current Bill.
Links(b) ==
  {<<s, records[s].target>> : s \in {t \in Of[b] :
     records[t] # Nothing /\ records[t].present /\ records[t].status = "accepted"}}

\* validate_bill_sponsor_graph: the rule worked out again from the source.
Justified(s) ==
  LET r == records[s]
  IN  /\ r # Nothing /\ r.present
      /\ r.of = Fingerprint(run.input[BillOf[s]], run.registry, PublishedHoldings(s), r.of.context)
      /\ IF r.status # "accepted" THEN r.target = NoTarget
         ELSE /\ r.target # NoTarget
              /\ r.target.holding # Nothing => r.of.context /\ Qualified(s, r.target)
              /\ IF r.by = "label"
                 THEN /\ MatchingOffices(s) = {r.target.office} /\ r.target.holding = Nothing
                      /\ r.decision = Nothing
                 ELSE /\ r.by = "review" /\ r.decision # Nothing
                      /\ r.decision.status = "accepted"
                      /\ r.decision.of = r.of /\ r.decision.target = r.target
Valid(b) == \A s \in ListedSponsors(b) : Justified(s)

EvidenceOf(b) ==
  [review |-> run.review,
   outcomes |-> [s \in Of[b] |-> IF records[s] = Nothing THEN Nothing
                                 ELSE [of |-> records[s].of, status |-> records[s].status,
                                       target |-> records[s].target]]]

Processed(b) == [run EXCEPT !.at = "bills", !.seen = @ \cup {b}, !.bill = Nothing]

\* Without --publish the graph is only validated and written to a file.
Inspect ==
  /\ run.at = "build" /\ ~run.publish /\ Valid(run.bill)
  /\ run' = Processed(run.bill)
  /\ UNCHANGED <<world, tables, graph, counters>>

\* Mutant: the graph is not read back before it is skipped.
UpToDateUnread(b) ==
  /\ rows[b] # Nothing /\ rows[b].state = "clean"
  /\ rows[b].published = Links(b) /\ rows[b].evidence = EvidenceOf(b)

UpToDate(b) ==
  /\ rows[b] # Nothing /\ rows[b].state = "clean"
  /\ rows[b].published = Links(b) /\ rows[b].evidence = EvidenceOf(b)
  /\ graph[b] = Links(b)

SkipUnchanged ==
  /\ run.at = "build" /\ run.publish /\ Valid(run.bill) /\ UpToDate(run.bill)
  /\ run' = Processed(run.bill)
  /\ UNCHANGED <<world, tables, graph, counters>>

NewRow == [state |-> "dirty", published |-> {}, evidence |-> Nothing,
           pending |-> {}, pendingEvidence |-> Nothing]

MarkPublicationDirty ==
  LET b == run.bill
      old == IF rows[b] = Nothing THEN NewRow ELSE rows[b]
  IN  /\ run.at = "build" /\ run.publish /\ Valid(b) /\ ~UpToDate(b)
      /\ rows' = [rows EXCEPT ![b] =
           [old EXCEPT !.state = "dirty", !.pending = Links(b), !.pendingEvidence = EvidenceOf(b)]]
      /\ run' = [run EXCEPT !.at = "put"]
      /\ UNCHANGED <<world, records, attempts, presence, graph, counters>>

Put ==
  /\ run.at = "put"
  /\ graph' = [graph EXCEPT ![run.bill] = rows[run.bill].pending]
  /\ run' = [run EXCEPT !.at = "complete"]
  /\ UNCHANGED <<world, tables, counters>>

\* The request fails after the server has applied it.
PutUnanswered ==
  /\ run.at = "put"
  /\ interruptions < MaxInterruptions /\ interruptions' = interruptions + 1
  /\ graph' = [graph EXCEPT ![run.bill] = rows[run.bill].pending]
  /\ run' = Idle
  /\ UNCHANGED <<world, tables, edits, runs>>

Completed(row) ==
  [row EXCEPT !.state = "clean", !.published = row.pending, !.evidence = row.pendingEvidence,
              !.pending = {}, !.pendingEvidence = Nothing]

\* The graph is read back before the row becomes clean.
CompletePublication ==
  /\ run.at = "complete"
  /\ graph[run.bill] = rows[run.bill].pending
  /\ rows' = [rows EXCEPT ![run.bill] = Completed(@)]
  /\ run' = IF run.bill \in DOMAIN run.input THEN Processed(run.bill)
            ELSE [run EXCEPT !.at = "replay", !.bill = Nothing]
  /\ UNCHANGED <<world, records, attempts, presence, graph, counters>>

Known(b) ==
  \/ \E s \in Of[b] : records[s] # Nothing
  \/ rows[b] # Nothing \/ presence[b] # "unknown"

\* Mutant: a fixture tells that the Bills outside it are gone.
RecordPresenceAlways ==
  /\ run.at = "bills" /\ run.seen = DOMAIN run.input
  /\ presence' = [b \in Bill |->
       IF b \in run.seen THEN "present" ELSE IF Known(b) THEN "missing" ELSE presence[b]]
  /\ run' = [run EXCEPT !.at = "replay"]
  /\ UNCHANGED <<world, records, attempts, rows, graph, counters>>

\* complete_source_presence: only a complete scan tells that a Bill is gone.
RecordPresence ==
  /\ run.at = "bills" /\ run.seen = DOMAIN run.input
  /\ presence' = [b \in Bill |->
       IF ~run.complete THEN presence[b]
       ELSE IF b \in run.seen THEN "present"
       ELSE IF Known(b) THEN "missing" ELSE presence[b]]
  /\ run' = [run EXCEPT !.at = "replay"]
  /\ UNCHANGED <<world, records, attempts, rows, graph, counters>>

Interrupted == {b \in Bill \ run.seen : rows[b] # Nothing /\ rows[b].state = "dirty"}

ReplayMissing(b) ==
  /\ run.at = "replay" /\ run.publish
  /\ b \in Interrupted
  /\ run' = [run EXCEPT !.at = "put", !.bill = b]
  /\ UNCHANGED <<world, tables, graph, counters>>

Finish ==
  /\ run.at = "replay"
  /\ run.publish => Interrupted = {}
  /\ run' = [run EXCEPT !.at = "done"]
  /\ UNCHANGED <<world, tables, graph, counters>>

Report ==
  /\ run.at = "done"
  /\ run' = Idle
  /\ UNCHANGED <<world, tables, graph, counters>>

\* The process dies, a request is refused or a check raises.
Fail ==
  /\ run.at # "idle"
  /\ interruptions < MaxInterruptions /\ interruptions' = interruptions + 1
  /\ run' = Idle
  /\ UNCHANGED <<world, tables, graph, edits, runs>>

BetweenRuns ==
  \/ \E b \in Bill : \E e \in Editions[b] \cup {Nothing} : SourceChanges(b, e)
  \/ \E r \in Registries : RegistryReviewed(r)
  \/ \E s \in Sponsor : \E t \in Tenures[s] : HoldingsPublished(s, t)
  \/ \E s \in Sponsor : DecisionRemoved(s) \/ Reviewed(s, "rejected", NoTarget)
  \/ \E s \in Sponsor, t \in Targets : Reviewed(s, "accepted", t)
  \/ Rebuild
  \/ \E scope \in SUBSET Showing, complete, publish \in BOOLEAN : StartRun(scope, complete, publish)

Command ==
  \/ \E b \in Bill : ReconcileSponsors(b) \/ ReplayMissing(b)
  \/ Inspect \/ SkipUnchanged \/ MarkPublicationDirty \/ Put \/ PutUnanswered \/ CompletePublication
  \/ RecordPresence \/ Finish \/ Report \/ Fail

SponsorNext == BetweenRuns \/ Command
SponsorSpec == SponsorInit /\ [][SponsorNext]_sponsorVars

----------------------------------------------------------------------------
\* Properties

Steps == {"idle", "bills", "build", "put", "complete", "replay", "done"}
Inputs == {f \in UNION {[scope -> UNION {Editions[b] : b \in Bill}] : scope \in SUBSET Bill} :
             \A b \in DOMAIN f : f[b] \in Editions[b]}
Runs == [at : Steps, publish : BOOLEAN, complete : BOOLEAN, input : Inputs \cup {Nothing},
         registry : Registries \cup {Nothing}, review : Reviews \cup {Nothing},
         seen : SUBSET Bill, bill : Bill \cup {Nothing}]
IsPublication(b, row) ==
  /\ row = [state |-> row.state, published |-> row.published, evidence |-> row.evidence,
            pending |-> row.pending, pendingEvidence |-> row.pendingEvidence]
  /\ row.state \in {"clean", "dirty"}
  /\ row.published \subseteq Of[b] \X LinkTarget /\ row.pending \subseteq Of[b] \X LinkTarget

\* The world, every table, graph and command has its shape; a command that is
\* running has its input, registry and review file in hand.
SponsorTypeOK ==
  /\ world \in [source : Sources, registry : Registries, review : Reviews, tenure : Holders]
  /\ DOMAIN records = Sponsor
  /\ \A s \in Sponsor : records[s] = Nothing \/ records[s] \in Record(s)
  /\ DOMAIN rows = Bill /\ \A b \in Bill : rows[b] = Nothing \/ IsPublication(b, rows[b])
  /\ presence \in [Bill -> {"unknown", "present", "missing"}]
  /\ graph \in [Bill -> SUBSET (Sponsor \X LinkTarget)]
  /\ \A b \in Bill : graph[b] \subseteq Of[b] \X LinkTarget
  /\ run \in Runs
  /\ run.at # "idle" =>
       run.input \in Inputs /\ run.registry \in Registries /\ run.review \in Reviews

\* A graph is accepted by reconcile only in a form that the graph builder and
\* the independent validator accept too: no command stops between the
\* decision and its publication.
DecisionsAreJustified == run.at = "build" => Valid(run.bill)

\* A label accepts a sponsor without a human only as long as nothing about it
\* was ever put in question: each of its outcomes so far rests on the same
\* evidence, and no review, absence or gate is among them.
OnlyUnquestionedIsAutomatic ==
  \A s \in Sponsor : records[s] # Nothing /\ records[s].by = "label" =>
    \A a \in attempts[s] : a.by = "label" /\ a.of = records[s].of

\* A publishing command that finishes leaves no graph half published, in its
\* input or out of it, and serves for every Bill it saw the links of the
\* records it has just made, with no link of a sponsor that is gone, was not
\* accepted or waits for review.
FinishedRunIsServed ==
  run.at = "done" /\ run.publish =>
    /\ \A b \in Bill : rows[b] # Nothing => rows[b].state = "clean"
    /\ \A b \in run.seen : graph[b] = Links(b)

\* No command takes the links of a Bill away because the source did not
\* return the Bill: out of its input it only completes a publication that was
\* interrupted, and only a complete scan calls a Bill missing.
AbsenceRemovesNothing ==
  [][run.at # "idle" => \A b \in Bill \ DOMAIN run.input :
       /\ graph'[b] # graph[b] => rows[b].state = "dirty" /\ graph'[b] = rows[b].pending
       /\ presence'[b] = "missing" => presence[b] = "missing" \/ run.complete]_sponsorVars
=============================================================================

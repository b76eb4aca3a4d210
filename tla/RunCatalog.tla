----------------------------- MODULE RunCatalog -----------------------------
(***************************************************************************)
(* The life of an ETL run in Core State, from start_run to its terminal    *)
(* outcome, together with the provenance catalog that announces the        *)
(* outcome.  A run that is about to succeed is not made terminal locally:  *)
(* the catalog graph claiming the success is staged dirty, PUT, read back, *)
(* and only then does one SQLite transaction make the run terminal and     *)
(* grant its authority (cursor, endpoint success, missing-resource         *)
(* evidence).  The ETL process may die between any two steps; the          *)
(* database and the remote graph survive.                                  *)
(*                                                                         *)
(* The catalog payload is abstracted to what it claims about runs, the     *)
(* run's upper source-time boundary to a natural number.                   *)
(***************************************************************************)
EXTENDS Integers

CONSTANTS
  RunId,        \* fresh run identifiers (uuid4), one per started run
  Endpoint,     \* ETL endpoints sharing the Core State database
  Legislation,  \* the endpoint with a cursor and absence evidence
  Bill,         \* resources of the legislation endpoint
  Time,         \* values of the clock that fixes a run's upper boundary
  NoRun         \* NULL in a column that refers to a run

ASSUME LegislationIsEndpoint == Legislation \in Endpoint
ASSUME NoRunIsFresh == NoRun \notin RunId
ASSUME TimeIsPositive == Time \subseteq Nat \ {0}

VARIABLES
  status,        \* etl_run.status, "none" for a row that does not exist yet
  meta,          \* etl_run's immutable columns: endpoint, kind, upper
  open,          \* runs owning an unresolved quarantine_record
  cursor,        \* endpoint_state.incremental_cursor of legislation, 0 for NULL
  lastSuccess,   \* endpoint_state.last_successful_run_id
  lastComplete,  \* endpoint_state.last_successful_complete_run_id
  lastSeen,      \* resource_state.last_seen_run_id of each Bill
  presence,      \* resource_state.source_presence, "unknown" without a row
  lastMissing,   \* resource_state.last_missing_run_id
  observed,      \* source observations recorded: <<run, bill>> pairs
  catState,      \* catalog_publication_state.publication_state
  catPublished,  \* claims of published_payload
  catPending,    \* claims of pending_payload, meaningful while dirty
  finalization,  \* rows of catalog_run_finalization
  remote,        \* claims of the provenance graph in the triple store
  pc,            \* next step of the ETL process, "idle" when there is none
  self,          \* the process's run
  outcome,       \* run context: prospective outcome
  closing        \* which routine is closing the run: finalize or fatal

runVars == <<status, meta, open>>
authorityVars == <<cursor, lastSuccess, lastComplete>>
resourceVars == <<lastSeen, presence, lastMissing, observed>>
catalogVars == <<catState, catPublished, catPending, finalization>>
processVars == <<pc, self, outcome, closing>>
vars == <<runVars, authorityVars, resourceVars, catalogVars, remote, processVars>>

Terminal == {"succeeded", "degraded", "failed"}
Status == {"none", "running"} \cup Terminal
Outcome == {"success", "degraded"}
StatusOf(o) == IF o = "success" THEN "succeeded" ELSE "degraded"

RunKind == {"incremental", "reconcile", "full", "partial"}

\* "partial" stands for runs without source authority: fixtures, Debates batches.
KindsOf(e) == IF e = Legislation THEN {"incremental", "reconcile", "partial"}
                                 ELSE {"full", "partial"}

Meta == [endpoint : Endpoint, kind : RunKind, upper : Time \cup {0}]
NoMeta == [endpoint |-> Legislation, kind |-> "partial", upper |-> 0]
Claims == [RunId -> Status]
NoClaims == [r \in RunId |-> "none"]
Finalization == [run : RunId, outcome : Outcome, cursor : Time \cup {0},
                 scan : BOOLEAN, failure : Claims]

\* Claims of a catalog built now, with run r shown at a prospective status.
CatalogFor(r, s) == [status EXCEPT ![r] = s]

Unresolved(e) == {r \in open : meta[r].endpoint = e}

Init ==
  /\ status = [r \in RunId |-> "none"]
  /\ meta = [r \in RunId |-> NoMeta]
  /\ open = {}
  /\ cursor = 0
  /\ lastSuccess = [e \in Endpoint |-> NoRun]
  /\ lastComplete = [e \in Endpoint |-> NoRun]
  /\ lastSeen = [b \in Bill |-> NoRun]
  /\ presence = [b \in Bill |-> "unknown"]
  /\ lastMissing = [b \in Bill |-> NoRun]
  /\ observed = {}
  /\ catState = "clean"
  /\ catPublished = NoClaims
  /\ catPending = NoClaims
  /\ finalization = {}
  /\ remote = NoClaims
  /\ pc = "idle"
  /\ self = NoRun
  /\ outcome = "success"
  /\ closing = "finalize"

Goto(l) == pc' = l /\ UNCHANGED <<self, outcome, closing>>
Exit == pc' = "idle" /\ self' = NoRun /\ outcome' = "success" /\ closing' = "finalize"

----------------------------------------------------------------------------
\* Starting and extracting

\* A run left running by a dead process, unless its finalization is staged.
Interrupted(e) == {r \in RunId : /\ status[r] = "running"
                                 /\ meta[r].endpoint = e
                                 /\ \A f \in finalization : f.run # r}

StartRun(e, k, r, t) ==
  /\ pc = "idle"
  /\ status[r] = "none"
  /\ k \in KindsOf(e)
  /\ status' = [x \in RunId |-> IF x = r THEN "running"
                                ELSE IF x \in Interrupted(e) THEN "failed"
                                ELSE status[x]]
  /\ meta' = [meta EXCEPT ![r] = [endpoint |-> e, kind |-> k, upper |-> t]]
  /\ pc' = "extract" /\ self' = r /\ outcome' = "success" /\ closing' = "finalize"
  /\ UNCHANGED <<open, authorityVars, resourceVars, catalogVars, remote>>

ObserveResource(b) ==
  /\ pc = "extract"
  /\ meta[self].endpoint = Legislation
  /\ lastSeen' = [lastSeen EXCEPT ![b] = self]
  /\ presence' = [presence EXCEPT ![b] = "present"]
  /\ lastMissing' = [lastMissing EXCEPT ![b] = NoRun]
  /\ observed' = observed \cup {<<self, b>>}
  /\ UNCHANGED <<runVars, authorityVars, catalogVars, remote, processVars>>

RecordQuarantine ==
  /\ pc = "extract"
  /\ open' = open \cup {self}
  /\ outcome' = "degraded"
  /\ UNCHANGED <<status, meta, authorityVars, resourceVars, catalogVars, remote,
                 pc, self, closing>>

\* safe_publication: from here a failure is also announced in the catalog.
BeginPublication ==
  /\ pc = "extract"
  /\ Goto("publish")
  /\ UNCHANGED <<runVars, authorityVars, resourceVars, catalogVars, remote>>

\* The records of an earlier quarantine were published: its retry succeeded.
RetrySucceeded(r) ==
  /\ pc = "publish"
  /\ r \in Unresolved(meta[self].endpoint) \ {self}
  /\ open' = open \ {r}
  /\ UNCHANGED <<status, meta, authorityVars, resourceVars, catalogVars, remote, processVars>>

----------------------------------------------------------------------------
\* Closing: _finalize_run and _record_fatal_run

\* Both replay an older dirty catalog before building their own.
CatalogStep == IF catState = "dirty" THEN "replayPut" ELSE "stage"

Finalize ==
  /\ pc = "publish"
  /\ pc' = CatalogStep
  /\ closing' = "finalize"
  /\ outcome' = IF Unresolved(meta[self].endpoint) # {} THEN "degraded" ELSE outcome
  /\ UNCHANGED <<runVars, authorityVars, resourceVars, catalogVars, remote, self>>

FailUnpublished ==
  /\ pc = "extract"
  /\ status' = [status EXCEPT ![self] = "failed"]
  /\ Exit
  /\ UNCHANGED <<meta, open, authorityVars, resourceVars, catalogVars, remote>>

FailPublishing ==
  /\ pc = "publish"
  /\ pc' = CatalogStep
  /\ closing' = "fatal"
  /\ UNCHANGED <<runVars, authorityVars, resourceVars, catalogVars, remote, self, outcome>>

\* loader.replace: a PUT that raises may still have been applied.
Replace(done, failed) ==
  \/ remote' = catPending /\ Goto(done)
  \/ remote' \in {catPending, remote} /\ Goto(failed)

ReplayPut ==
  /\ pc = "replayPut"
  /\ Replace("replayVerify", "replayError")
  /\ UNCHANGED <<runVars, authorityVars, resourceVars, catalogVars>>

PublishPut ==
  /\ pc = "put"
  /\ Replace("verify", "putError")
  /\ UNCHANGED <<runVars, authorityVars, resourceVars, catalogVars>>

\* The bills a complete scan by run r did not see.
Unseen(r) == {b \in Bill : presence[b] # "unknown" /\ lastSeen[b] # r}

MarkAbsent(r) ==
  /\ presence' = [b \in Bill |-> IF b \notin Unseen(r) THEN presence[b]
                                 ELSE IF presence[b] = "present" THEN "missing"
                                 ELSE "confirmed_missing"]
  /\ lastMissing' = [b \in Bill |-> IF b \in Unseen(r) THEN r ELSE lastMissing[b]]
  /\ UNCHANGED <<lastSeen, observed>>

\* Mutant: any successful run counts as complete.
ApplyCompleteAuthority(f) ==
  LET e == meta[f.run].endpoint IN
  /\ f.cursor # 0 => f.cursor >= cursor
  /\ cursor' = IF f.cursor # 0 THEN f.cursor ELSE cursor
  /\ lastSuccess' = [lastSuccess EXCEPT ![e] = f.run]
  /\ lastComplete' = [lastComplete EXCEPT ![e] = f.run]
  /\ IF f.scan THEN MarkAbsent(f.run) ELSE UNCHANGED resourceVars

\* Cursor, endpoint success and absence evidence of a successful run.
ApplyAuthority(f) ==
  LET e == meta[f.run].endpoint IN
  /\ f.cursor # 0 => f.cursor >= cursor
  /\ cursor' = IF f.cursor # 0 THEN f.cursor ELSE cursor
  /\ lastSuccess' = [lastSuccess EXCEPT ![e] = f.run]
  /\ lastComplete' = IF meta[f.run].kind \in {"reconcile", "full"}
                       THEN [lastComplete EXCEPT ![e] = f.run] ELSE lastComplete
  /\ IF f.scan THEN MarkAbsent(f.run) ELSE UNCHANGED resourceVars

\* The staged run becomes terminal together with its catalog.
CompleteRun(f) ==
  /\ catPending[f.run] = StatusOf(f.outcome)
  /\ status[f.run] = "running"
  /\ status' = [status EXCEPT ![f.run] = StatusOf(f.outcome)]
  /\ IF f.outcome = "success" THEN ApplyAuthority(f)
                              ELSE UNCHANGED <<authorityVars, resourceVars>>

\* Mutant: the published payload is not carried over.
MarkCleanKeepingPublished ==
  /\ catState = "dirty"
  /\ IF finalization = {} THEN UNCHANGED <<status, authorityVars, resourceVars>>
                          ELSE \E f \in finalization : CompleteRun(f)
  /\ finalization' = {}
  /\ catState' = "clean"
  /\ UNCHANGED <<meta, open, catPublished, catPending>>

MarkCatalogClean ==
  /\ catState = "dirty"
  /\ IF finalization = {} THEN UNCHANGED <<status, authorityVars, resourceVars>>
                          ELSE \E f \in finalization : CompleteRun(f)
  /\ finalization' = {}
  /\ catState' = "clean"
  /\ catPublished' = catPending
  /\ UNCHANGED <<meta, open, catPending>>

ReplayVerified ==
  /\ pc = "replayVerify"
  /\ remote = catPending
  /\ MarkCatalogClean
  /\ Goto("stage")
  /\ UNCHANGED remote

PublishVerified ==
  /\ pc = "verify"
  /\ remote = catPending
  /\ MarkCatalogClean
  /\ Exit
  /\ UNCHANGED remote

\* The read-back query fails or differs, or mark_clean refuses.
VerifyFailed ==
  /\ \/ pc = "replayVerify" /\ Goto("replayError")
     \/ pc = "verify" /\ Goto("putError")
  /\ UNCHANGED <<runVars, authorityVars, resourceVars, catalogVars, remote>>

\* _prepare_run_completion_locked's refusals for a prospective outcome.
MayComplete(r, o, c, scan) ==
  /\ o = "success" => r \notin open
  /\ (o = "success" /\ (c # 0 \/ scan \/ meta[r].kind \in {"reconcile", "full"}))
       => Unresolved(meta[r].endpoint) = {}
  /\ c # 0 => meta[r].kind = "incremental" /\ c >= cursor
  /\ scan => meta[r].kind = "reconcile"

PlannedCursor == IF outcome = "success" /\ meta[self].kind = "incremental"
                   THEN meta[self].upper ELSE 0
PlannedScan == outcome = "success" /\ meta[self].kind = "reconcile"

\* Mutant: the run is finished in Core State before its catalog is verified.
StageAndFinish ==
  /\ pc = "stage" /\ closing = "finalize"
  /\ catState = "clean" /\ finalization = {}
  /\ MayComplete(self, outcome, PlannedCursor, PlannedScan)
  /\ status' = [status EXCEPT ![self] = StatusOf(outcome)]
  /\ catState' = "dirty"
  /\ catPending' = CatalogFor(self, StatusOf(outcome))
  /\ finalization' = {}
  /\ Goto("put")
  /\ UNCHANGED <<meta, open, authorityVars, resourceVars, catPublished, remote>>

StageFinalization ==
  /\ pc = "stage" /\ closing = "finalize"
  /\ catState = "clean" /\ finalization = {}
  /\ MayComplete(self, outcome, PlannedCursor, PlannedScan)
  /\ catState' = "dirty"
  /\ catPending' = CatalogFor(self, StatusOf(outcome))
  /\ finalization' = {[run |-> self, outcome |-> outcome, cursor |-> PlannedCursor,
                       scan |-> PlannedScan, failure |-> CatalogFor(self, "failed")]}
  /\ Goto("put")
  /\ UNCHANGED <<runVars, authorityVars, resourceVars, catPublished, remote>>

StageFailedRun ==
  /\ pc = "stage" /\ closing = "fatal"
  /\ catState = "clean" /\ finalization = {}
  /\ status' = [status EXCEPT ![self] = "failed"]
  /\ catState' = "dirty"
  /\ catPending' = CatalogFor(self, "failed")
  /\ Goto("put")
  /\ UNCHANGED <<meta, open, authorityVars, resourceVars, catPublished, finalization, remote>>

\* Replay or staging raised: the run fails locally, the older candidate stays.
FailLocally ==
  /\ pc \in {"replayError", "stage"}
  /\ status' = [status EXCEPT ![self] = "failed"]
  /\ Exit
  /\ UNCHANGED <<meta, open, authorityVars, resourceVars, catalogVars, remote>>

\* Mutant: the failed run drops its candidate instead of correcting it.
FailDroppingCandidate ==
  /\ pc = "putError" /\ closing = "finalize"
  /\ status' = [status EXCEPT ![self] = "failed"]
  /\ finalization' = {}
  /\ catState' = "clean"
  /\ Exit
  /\ UNCHANGED <<meta, open, authorityVars, resourceVars, catPublished, catPending, remote>>

\* fail_pending_catalog_finalization: stage the failed projection instead.
FailPendingFinalization ==
  /\ pc = "putError" /\ closing = "finalize"
  /\ catState = "dirty"
  /\ \E f \in finalization :
       /\ f.run = self /\ status[self] = "running"
       /\ catPending' = f.failure
  /\ status' = [status EXCEPT ![self] = "failed"]
  /\ finalization' = {}
  /\ Exit
  /\ UNCHANGED <<meta, open, authorityVars, resourceVars, catState, catPublished, remote>>

\* The failed catalog of a failed run, or a finalization that could not even
\* be failed (catalog_state_unresolved), is left to a later run's replay.
LeavePending ==
  /\ pc = "putError"
  /\ Exit
  /\ UNCHANGED <<runVars, authorityVars, resourceVars, catalogVars, remote>>

Crash ==
  /\ pc # "idle"
  /\ Exit
  /\ UNCHANGED <<runVars, authorityVars, resourceVars, catalogVars, remote>>

----------------------------------------------------------------------------
Next ==
  \/ \E e \in Endpoint, k \in RunKind, r \in RunId, t \in Time : StartRun(e, k, r, t)
  \/ \E b \in Bill : ObserveResource(b)
  \/ RecordQuarantine
  \/ BeginPublication
  \/ \E r \in RunId : RetrySucceeded(r)
  \/ Finalize
  \/ FailUnpublished
  \/ FailPublishing
  \/ ReplayPut
  \/ ReplayVerified
  \/ PublishPut
  \/ PublishVerified
  \/ VerifyFailed
  \/ StageFinalization
  \/ StageFailedRun
  \/ FailLocally
  \/ FailPendingFinalization
  \/ LeavePending
  \/ Crash

Spec == Init /\ [][Next]_vars

----------------------------------------------------------------------------
PC == {"idle", "extract", "publish", "replayPut", "replayVerify", "replayError",
       "stage", "put", "verify", "putError"}

\* Every column and process variable stays in its domain.
TypeOK ==
  /\ status \in [RunId -> Status]
  /\ meta \in [RunId -> Meta]
  /\ open \subseteq RunId
  /\ cursor \in Time \cup {0}
  /\ lastSuccess \in [Endpoint -> RunId \cup {NoRun}]
  /\ lastComplete \in [Endpoint -> RunId \cup {NoRun}]
  /\ lastSeen \in [Bill -> RunId \cup {NoRun}]
  /\ presence \in [Bill -> {"unknown", "present", "missing", "confirmed_missing"}]
  /\ lastMissing \in [Bill -> RunId \cup {NoRun}]
  /\ observed \subseteq RunId \X Bill
  /\ catState \in {"clean", "dirty"}
  /\ catPublished \in Claims
  /\ catPending \in Claims
  /\ finalization \subseteq Finalization
  /\ remote \in Claims
  /\ pc \in PC
  /\ self \in RunId \cup {NoRun}
  /\ pc = "idle" <=> self = NoRun
  /\ outcome \in Outcome
  /\ closing \in {"finalize", "fatal"}

\* A staged finalization can always be carried out by a later replay: there is
\* at most one, its run is still running, and the durable dirty catalog is the
\* one that announces its planned outcome (mark_catalog_clean never refuses).
FinalizationReplayable ==
  \A f \in finalization :
    /\ finalization = {f}
    /\ catState = "dirty"
    /\ status[f.run] = "running"
    /\ catPending[f.run] = StatusOf(f.outcome)
    /\ f.cursor # 0 => f.cursor >= cursor

\* A run is durably succeeded or degraded only if the catalog last verified in
\* the triple store says so: no local success without its public record.
SuccessIsPublished ==
  \A r \in RunId : status[r] \in {"succeeded", "degraded"} => catPublished[r] = status[r]

\* Whatever terminal outcome the verified catalog claims is the durable one.
PublishedClaimsHold ==
  \A r \in RunId : catPublished[r] \in Terminal => status[r] = catPublished[r]

\* The graph a reader sees may claim an outcome the database does not hold
\* (a PUT whose acknowledgement was lost), but only while the catalog is
\* durably dirty, so that a replay will correct it.
OverclaimIsDirty ==
  (\E r \in RunId : remote[r] \in Terminal /\ remote[r] # status[r]) => catState = "dirty"

\* Authority columns name runs that earned them: a successful run of that
\* endpoint, complete where completeness is claimed; a cursor is the upper
\* boundary of a successful incremental legislation run.
AuthorityIsEarned ==
  /\ \A e \in Endpoint : lastSuccess[e] # NoRun =>
       status[lastSuccess[e]] = "succeeded" /\ meta[lastSuccess[e]].endpoint = e
  /\ \A e \in Endpoint : lastComplete[e] # NoRun =>
       /\ status[lastComplete[e]] = "succeeded"
       /\ meta[lastComplete[e]].endpoint = e
       /\ meta[lastComplete[e]].kind \in {"reconcile", "full"}
  /\ cursor # 0 => \E r \in RunId : /\ status[r] = "succeeded"
                                    /\ meta[r].endpoint = Legislation
                                    /\ meta[r].kind = "incremental"
                                    /\ meta[r].upper = cursor

\* While a run is live, no other row of its endpoint still says "running",
\* except one whose finalization is staged: interrupted runs are recognised.
LiveRunIsAlone ==
  \A r \in RunId : (/\ self # NoRun /\ r # self /\ status[r] = "running"
                    /\ meta[r].endpoint = meta[self].endpoint)
                   => \E f \in finalization : f.run = r

\* A terminal outcome is final, the cursor never moves back.
OutcomesAndCursorStand ==
  [][/\ \A r \in RunId : status[r] \in Terminal => status'[r] = status[r]
     /\ cursor' >= cursor]_vars

----------------------------------------------------------------------------
\* The parts of the inductive invariant that are not properties of their own.

MetaFits == \A r \in RunId : meta[r].kind \in KindsOf(meta[r].endpoint)

\* What each program location knows of the durable state.
ProcessInv ==
  /\ pc \in {"extract", "publish", "replayPut", "replayVerify", "replayError", "stage"} =>
       status[self] = "running" /\ \A f \in finalization : f.run # self
  /\ pc \in {"replayPut", "replayVerify", "replayError", "put", "verify", "putError"} =>
       catState = "dirty"
  /\ pc = "stage" => catState = "clean"
  /\ pc \in {"put", "verify", "putError"} /\ closing = "finalize" =>
       \E f \in finalization : f.run = self
  /\ pc \in {"put", "verify", "putError"} /\ closing = "fatal" => finalization = {}

\* A staged cursor is its run's boundary; the failure payload differs from the
\* pending one in the staged run alone.
PlanInv ==
  \A f \in finalization :
    /\ f.cursor # 0 => /\ f.outcome = "success"
                       /\ meta[f.run].kind = "incremental"
                       /\ meta[f.run].upper = f.cursor
    /\ f.failure[f.run] = "failed"
    /\ \A r \in RunId \ {f.run} : f.failure[r] = catPending[r]

\* A dirty catalog runs ahead of the database in the staged run alone and
\* retracts nothing that is published.
PendingInv ==
  catState = "dirty" =>
    \A r \in RunId :
      /\ catPending[r] \in Terminal =>
           status[r] = catPending[r] \/ \E f \in finalization : f.run = r
      /\ status[r] \in {"succeeded", "degraded"} => catPending[r] = status[r]
      /\ catPublished[r] \in Terminal => catPending[r] = catPublished[r]

\* A clean catalog is what the triple store holds.
RemoteInv == catState = "clean" => remote = catPublished

IInv == /\ TypeOK /\ MetaFits /\ ProcessInv
        /\ FinalizationReplayable /\ PlanInv /\ PendingInv
        /\ SuccessIsPublished /\ PublishedClaimsHold /\ RemoteInv
        /\ AuthorityIsEarned /\ LiveRunIsAlone

----------------------------------------------------------------------------
\* The terminal outcomes the verified catalog announces.
Announced == [r \in RunId |-> IF catPublished[r] \in Terminal THEN catPublished[r] ELSE "none"]

Ledger == INSTANCE RunLedger WITH outcome <- status, announced <- Announced

\* Dirty payloads, lost acknowledgements and crashes cannot be told from a
\* ledger in which success, announcement and cursor move in one step.
ImplementsLedger == Ledger!Spec
=============================================================================

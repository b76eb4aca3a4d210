# A verification model of the Oireachtas ETL

The ETL in `src/src/oireachtas_etl/` harvests the Oireachtas API, turns records
into RDF, publishes one named graph per resource to Fuseki and keeps its durable
state in SQLite ("Core State"). SQLite and the triple store cannot be changed in
one transaction and the ETL may die at any step, so what must be right is the
*order* in which rows are written, graphs are PUT and read back, runs are ended
and the cursor of the incremental refresh is moved. The modules here model that
order; the RDF itself is abstracted away.

## Inventory

| Component | State it keeps | Operations | Hard behaviour | Modelled |
| --- | --- | --- | --- | --- |
| Runs and provenance catalog (`state.py`, `cli.py`) | `etl_run`, `endpoint_state` (cursor, last success), `catalog_publication_state`, `catalog_run_finalization`, missing-resource columns of `resource_state`; the catalog graph in Fuseki | `start_run`, `stage_run_catalog_finalization`, `mark_catalog_clean`, `fail_pending_catalog_finalization`, `finish_failed_run_with_catalog`, `_finalize_run`, `_record_fatal_run`, `_replay_pending_catalog` | crash between PUT and commit, lost acknowledgement, outcome applied by another run, clock stepping back | `RunCatalog`, `RunLedger` |
| Bill publication (`cli.py`, `state.py`, `loader.py`, `competency.py`) | `resource_state` rows (clean/dirty, published and pending payload, observed hash, contract), bill graphs | observe, skip, mark dirty, PUT, verify, complete, replay missing | as above, plus lost graphs, contract upgrades, bills that vanish or turn malformed | `ResourcePublication` |
| Incremental refresh and quarantine (`cli.py`, `state.py`) | cursor, overlap, quarantine and retry states | window, fetch, quarantine, retry, cursor move | late updates, degraded runs, staged cursors applied later, a dead run's retry | `IncrementalRefresh` |
| Shared reference graphs (`state.py`, `cli.py`, `reference_*.py`) | publication metadata in `endpoint_state`, `entity_version` and its sources, the latest captures | `mark_endpoint_dirty`, `complete_endpoint_publication`, replay, carry-forward, the office registry | one pending candidate and several publishers, older captures, fixtures, descriptions nobody's source has any more | `SharedGraphs`, `OwnerLedger` |
| Office occurrences (`office_reconciliation.py`) and the office holdings of members' graphs (`cli.py`) | `office_occurrence`, `office_occurrence_attempt`, the review file; payloads of members' rows | `reconcile`, `_accepted_office_ledger_rows`, `_prepare_member_office_resolutions` | two databases with no common commit; reports corrected, withdrawn, brought back; decisions outlived by what they were about | `OfficeLedger`, `OfficeHoldings` |
| Rest of the Members pipeline | `resource_state` rows of members | as bills, with party and migration gates | partial publication behind a gate | not modelled |
| Identity reconciliation (`reconciliation.py`) | `reconciliation_record`, attempts, publication proofs, the external-links graphs | `reconcile_entities`, hand-over from the ETL, review files | two commits around a PUT, due dates, decisions withdrawn, identities that change, candidates that contradict themselves, outages | `IdentityReconciliation`, `IdentityEvidence` |
| Bill sponsors (`bill_sponsor_*.py`) | observations, attempts, publication and presence in a store of its own | reconcile, publish, replay, presence of a complete scan | three stores with no common commit; sponsors that vanish, come back, are replaced; evidence that changes under a decision | `BillSponsors` |
| Debates batch (`debates_*.py`, `cli.py`) | `resource_state` rows of Works, quarantines and their retries | cut an inventory into batches, plan, record failures, publish, resolve retries | two Expressions of one Work, owners that change between batches, failures halfway | `DebateBatches` |
| References of a debate (`transforms/debates.py`, `validation/debates_integration.py`) | none | transform, derive the inventory, compare | two readings of one document that must agree | `DebateReferences`, `DebateValidation` |
| Backup, restore, activation (`operations.py`, `ops_cli.py`) and projection rebuild (`projection.py`, `production-compose.sh`) | snapshots, the staged restore, the directory of live state, the dataset, the rebuild marker, the operation lock | backup, restore, activate, rebuild, promote, roll back | crash between two renames, copies of several stores, a rebuild interrupted, Docker restarting what was stopped | `Recovery`, `RecoveryLedger` |
| Degraded-run alerts (`alerts.py`, `production-compose.sh`) | `state.json`, `pending.json`, `pending-failed-*.json` | prepare, deliver, acknowledge, queue | crash between delivery and acknowledgement, two deliverers of one file, streaks growing while an event is pending | `DegradedAlerts` |
| Query service (`poc/nlq/`) | none of its own; reads the triple store | recognize a wording or have a plan drafted and validate it; resolve the terms, places, parties, offices and Members it names; read pages; certify | a draft that answers a simpler question; a store republished between two queries; data that is missing, doubled or contradictory | `Questions` and the modules it composes |
| API client and harvest (`api.py`) | none | page, retry, harvest | records shift across pages of an external source | not modelled |
| Raw evidence, budgets, source contracts, other transformations | content-addressed files | pure checks and conversions | - | as the *quality* of a record |
| Development dataset, enrichment, tools, benchmarks | files for a developer | - | - | not modelled |

How they interact. A command of `cli.py` takes the host-wide operation lock and
the state lock, so one run at a time changes Core State; `etl_run` rows of dead
runs are found by the next run of the same endpoint. A run publishes its
resources (bill publication, debates, shared graphs), may retry quarantined ones
(incremental refresh, debates), and closes through the catalog (runs and
catalog), which first replays whatever catalog an earlier run left dirty,
whatever its endpoint. All of them reach Fuseki through
`FusekiGraphStoreLoader.replace`, whose PUT may be applied although it raised. A
Members run first commits the office ledger, in a database of its own, and then
composes the member's graph from the ledger's rows and from the payload it
published last. Members, parties, constituencies and committees runs write the
same owner graphs, which the debates batch reads as its owners and the sponsor
reconciliation as its holdings. Runs hand observed entities over to identity
reconciliation by marking them due. Backup copies all the stores, and the
projection rebuild writes every graph from their payloads. The query service
reads the graphs and takes no lock. Alerts only read the histories of the others.

What makes each correct: outcomes, the published catalog and the cursor agree
whatever dies (catalog); a clean row tells what is in the store, and a dirty one
gets published (bills); no update falls behind the cursor (refresh); no owner is
forgotten, made older or left without a source (shared graphs); graphs hold what
was accepted and lose nothing unreviewed (offices, identities, sponsors); a Work
keeps its Expression and a finished batch serves what it did not report (debates); a recovery point is the state of one instant and what is served was
built from the live state (recovery); nothing is silenced undelivered (alerts);
the question that is
answered is the one asked, and its answer one that every reading of the evidence
gives (queries).

## Modules

| Module | What it is |
| --- | --- |
| `RunCatalog.tla` | the life of runs and of the catalog, one action per step that commits to SQLite or talks to Fuseki |
| `RunLedger.tla` | the abstract promise: success, announcement and cursor in one step |
| `Provenance_proofs.tla` | proofs that what is told can be traced to what was recorded: `AnswerIsWitnessed` of `Questions`; type correctness, six invariants, one action property and the refinement of `RunCatalog` |
| `ResourcePublication.tla` | one legislation run after another over the bills' rows and graphs |
| `ResourcePublication_proofs.tla` | its type invariant, three safety invariants and the write-ahead property, proved |
| `IncrementalRefresh.tla` | cursor, overlap and quarantine retries over source time |
| `DegradedAlerts.tla` | alerts-check and the reporters of failed units, step by step |
| `OfficeLedger.tla` | reports, rows and decisions of one office label; a complete scan as one action |
| `OfficeHoldings.tla` | the Members run over it: evidence, composition, the two commits to Core State |
| `SharedGraphs.tla` | the graphs several endpoints publish, one pending candidate each |
| `OwnerLedger.tla` | the abstract promise: what a graph offers is what is published next, and no owner is forgotten |
| `SharedGraphs_proofs.tla` | its type invariant, two safety invariants, two action properties and the refinement, proved |
| `Recovery.tla` | pipeline, backup, restore, activation, rebuild and the Fuseki container under one lock |
| `RecoveryLedger.tla` | the abstract promise: recovery points are whole states of one instant, and no state is lost |
| `Recovery_proofs.tla` | its type invariant, two safety invariants and the refinement, proved |
| `IdentityEvidence.tla` | what is made of one entity: candidates, their contradictions, the links of what is accepted; operators only |
| `IdentityReconciliation.tla` | the reconciliation engine, from what is due to the mark of what is published |
| `IdentityReconciliation_proofs.tla` | its type invariant, six safety invariants and two action properties, and a lemma on the weighing, proved |
| `BillSponsors.tla` | sponsors of a scan, their records, and the local graph of each Bill |
| `ReviewedOffices_proofs.tla` | proofs about what review decides of offices: the type invariant, three safety invariants and two action properties of `OfficeHoldings`, the type invariant, three safety invariants and the action property of `BillSponsors` |
| `DebateBatches.tla` | batches of preserved debates, their failures, publication and retries |
| `Retries_proofs.tla` | proofs for the two components that retry what they quarantined: the type invariant, two safety invariants and one action property of `DebateBatches`, the type invariant and `NoUpdateSlips` of `IncrementalRefresh` |
| `DebateReferences.tla` | the two readings of one document, as operators |
| `DebateValidation.tla` | one document between them, with one alteration |
| `Detection_proofs.tla` | proofs that what goes wrong is noticed: both invariants of `DebateValidation`, the type invariant and three safety invariants of `DegradedAlerts` |
| `QuestionService.tla` | what all questions share: the store that changes, identities, terms, pages |
| `TermQuestions.tla`, `PartyQuestions.tla`, `TenureQuestions.tla`, `ServiceQuestions.tla`, `BillQuestions.tla` | the families of questions |
| `QuestionPlans.tla` | the wording of each question, the draft of its plan, and what else may be asked or drafted |
| `PlanValidation.tla` | the shapes a plan may have; a draft against the wording |
| `Questions.tla` | one question of any family: what is refused, recognized or drafted, the question a plan stands for, and its answer |
| `MC*.tla` | instances and symmetry sets for TLC |

### RunCatalog

`status` and `meta` are the columns of `etl_run`; `open` is the set of runs that
own an unresolved `quarantine_record`; `cursor`, `lastSuccess`, `lastComplete`
are `endpoint_state`; `lastSeen`, `presence`, `lastMissing` the missing-resource
columns of `resource_state`. A catalog payload is abstracted to the *claims* it
makes about runs: a function from runs to statuses. `catPublished`, `catPending`
and `remote` are such claims: the payload last verified, the one staged, and the
graph in Fuseki. `pc` walks through `_finalize_run` and `_record_fatal_run`:

    extract -> publish -> [replayPut -> replayVerify] -> stage -> put -> verify

with `replayError` and `putError` for the exception handlers; `closing` tells
which of the two routines is running. `Replace` lets a PUT that raises have been
applied or not. `Crash` can happen at every location. `ApplyAuthority` is
`_apply_successful_run_authority_locked`, run inside `mark_catalog_clean`'s
transaction, of the run that staged and not of the run that replays.

`RunLedger` is the abstract specification: a run begins (others being given up
in the same step), fails, or commits; what is announced is always true, never
leaves out a success and never takes anything back; only a success moves the
cursor, and forward. `ImplementsLedger` maps `outcome` to `status` and
`announced` to the terminal claims of `catPublished`.

### ResourcePublication

`row` is the bill's `resource_state`, `graph` its named graph. A payload is
abstracted to the version and the contract it was made from, since the
transformation is deterministic. A run fetches any subset of the bills the
source has (a complete scan is the subset that is everything), examines them one
by one, verifies the graphs of those it would skip, publishes the rest through
`MarkDirty -> Put -> Complete`, replays the dirty rows of bills it has not
`seen`, and is done. The four qualities of a record are the four paths a record
takes through `_run_bills_impl`: good, failing transformation, on the reviewed
malformed list, and in breach of the source contract. Between any two steps the
source may change a bill, Fuseki may lose a graph and the run may abort; between
runs a new publication contract may be deployed.

### IncrementalRefresh

Time is the source's `last_updated` clock. `Update` stamps a bill at most `Lag`
ago: it is how late the API shows an update, clock skew included. A run fixes
`upper` first, queries from `cursor - Overlap`, keeps what is stamped up to
`upper` (a complete scan keeps everything), and moves the cursor to `upper` only
if nothing was quarantined. A quarantined bill seen again is retried
(`StartRetry`, `FinishRetries`); a dead run leaves its retries in progress
(`stranded`) and may leave its finalization `staged`, which a later run applies.
Publication of one bill is one step here and six in `ResourcePublication`; the
end of a run is one step here and the whole protocol in `RunCatalog`.

### DegradedAlerts

`history` is the sequence of outcomes of each source (an endpoint's runs or an
entity's reconciliations) by completion, `alerted` is `state.json`, `pending`
`pending.json` and `queued` the files of failed units. `alerts_check` is a
sequential program: `Check` (`oir-etl ops alerts check`), then for each file it
listed `TakeEvent`, `DispatchEvent` and `RemoveEvent`, then `DispatchPending`,
`RecordDelivery` and `RemovePending` for the pending event. Beside it, without
its lock, each failed unit's `queue_failed_alert` does `QueueEvent`,
`ReportEvent`, `RemoveReported`. The hook may fail having delivered or not
(`HookFails`, `ReportFails`), and either process may die anywhere.

### OfficeLedger and OfficeHoldings

`reports` are the reports of one office label of one membership, `listed` says
whether the source has the member, `matches` which registered offices have the
label, and `review` is the decision file. `ledger` is `office_occurrence`: each
row has its snapshot (which stands for `current_fingerprint`), presence, status,
candidates, `decision` (for `decision_hash`) and `last` (for
`last_accepted_resolution_json`). `acceptances` are the resolutions that the
attempts of a key record. `reused` is a history variable: the keys that a scan
gave to a report that did not continue their row. `Reconcile` is one transaction
and one action. It follows the code in three parts: which row a report continues
(`Exact`, `IsCorrection`, else a `NewKey`), what becomes of it (`StatusOf` and
`RowOf`), and what becomes of the rows left over (`AbsentRow`). If two reports
would get one key, the code raises and rolls back (`ScanCollides`).

`OfficeHoldings` adds the member's row in Core State: `published` is the payload
of its last completed publication, `pending` that of one begun. `StartMembers`
reconciles; then `Skip` or `MarkDirty -> Complete`; or, if the source no longer
has the member, `Replay` of what is pending. `Accepted`, `Revoked` and
`Retainable` partition the evidence as `_accepted_office_ledger_rows` does;
`Retained`, `IsSuperseded` and `Unaccounted` are the three sets of
`_prepare_member_office_resolutions`. `GiveUp` is every way a run ends early or
withholds the member. The PUT between the two commits, with its lost
acknowledgements, is `ResourcePublication`'s subject and is left out here.

### SharedGraphs

`meta` is `publication_metadata_json` of each graph: what is published and what
is pending, with the run and the authority (a scan or a fixture) of each, and
the owners whose description was carried forward (`retained`). A payload is what
it says of each owner. `versions` is `entity_version` with
`entity_version_source`: a version either comes from a source record of its
payload or was carried forward from a version of an earlier payload; `depth`
counts how far that goes back and is not stored. `members` and `latest` are the
captures the code looks up as "last successful complete run". `op` is the run:
it replays the dirty graphs among its own (`replay`, `replayed`), builds what it
offers (`Build`, the carry-forward), decides graph by graph (`decide`: skip,
confirm what is identical, stage, refuse) and publishes (`put`, `verify`).
`OlderMembers`, `Older` and `Protected` are the checks of
`_assert_reference_source_not_older` and of fixtures against scans.

`OwnerLedger` keeps of a graph what is published, what is offered and how old
its source is: an offer must describe every owner that is published, only an
offer is ever published, and a standing offer is published before another is made.

### Recovery

`live` is the durable directory, `previous` the directories set aside,
`snapshots` the repository, `stage` the latest staged restore, `dataset` the
Fuseki data directory with the `epoch` it was built from, `marker` the file that
keeps Fuseki down, `lock` the flock. A store is what it has published, what is
pending, and whether a run ever used it. The pipeline is four steps (it opens
its store, stages, PUTs, completes); the operations are one action for each copy,
rename or start. `Crash` takes both processes and leaves the files. `Opened` is what
`CoreStateStore` does to a file that is not there: it creates an empty one.
`ExternalReadable` is a fact of the code that surprised: see below.

### IdentityReconciliation

`kind` says which of the four commands a behaviour is about: members, parties,
institutions or offices. They share the engine and the tables, but each reads the
rows, the review file and the graphs of its kind alone. `rows` is
`reconciliation_record` (with its pending graph as long as it is dirty), `attempts`
and `proofs` the two histories, `run` the command: it takes the entities it was
given one by one, replays what is dirty (`BeginReplay`), passes over what is not
due, and otherwise takes one of the `Outcomes`, saves it, PUTs, verifies and marks.

`IdentityEvidence` says what these outcomes are. The HTTP services are external:
any set of `Candidates` may come back, and Wikidata may or may not confirm an
accepted item (`verified`). From there on the code is followed: what a candidate
must be to be used at all (`WellFormed`, the normalizers), what contradicts it
(`Contradictions`: facts in evidence by themselves, and reasons it brings along,
which must be of its kind and rest on a fact of it), one or several that nothing
contradicts (`Weigh`), the exact lookup of a memberCode (`ByCode`), the links of
what is accepted (`MemberLinks`, `InstitutionLinks`), those kept in an outage
(`SameIdentity`), and the earlier decision the evidence goes on naming
(`Remembered`, the `_previous_..._context` functions). A candidate's facts are
what the weighing can tell apart: its types, jurisdictions, relations,
descriptions and labels, each of a few values. A party's historical conflicts are
reported and decide nothing, so they are left out.

### BillSponsors

`world` is what a command reads when it starts: the Bills, the registry, the
holdings and the review file. `records` is `bill_sponsor_observation` with the
fingerprint of all that a decision rests on (`of`), `rows` the publication store,
`presence` the outcome of complete scans. `Reconcile` is one transaction:
`CurrentEvidence`, `MatchingOffices`, the gates (`GatedOnce`, `Gated`) and the order in which
review, gate and label are asked (`Judgement`). `Justified` is the validator,
which works the rule out again from the source before anything is written.

### DebateBatches, DebateReferences, DebateValidation

A source is its bytes; the Work and Expression it claims never change, whether
it validates depends on the edition of the owners. A batch is given by hand or
cut from an inventory by `Batches` (`debates_readiness.py`). `Plan` decides each
record of the batch, the failures are recorded one by one with the state of
their retry, then each Work goes through `Mark -> Put -> Complete`, and at the
end the retries of what was published are resolved.

`DebateReferences` is pure: `Report` and `Emitted` are the transformation of a
document's references, `Inventory`, `ReportIsCoherent`, `EdgesMatchReport`,
`LinksAreOwned` and `VotesAreConsistent` the validator's own reading.
`DebateValidation` lets one row or edge be lost or altered in between.

One alteration goes unnoticed. The code compares edges as sets and the keys of
rows as a `Counter` (`debates_integration.py:442`, `:765`): where a division
lists two votes on one side, the row of the one may be unresolved that names the
Member of the other, or name that Member though its own is unknown, for one edge
accounts for both. No edge is lost or gained by it, so `AlteredIsRefused` names the
case instead of calling it a defect.

### Questions

A question has a *wording*: the words the code's patterns tell apart, the ordinals,
names and times in it, and perhaps one `extra` condition ("women", "except Guy",
"how many"). `Refuse` is what is decided on the wording alone
(`validate_question_intent`, `_composable_interpretation_preflight`). `Recognize`
is the patterns that take a whole wording (`plan_question`, `plan_stage_b`,
`parse_stage_a_question` and their like), unless `semantic_composition_scope` says
that it is compound; `TakeForAName` the patterns whose last name reaches to the end
of the sentence. Of the rest a language model drafts a plan (`AskPlanner`, `Propose`,
`Undraftable`). It is external, and its draft may be any: the right one, that of any
other question, a count instead of a list, or the right one with one relation, role,
name, selector, constraint or answer changed. `Accepts` (`PlanValidation`) compares the draft
with the wording, `Completed` fills in the reference date, `ValidPlan`
(`PlanValidation`) admits the shapes there is a compiler for, and `QuestionOf` is the
question the compiler of that shape answers. `PlanIsTheQuestion` says that this is
the question that was asked. `Execute` then forgets what was asked: the plan is all
the service goes by. `Accepts` and `ValidPlan` were compared with the Python
validators on 50,688 pairs of a wording and a draft, without a difference.

A question resolves the identities it names (`ResolveTerm`, `ResolveMember`,
`ResolvePlace`, `ResolveParty`, `ResolveOffice` and their like, each a query), reads
its rows in pages (`ReadPage`, `select_pages`) or at once under the row cap
(`ReadAll`), and evaluates them. Every query reads `store` at its own instant, and
`Publish` replaces one named graph between any two. `seen` is the history of the
store since the question was asked. The families, with their kinds of question:

| Module | Kinds | Code |
| --- | --- | --- |
| `TermQuestions` | Members for a constituency in a term, on a date, of two terms, beside a named Member, of the previous Dáil | `_execute_member_relationship_composition_plan`, `_execute_question` |
| `TermQuestions` | terms two Members share, Members of both Houses, Senators who left the Dáil; the Dáils and which were in force; the seats and the parties of one Dáil | `_execute_shared_dail_terms_question`, `_current_*_result`, `execute_stage_a`, `execute_stage_c` |
| `PartyQuestions` | Members of a party for a constituency, the parties there, a party's Members of a term, those beside an office holder | `_execute_member_party_temporal_composition` |
| `TenureQuestions` | holders of an office, whether and when a Member held it, affiliations, the Government, the current and the latest seat, a Member's career, who sits for a constituency | `_execute_office_question`, `execute_government`, `execute_representation` |
| `ServiceQuestions` | service in the previous Dáil, how long and in how many Dáils, entry into the Seanad and the panel, party, committees, namesakes; the choice between candidates in a second request | `execute_stage_a`, `ask` |
| `BillQuestions` | Bills a Member sponsored, and their number in a year; Bills published in a year, not enacted; a Bill by a mention of its title or its number, its status, its sponsors | `_execute_bill_sponsorship_question`, `execute_stage_b` |

In `BillQuestions` a title is the set of mentions it holds. A Bill without a clear
title, status or sponsor flag costs the answer, and so does a second account of the
same; what is only shown beside the Bill (its process number, its other events, of
several recorded legislative years the one shown with a title) is left out.

`Meant(in, certain)` is the reference the answers are measured with, written
without the queries' joins and loops: what the evidence of a store establishes, and
what it cannot exclude when a period, a name or an identity that is missing or
recorded twice may be any. `Named(in)` says that the resolved identities are the
only ones the question could mean. A store without a term's record or start says
nothing about that term: the reference for `entry` leaves its memberships out, as
the query does.

## Runs

| Run | Question | Result |
| --- | --- | --- |
| `run_catalog` | can crashes, lost acknowledgements and a clock that steps back make outcome and published catalog disagree, or give a run authority it did not earn; does the protocol implement the ledger? | no; yes |
| `resource_publication` | do clean rows match the store, is a completed scan published, is every dirty row eventually published? | yes, but for outdated and withheld rows |
| `incremental_refresh` | can an update fall behind the window unpublished; is every publishable version eventually published or superseded? | no, if the lag is within the overlap; yes |
| `degraded_alerts` | can a streak or a failed unit be silenced undelivered, or stay undelivered? | no |
| `office_holdings` | do graphs hold only what was accepted, once, and lose nothing without a review? | yes, unless a key was reused |
| `shared_graphs` | can a publisher overwrite a candidate a crash left, forget an owner, go back to an older source, or leave a description nobody can trace? | no |
| `recovery` | is a snapshot a state of one instant, is no state lost, is what is served built from the live state? | yes |
| `identity_links` | is every external-links graph accounted for and moved only by a lookup or a decision; does a finished command leave nothing undone? | yes |
| `bill_sponsors` | is anything that was once questioned accepted without a human; does a finished command serve its records? | no; yes |
| `debate_batches` | can a Work change its Expression, does a finished batch serve what it did not report, was whatever is resolved published? | no; yes; yes |
| `debate_references` | do the two readings of a document agree, and is every alteration refused? | yes; yes, but one of two votes of a Member on one side |
| `questions` | is an answer what every reading of the evidence gives; can publication between two queries put something into it that no store shows, or keep something out; can a draft with fewer conditions, other terms, dates or relations become the plan? | yes; no; only from answers in several pages; only for the conditions listed as `Unheeded` |

Each property has a mutant of the code's model, listed in `PROJECT.json`, under
which TLC finds it violated.

## Seen, no run

Places where the code does something else than a comment, a test or a document
says. They were met as counterexamples of properties that are not kept.

* *Absence* (`state.py:1736`). A complete run stages its finalization and dies.
  The next run observes a bill under its own id, then replays the finalization;
  `mark_catalog_clean` compares `last_seen_run_id` with the dead run's id and
  marks the bill missing although both runs saw it.
  `docs/reference/etl/state-and-refresh.md` 6.3: "Only a successful complete scan
  can establish that a previously known resource was not observed."
* *Quarantine and cursor* (`state.py:2124`). `_prepare_run_completion_locked`
  checks quarantines when the finalization is staged; the cursor is moved when
  it is applied, possibly by a later run that has just opened one. No update is
  lost by it (`NoUpdateSlips` holds with staged finalizations included).
* *Retry in progress* (`state.py:1506`). `retry_state = 'in_progress'` is committed
  at once and no later run resets it: the bill is republished, its quarantine
  stays unresolved, and no later incremental run may move the cursor.
* *Key reuse* (`office_reconciliation.py:664`). A report that continues no row
  gets a key made from its snapshot, even if a row has that key: a row keeps its
  key when its report is corrected. Reports `a` and `b`, of which `b` is accepted;
  then `a` and `c`, which corrects the row of `b`; then `b` alone, which may
  continue either row and gets a new key: it is the key of the row of `c`, and
  the accepted resolution of that row is gone. If `b` comes back beside `c`, the
  scan raises "office occurrence key collision" instead, and so does every scan
  until the reports change.
* *Stale decision* (`office_reconciliation.py:747`). A scan that sees a report
  corrected puts the unchanged decision aside as stale. The next scan finds the
  corrected snapshot in the ledger, an exact match with nothing changed, and
  accepts it by the same decision. A decision bound to a fingerprint is not
  affected.
* *Registries stay dirty* (`cli.py:1910`). `_run_office_registry_impl` stages
  without replaying a dirty administrative-units or offices graph, and
  `mark_endpoint_dirty` refuses a dirty graph: after a crash between staging and
  completion every later registry run of that graph fails. `docs/architecture/etl.md:75`
  says that an interrupted publication "is recovered by replaying its exact saved
  payload".
* *Two renames* (`operations.py:1131`). Activation renames the live directory
  aside and the staged one into its place; only an exception undoes the first.
  A crash between them leaves no live state, and the next run creates an empty
  one, which the next backup would take. `ops_cli.py:273` says "atomically install".
* *Two hashes* (`projection.py:326`). The rebuild looks for the attempt whose
  payload has the recorded hash, over the payload's bytes; `reconciliation.py:103`
  and `:2892` record the hash of the payload's JSON form. No attempt ever
  matches, and a rebuild raises as soon as one external-links graph is published
  (`ExternalReadable`). The test writes the hash itself, in the reader's form.
* *Sponsor graphs are not rebuilt* (`projection.py:104`). The rebuild leaves
  every Bill's local sponsor graph out; `FinishedRunIsServed` holds because the
  next command finds the graph missing and publishes it again.
* *Optional links* (`reconciliation.py:2536`). "Failed verification of the same
  accepted QID must not erase previously published optional links while retry is
  pending": so the links are kept when Wikidata cannot confirm the item
  (`OutageIsHarmless`). When it can and DBpedia fails, or the sitelink is malformed,
  `resolve` accepts without them, and the published graph loses them until the retry.
* *An older hash* (`state.py:2660`). Replaying an older payload writes its hash
  over that of a newer version the run has observed, although
  `observed_source_hash` is said to be the most recently observed.
* *Several pages* (`composable_plan.py:6401`). An answer in several pages is
  announced as "Complete matching results"; a Member who qualified throughout
  may be missing from it if the store was republished between two pages, and
  the order of the dated query (`composable_plan.py:3178`) is not total.
* *Service and labels* (`stage_a.py:560`). What a Senator represented is read in one
  query and its labels in another. With two publications in between, the first taking
  the term away and the second adding the label, a `panel` answer shows a membership
  with a label that no store had together; with one it cannot. The identities of the
  answer are of one store in any case, and so `PanelMeant`, like `WhoMeant` of
  names, takes a label from any store of the time where the reading need not be certain.
* *Conditions without a word* (`composable_semantic_planner.py:1515`). The instructions
  ask for a refusal when a condition cannot be expressed, and the validators refuse the
  words they know. `Unheeded` lists those they do not: a draft without the condition is
  accepted, and answered. For the Members of a term or of a date: "before", "except",
  "latest", "minister", "now", "or", "previously", "at the same time", "throughout",
  "votes", "while", "women" and a year; for a date a month and a second term too. For
  Members of both Houses: "except", "latest", "or", "throughout", "while", "women", a
  year and a month. Beside an office holder: "latest".
* *Other families* are not under the property. A count is accepted without "how many" for
  the Senators who were TDs, a party's question as one of the Government, "When was Ann
  Taoiseach" as Ann's affiliations, career, entry or Bills, the terms two Members shared
  as the history of one of them; and the recognizers for the previous Dáil and for the seats and parties of a Dáil
  (`stage_c.py:105`) search the wording and drop the rest of it.

## Bounds, and why they are enough

* `run_catalog`: two runs over two endpoints, so that a staged run and the run
  that replays or interrupts it are in the database together; clock values that
  let a boundary be later than, equal to or earlier than the cursor.
* `resource_publication`: one bill with two versions under two contracts and
  three faults: a graph lost, a PUT applied without answer and a crash in one
  behaviour. A bill's row depends on no other bill.
* `incremental_refresh`: one bill and five instants, with overlap and lag 1, so
  that an update can be stamped inside, at and just outside the overlap of two
  successive runs. One fault is enough to leave a staged cursor or a stranded
  retry.
* `degraded_alerts`: two sources, because a pending event holds episodes of
  several; three outcomes with threshold 2, so that a streak can grow, end and
  begin again; one failed unit, whose two deliverers race; two faults, so that
  one delivery can be repeated and the repeat fail.
* `office_holdings`: two well-formed snapshots and a malformed one make every
  kind of match (exact, correction, ambiguous, new) with every other; two
  offices let a new decision replace an accepted one; two changes and a run that
  dies take an occurrence from accepted through absent or corrected to decided
  anew. Well-formed snapshots are interchangeable, and so are offices.
* `shared_graphs`: two owner graphs (one with a source endpoint, one without), two
  owners, two descriptions; three runs, so that one leaves a candidate, another
  replays it and a third builds on what was published; one fault.
* `recovery`: the Core State and the reconciliation store; two payloads, two
  snapshots, two states that go live, one fault. `MaxTime = 0`: activations have
  one time stamp, so that a second one in the same second is refused, as in the code.
* `identity_links`: each kind with two entities (a decision on one can concern a
  command about the other), two identifiers, one article, two identities at the
  source, two commands, one edit of any review file and one fault; 3.2 million
  states. A lookup returns any set of four candidates: for each identifier one that
  nothing contradicts and one that its type does. `Resource` is empty: a person is
  an optional link of a Member as an article is, and with one the state space is 2.5
  times as large (its check, 8.1 million states, found no error either).
* `bill_sponsors`: two Bills, so that a command may see one and find the other's
  row dirty; two registries, tenures and targets; two edits and three commands,
  so that a sponsor can vanish or change and come back; one fault.
* `debate_batches`: six sources over two Works: an original, a revision, another
  Work, a late one, one that is misplaced and one that cannot be read; two
  batches over two editions of the owners; every inventory of up to four of the
  records with sizes up to the ceiling, for the cut into batches.
* `debate_references`: some 2800 documents in three states of the owners, one
  alteration: a speech or a question with every reference, up to two authors, or a
  division with two votings and two votes, alone or beside or inside another one,
  where one vote may be in the lobbies of both. 870,000 states.
* `questions`: forty-four kinds, each asked plainly and with each of twenty-one extra
  conditions, and for each wording the draft of every question, its count and, where
  nothing extra is asked, the flaws of its own. Whatever becomes the plan is executed
  over the stores in which two of the graphs it reads have one of their contents, with
  one republication of one of them between any two queries; a page of three
  rows and an offset of three make answers of one page, of two, and of more than the
  service reads. `AnswerIsWitnessed` is proved for any `MaxChanges`.

`MaxContract`, `MaxFaults`, `MaxFailures`, `MaxInterruptions`, `MaxTime`, `MaxRuns`, `MaxChanges`, `MaxWrites`,
`MaxSnapshots`, `MaxEpoch`, `MaxIdentity`, `MaxEdits`, `MaxOwners`, `MaxBatches` are the
bounds in guards (`MaxWorks`, `MaxBytes`, `PageSize` and `MaxOffset` are limits of the
code). The theorems hold for all their values. `CHECK_DEADLOCK FALSE` where run
identifiers are used up or where one document or question is all there is.

## Fairness

`WF_vars(Run)` in `ResourcePublication` and `IncrementalRefresh` says that runs
keep being started and that a run that nothing stops goes on.
`deployment/systemd/oir-etl.timer` starts one daily with `Persistent=true`, and a
run is a sequential program with a time limit on each request. Nothing is
assumed of the source, of Fuseki or of faults, except that faults are finite in
number (`MaxFaults`): a run that always fails publishes nothing, and no code
could make it. Under `WF_vars(Run)` the scheduler may pick any selection of
bills for each run, so no run is assumed to return a given bill.

`WF_vars(Checker)` in `DegradedAlerts` says the same of `alerts-check`
(`oir-alert-check.timer`, daily; `alerts-check.lock` excludes a second one): it
is the only process assumed to go on, and so the reporter of a failed unit may
die and the event still be delivered. Nothing is assumed to happen in
the other modules: their properties are safety.

## What is proved

Every theorem holds for all values of the constants under the named assumptions
of its module and is checked by TLAPS.

*RunCatalog.* The inductive invariant `IInv` adds to the properties what each
location knows of the database (`ProcessInv`), what the staged finalization
plans (`PlanInv`), that a dirty catalog runs ahead of the database in the staged
run alone (`PendingInv`) and that a clean catalog is what Fuseki holds
(`RemoteInv`). None of `SuccessIsPublished`, `PublishedClaimsHold` and
`OverclaimIsDirty` is inductive alone: the step that makes a catalog clean
copies the pending claims, so the pending claims must already be right, which
they are because of what was durable when they were built. The refinement
theorem maps each action to a step of the ledger or a stutter from the same
invariant.

*ResourcePublication.* `LogInv` (a dirty row holds the payload its graph may
get), `StepInv` (the bill being published is dirty under the deployed contract),
`WorkInv` and `ScanInv` (a publishable bill awaits its turn, is being published
or is done). `CompletedScanIsPublished` and `CompletedScanReplays` follow at the
end of a run, `GraphChangesAreLogged` from `LogInv` and `StepInv`.

*IncrementalRefresh.* `NoUpdateSlips` needs to know what happens to an update
between the query and the cursor's move: `ScanInv` says that whatever lies
before the boundary's overlap and is unpublished is in the run's hands as
fetched, or has degraded the run; `StagedInv` says the same of a staged cursor.
`OverlapCoversLag` is the assumption the argument turns on.

*DebateBatches.* Neither safety invariant is inductive alone. A Work keeps its
Expression (`WorkKeepsItsExpression`) because what is planned has no rival in its
batch and agreed with its row when it was planned (`SingleInv`), and still does:
no other source of the batch writes that row. For the same reason what is
published or skipped stays so until the batch ends, which is one half of
`FinishedBatchIsServed`; the other half (`CoverInv`) is that a reported source
waits under a quarantine that no later record takes up again, since each
quarantine is retried once in a batch. `RecordInv` says which source is in hand at
each step, `RetriesInv` that what is resolved at the end is of the Work just found
published, so that `ResolvedWasPublished` holds of each step.
`ReadableDocumentsAreNamed` (a document that can be read names its Work and its
Expression) and `EditionsAreCounted` are the assumptions. The names of this
module and of `IncrementalRefresh` differ, so that one module can hold the proofs
of both.

*DegradedAlerts.* Nothing is silenced undelivered by `HandedOver`: whoever is
about to record or remove has delivered. `RepeatsNeedFaults` needs a budget
(`BudgetInv`: an episode with more deliveries than faults is recorded, or about
to be) and an order (`OrderInv`: what is pending is newer than what its source
was last alerted about, so that an old episode never becomes a candidate again).

*OfficeHoldings.* `EvidenceInv` relates the ledger to its attempts: a row's last
acceptance is on record, and a key with an acceptance on record has a row that
is still evidence, unless the key was reused. Lemmas say what a scan does to
rows (`RowsAfterScan`, `ScanKeepsRow`): `RowsAreDistinct` is kept because a row
with the snapshot of a report is an exact match and so no absent one. From
`EvidenceInv`, whatever is composed was accepted (`HoldingsAreAccepted`), and a
published holding belongs to evidence, so that `IsBlocked` protects it
(`RetirementNeedsEvidence`). That property and `RemovalNeedsReview` exempt
reused keys; the first finding on offices says why they must.

*SharedGraphs.* The inductive invariant is `TypeOK`, what the run knows at each
step (`StagedInv`, `CandidateInv`, `PendingInv`), `StoreIsAccountedFor` and
`DescriptionsHaveSources`. That a description has a source is not inductive
alone: `Complete` writes versions for the pending payload, so what is pending
must already agree with what is published wherever it was carried forward. The
refinement maps `VerifyAndComplete` to the publication of an offer and `Stage` to
an offer, for which `PendingInv` supplies that no other stands.

*Recovery.* `LockInv` says that whoever holds the lock is at work and nobody
else is, so what a step read is still so at the next: `BackupInv`, `RestoreInv`
and `ActivationInv` relate what a command has copied to the state it copies, and
the refinement follows, an action at a time: a snapshot is the state that is
live when its backup ends, an activation installs a recovery point and keeps
what it replaces. `DatasetMatchesState` is not inductive alone, because the state
is absent between the two renames of an activation, and because a rebuild puts
datasets away and back: `Fits` is the stronger form, said of the dataset in
place, of the one a rebuild has set aside and, while a state is being replaced,
of the one that is going. `RebuildInv` says that what has been built so far is
the projection of the live state, and `ServingInv` what the marker stands for:
without it, the last state a rebuild was for is the one projected.
`AbsenceIsNoValue` separates an absent file or directory from one that is there.

*IdentityReconciliation.* A row is read by later commands, so the invariant must
say what it holds whoever left it: `Justified` relates its state, its links and
its pending payload to the edition of the review file *it* names, not to the one
in force. `ReplayInv` has the replay take every dirty row of the input, so that
`LookupInv` finds none dirty during the lookups of a publishing command, and
what such a command has been through is `Applied`; this is
`FinishedRunApplied` when it ends. That links change only as decided
(`LinksFollowDecisions`) needs `Justified` of the row being published. What any
lookup may bring is dealt with once: `OutcomeIsJustified` goes through the outcomes of
the four kinds and finds that each follows the human decision as far as there is one,
and that without one only a Member is accepted (`AsDecided`); so a graph's builder,
which raises on anything else, is never given it (`AcceptedByReview`). The links kept
for an institution are among those because its row was decided alike (`Justified`
again). `NoDecisionForgotten` needs to know of the rows no attempt was made on
(`Undecided`): the first attempt remembers nothing, each later one what the row named
or remembered. A member's evidence holds no earlier decision, so it is not about
members. `PublishedVerified` holds because the mark follows the proof
(`PublishingInv`). `OutageIsHarmless`: an outcome in an outage is the row's links again
(`KeptInOutage`), and what is clean has their hash, by the other invariants.
`WeighedTwice` is about the operators: the client weighs a candidate before `resolve`
checks and weighs it again, and what the first weighing adds is allowed and grounded.
`NothingIsNoValue`, `NothingIsNoLink` and `ValuesAreDistinct` separate the absence of a
value from every value; `CandidatesAreCandidates` types what lookups return, and no
proof uses it.

*BillSponsors.* That reconcile and validator agree (`DecisionsAreJustified`) is
proved of each judgement on its own (`JudgedSoundly`): which rule decided it shows
in the record, and each rule leaves what the validator looks for.
`OnlyUnquestionedIsAutomatic` is not inductive: `OutcomeInv` adds that a gated
record waits for review, a reviewed one keeps a decision, and one that no office
matched had no office on that evidence. So a record that passes the gate was
accepted by its label on the same evidence before, or is the first. A Bill counts
as seen only when it is served (`SeenIsServed`), which later Bills do not disturb,
because a Participation is of one Bill (`EditionsListSponsors`); `BillInv` and
`PendingLinksInv` follow the Bill in hand, and from the latter a graph out of the
input changes only where a publication was interrupted (`AbsenceRemovesNothing`).
`RegistriesNameOffices`, `AcceptanceHasTarget` (an accepted decision names an
office or a holding, `_validate_decision_shape`) and `NothingIsNoRow` are the other
assumptions. The names of this module differ from those of `OfficeHoldings`, with
which it shares a proof module.

*DebateValidation.* Three assumptions say what a document is: its elements form a
finite tree (`DocumentsAreTrees`), places in it are told apart (`PlacesAreApart`), and an
owner is not called like the absence of one, nor a committee like a House
(`OwnersAreApart`). The invariant `ValidationInv` only says what became of the
transformation (`Untouched` or `AlteredOnce`) and that the verdict is `Validates` of
it; the work is in the lemmas on the operators. `SlotsOfReport` and
`SlotsOfInventory` take both readings apart by slot; `RowHasItem` and `ItemHasRow` lead
from one to the other, with a status the item allows; outside the lobbies a key is
one row and one item (`RowIsUnique`, `ItemIsUnique`), and in them both are as many as the
ballots (`KeysAsOften`). `EmittedIsExpected` has the validator derive from the rows
exactly the edges the transform emits. What may then be wrong with links, counts
and votes is one disjunct of `Contested` each (`UnpublishedHostIsRefused`,
`NegativeIsRefused`, `DoubleVotesAreRefused`), and together they are `ReadingsAgree`. Of
an alteration: a lost row leaves its key one short (`LostRowIsRefused`); a
misreported one was or is said to be resolved (`MisreportResolves`), so its edge must be
another row's, and only a ballot can have such a double (`MisreportHasDouble`,
`RowIsSole`).

*Questions.* `AnswerIsWitnessed` is proved for every wording, draft, store and
sequence of publications: whatever a plan came to stand for, what is answered is what
some store of the time shows. `seen` only grows, so what a query has read of one of its
stores stays read; the invariant `QuestionInv` says, for each executor, what that is.
`CollectInv`: rows gathered over pages are each the row of a store that was seen, for the
identities the question resolved. That is enough where each member of the answer rests on
one row (a row of the dated query already holds a Member's term and its place). Where
rows are compared with each other (a party membership with the tenure of an office, all
that a Member served) they must be from one query: `OneStoreInv` says so of
`during_office` and of the questions about one Member's service. `CandidateInv` is for those that name candidates in one query and read
their service in the next, where each half has its own store and `Meant` asks no more.
`AtInv` and `KindInv` say at which places an executor can be and with which kinds of
question, so that the step of one is no step of another; each executor then has a lemma
for each of its steps, and `Publish` disturbs nothing because it only adds to `seen`.
Four assumptions: `KindsAreKnown` (each kind of question has one family that executes it),
`DatesAreNumbers` (periods that are compared have dates that can be), `NothingIsNoHouse`
and `PagesAreBounded`. The names of `Questions` and `RunCatalog` differ, so that one
module can hold the proofs of both.

Model-checked only. Liveness (`DirtyIsResolved`, `UpdateIsPublished`,
`EpisodeIsDelivered`, `FailureIsDelivered`) is out of this prover's reach. Of `Questions`,
`QuietAnswerIsCertain` and `OnePageMissesNobody` say that nothing is left out: whether a
page holds every row there is rests on the order the rows are folded into, which is
induction over data. `PlanIsTheQuestion` is an equation between operators that read whole
questions, wordings and drafts, and holds of those that TLC enumerates.

## Assumptions, and what is left out

* A PUT that raised is applied before the next run's PUT, or never. `loader.py`
  gives each request 30 seconds; nothing tells Fuseki to drop one that is later
  than that. If it did not, an older payload could replace a newer one until
  the next verification.
* `Lag <= Overlap`: the code's default overlap is a judgement about the API.
* One run at a time (`state_lock` and the operation lock).
* Payload content, legacy schemas, offline runs (`finish_run` without a loader)
  and the retry-request API that no command calls are not modelled.
* Histories grow by completion: a clock stepping back between two runs of one
  source could reorder them in `alerts.py`, and is not modelled there.
* `OfficeLedger` has one label of one membership: the rule for a label that
  changes (`possible-same-scope-source-change`) needs several. A decision has
  one office; "unresolved" is "rejected" without its name; incomplete scans do
  not write the ledger and are left out; so are graphs of contracts before 3.
* `ChangeReports` changes all reports of the label at once, which includes
  changing one.
* `Recovery` follows the latest stage only, and takes Docker's restart policy to
  restart a container that was up when the host went down.
* `IdentityReconciliation` reads the review and the source when a command starts, and
  takes an article or a person to be named by its link, not by how it is spelt or
  encoded. How a candidate's facts are read from a SPARQL answer is not modelled: any
  candidate may come back. `BillSponsors` has one time context.
* In `DebateBatches` a Work's graph is lost between batches only, and the resource
  budget's stop is a failure like any other.
* The language model, the SPARQL text and its safety, presentation and feedback are not in
  `Questions`. It takes the listing of a term's parties to fit the page range, labels to
  be there in English, and source identifiers not to be used as names. The simple
  question for a constituency is cut at the default limit of a query without a check
  (`composable_plan.py:3653`); the stores checked, like constituencies, stay below it.
  The Bills of a year are those with a dated publication in it, and Bills that are not
  enacted those with a recorded legislative year: what an undated event or a missing
  year would have added is not part of the reference either, for the queries ask for no
  more (`stage_b.py:477`, `:486`). `ListGroups` leaves out whether parliamentary groups were asked for
  besides parties: it changes the diagnostic only.
* The rest of what each component leaves out is in `PROJECT.json`, with it.

## Plan

Next, in this order:

1. The routes of the query service that answer one fixed wording with a diagnostic:
   debates, votes, a committee's chair, an office on one day.
2. `MembersPublication`: the party and migration gates of the Members run before
   and after its party and office graphs.
3. Several labels in `OfficeLedger`.

---------------------------- MODULE DebateBatches ----------------------------
(***************************************************************************)
(* `run debates --publish`: a finite batch of preserved AKN documents is   *)
(* planned against one snapshot of the published owners (Members, houses,  *)
(* committees), the records that cannot be published are quarantined, and  *)
(* then each Work is published: dirty, PUT, verified, clean.  A batch is   *)
(* given by hand or cut from the frozen inventory.  The state lock keeps   *)
(* the owners still while a batch runs; nothing but a batch writes a       *)
(* Work's graph, though the triple store may lose it between batches.      *)
(*                                                                         *)
(* A source is its bytes.  What it says of itself (the Work and Expression *)
(* it claims, whether a preserved URL is that Expression's main.xml) never *)
(* changes; whether it transforms and validates depends on the owners.     *)
(* A published graph is named by the source and the owners it came from.   *)
(***************************************************************************)
EXTENDS Integers, FiniteSets, SequencesExt

CONSTANTS
  Source,        \* preserved documents
  Work,
  WorkOf,        \* the Work each source claims; Nothing: it cannot be read
  ExpressionOf,
  Misplaced,     \* sources no preserved URL of which is their Expression's main.xml
  Rejected,      \* pairs of a source and an edition of the owners that fails validation
  Manifest,      \* the frozen inventory: a sequence of [source, bytes, withheld]
  Inventories,   \* other inventories that may be cut into batches
  MaxWorks, MaxBytes,   \* ceilings of a batch of the inventory
  Nothing,
  MaxOwners,     \* bound on editions of the owners
  MaxBatches,    \* bound on batches
  MaxFailures    \* bound on failures, crashes and lost graphs

ASSUME CeilingsArePositive == MaxWorks \in Nat \ {0} /\ MaxBytes \in Nat \ {0}

VARIABLES
  owners,        \* edition of the published owner graphs; clean or not
  rows,          \* resource_state of each Work
  graph,         \* the graph of each Work in the triple store
  quarantined,   \* sources with a quarantine that may be retried
  abandoned,     \* sources with a quarantine whose retry a dead batch left in progress
  run,           \* the batch that is running, or the last one
  batches, failures

state == <<rows, graph, quarantined, abandoned>>
batchVars == <<owners, state, run, batches, failures>>

Edition == 0..MaxOwners
Payload == [source : Source, owner : Edition]
Row == [state : {"absent", "clean", "dirty"}, expression : {ExpressionOf[s] : s \in Source} \cup {Nothing},
        published : Payload \cup {Nothing}, pending : Payload \cup {Nothing}]
NoRow == [state |-> "absent", expression |-> Nothing, published |-> Nothing, pending |-> Nothing]

\* A document that can be read names its Work and its Expression; no value
\* stands for an absent one.
ASSUME ReadableDocumentsAreNamed ==
  /\ WorkOf \in [Source -> Work \cup {Nothing}]
  /\ \A s \in Source : WorkOf[s] # Nothing => ExpressionOf[s] # Nothing
  /\ Nothing \notin Source \cup Work \cup Payload
ASSUME EditionsAreCounted == MaxOwners \in Nat

NoRun == [at |-> "idle", owner |-> 0, input |-> {}, withheld |-> {}, failed |-> {},
          skipped |-> {}, plan |-> {}, source |-> Nothing, candidates |-> {},
          retries |-> {}, started |-> {}]

BatchInit ==
  /\ owners = [edition |-> 0, clean |-> TRUE]
  /\ rows = [w \in Work |-> NoRow]
  /\ graph = [w \in Work |-> Nothing]
  /\ quarantined = {} /\ abandoned = {}
  /\ run = NoRun
  /\ batches = 0 /\ failures = 0

Resting == run.at \in {"idle", "finished"}
BatchFault == failures < MaxFailures /\ failures' = failures + 1

----------------------------------------------------------------------------
\* Between batches

\* A members run stages an owner graph, and publishes it.
OwnerStaged ==
  /\ Resting
  /\ owners.clean /\ owners.edition < MaxOwners
  /\ owners' = [owners EXCEPT !.clean = FALSE]
  /\ UNCHANGED <<state, run, batches, failures>>

OwnerPublished ==
  /\ Resting
  /\ ~owners.clean
  /\ owners' = [edition |-> owners.edition + 1, clean |-> TRUE]
  /\ UNCHANGED <<state, run, batches, failures>>

GraphLost(w) ==
  /\ Resting
  /\ graph[w] # Nothing
  /\ BatchFault
  /\ graph' = [graph EXCEPT ![w] = Nothing]
  /\ run' = NoRun
  /\ UNCHANGED <<owners, rows, quarantined, abandoned, batches>>

----------------------------------------------------------------------------
\* The batches of the inventory

Bytes(batch) == FoldLeft(LAMBDA n, record : n + record.bytes, 0, batch)

StartsBatch(batch, record) ==
  /\ batch # <<>>
  /\ Len(batch) >= MaxWorks \/ Bytes(batch) + record.bytes > MaxBytes

\* One oversized record stops the whole inventory.
Batches(records) ==
  LET add(cut, record) ==
        IF StartsBatch(Last(cut), record) THEN Append(cut, <<record>>)
        ELSE Front(cut) \o <<Append(Last(cut), record)>>
  IN IF \E r \in Range(records) : r.bytes > MaxBytes THEN <<>>
     ELSE FoldLeft(add, <<<<>>>>, records)

----------------------------------------------------------------------------
\* Planning a batch

\* The owners must all be clean; the inventory's withheld records are
\* preserved sources too, but take no part in planning.  A document that was not
\* preserved stops the batch before it starts.
Start(sources, withheld) ==
  /\ Resting
  /\ sources \cup withheld \subseteq Source
  /\ owners.clean
  /\ batches < MaxBatches /\ batches' = batches + 1
  /\ run' = [NoRun EXCEPT !.at = "plan", !.owner = owners.edition, !.input = sources,
                          !.withheld = withheld, !.candidates = quarantined]
  /\ UNCHANGED <<owners, state, failures>>

StartByHand(sources) == sources # {} /\ Start(sources, {})

StartFromInventory(i) ==
  /\ i \in DOMAIN Batches(Manifest)
  /\ LET records == Range(Batches(Manifest)[i])
         withheld == {r.source : r \in {x \in records : x.withheld}}
     IN Start({r.source : r \in records} \ withheld, withheld)

Readable(s) == WorkOf[s] # Nothing /\ s \notin Misplaced
RowOf(s) == rows[WorkOf[s]]

\* Several Expressions, or several texts of one Expression, claim one Work.
Rivals(s) == {t \in run.input : Readable(t) /\ WorkOf[t] = WorkOf[s]}

Conflicted(s) == Rivals(s) # {s}

\* Mutant: the Expression of an earlier batch is forgotten.
OtherExpressionNever(s) == FALSE

OtherExpression(s) == RowOf(s).expression \notin {Nothing, ExpressionOf[s]}

Result(s) == [source |-> s, owner |-> run.owner]

\* Mutant: the graph in the triple store is not compared.
UpToDateUnread(s) == RowOf(s).state = "clean" /\ RowOf(s).published = Result(s)

UpToDate(s) ==
  /\ RowOf(s).state = "clean" /\ RowOf(s).published = Result(s)
  /\ graph[WorkOf[s]] = RowOf(s).published

Plan ==
  /\ run.at = "plan"
  /\ LET single == {s \in run.input : Readable(s) /\ ~Conflicted(s) /\ ~OtherExpression(s)}
         skipped == {s \in single : UpToDate(s)}
         valid == {s \in single \ skipped : <<s, run.owner>> \notin Rejected}
     IN run' = [run EXCEPT !.at = "record", !.skipped = skipped, !.plan = valid,
                           !.failed = (run.input \ (skipped \cup valid)) \cup run.withheld]
  /\ UNCHANGED <<owners, state, batches, failures>>

----------------------------------------------------------------------------
\* The failures of the batch, before any graph is touched

\* _retry_rows_for_record: quarantines of the record's Work, and those of the
\* same unreadable bytes; none is retried twice in one batch.
Retryable(s) ==
  {q \in run.candidates \ run.started :
     IF WorkOf[q] = Nothing THEN q = s ELSE WorkOf[q] = WorkOf[s]}

BeginRetries(s) ==
  /\ run.source = Nothing
  /\ quarantined' = quarantined \ Retryable(s)
  /\ run' = [run EXCEPT !.source = s, !.retries = Retryable(s),
                        !.started = run.started \cup Retryable(s)]
  /\ UNCHANGED <<owners, rows, graph, abandoned, batches, failures>>

BeginFailure(s) == run.at = "record" /\ s \in run.failed /\ BeginRetries(s)

\* Mutant: a batch that reports its failures resolves what it retried.
RecordFailureResolved ==
  /\ run.at = "record" /\ run.source # Nothing
  /\ quarantined' = quarantined \cup {run.source}
  /\ run' = [run EXCEPT !.source = Nothing, !.retries = {},
                        !.failed = run.failed \ {run.source}]
  /\ UNCHANGED <<owners, rows, graph, abandoned, batches, failures>>

\* record_quarantine, and the retries have failed.
RecordFailure ==
  /\ run.at = "record" /\ run.source # Nothing
  /\ quarantined' = quarantined \cup run.retries \cup {run.source}
  /\ run' = [run EXCEPT !.source = Nothing, !.retries = {},
                        !.failed = run.failed \ {run.source}]
  /\ UNCHANGED <<owners, rows, graph, abandoned, batches, failures>>

AllRecorded == run.at = "publish" /\ run.source = Nothing

FailuresRecorded ==
  /\ run.at = "record" /\ run.failed = {}
  /\ run' = [run EXCEPT !.at = "publish"]
  /\ UNCHANGED <<owners, state, batches, failures>>

----------------------------------------------------------------------------
\* Publication of one Work after the other

\* mark_publication_dirty fixes the Work's Expression.
Mark(s) ==
  /\ AllRecorded /\ s \in run.plan
  /\ rows' = [rows EXCEPT ![WorkOf[s]] =
       [state |-> "dirty", expression |-> ExpressionOf[s],
        published |-> @.published, pending |-> Result(s)]]
  /\ run' = [run EXCEPT !.at = "put", !.source = s]
  /\ UNCHANGED <<owners, graph, quarantined, abandoned, batches, failures>>

Put ==
  /\ run.at = "put"
  /\ graph' = [graph EXCEPT ![WorkOf[run.source]] = RowOf(run.source).pending]
  /\ run' = [run EXCEPT !.at = "verify"]
  /\ UNCHANGED <<owners, rows, quarantined, abandoned, batches, failures>>

\* verify_core_graph, then complete_publication.
Complete ==
  /\ run.at = "verify"
  /\ graph[WorkOf[run.source]] = RowOf(run.source).pending
  /\ rows' = [rows EXCEPT ![WorkOf[run.source]] =
       [@ EXCEPT !.state = "clean", !.published = RowOf(run.source).pending, !.pending = Nothing]]
  /\ run' = [run EXCEPT !.at = "publish", !.source = Nothing, !.plan = run.plan \ {run.source},
                        !.skipped = run.skipped \cup {run.source}]
  /\ UNCHANGED <<owners, graph, quarantined, abandoned, batches, failures>>

AllPublished ==
  /\ run.at = "publish" /\ run.plan = {}
  /\ run' = [run EXCEPT !.at = "resolve"]
  /\ UNCHANGED <<owners, state, batches, failures>>

----------------------------------------------------------------------------
\* The end of a batch

BeginSuccess(s) ==
  /\ run.at = "resolve" /\ s \in run.skipped
  /\ Retryable(s) # {}
  /\ BeginRetries(s)

Resolve ==
  /\ run.at = "resolve" /\ run.source # Nothing
  /\ run' = [run EXCEPT !.source = Nothing, !.retries = {}]
  /\ UNCHANGED <<owners, state, batches, failures>>

Finish ==
  /\ run.at = "resolve" /\ run.source = Nothing
  /\ \A s \in run.skipped : Retryable(s) = {}
  /\ run' = [run EXCEPT !.at = "finished"]
  /\ UNCHANGED <<owners, state, batches, failures>>

\* An exception: a network failure (the PUT may have been applied all the
\* same), a limit of the resource budget before or after a Work, a damaged
\* report.  Retries in progress are recorded as failed.
Fail ==
  /\ ~Resting
  /\ BatchFault
  /\ quarantined' = quarantined \cup run.retries
  /\ graph' \in {graph} \cup
       (IF run.at = "put"
        THEN {[graph EXCEPT ![WorkOf[run.source]] = RowOf(run.source).pending]} ELSE {})
  /\ run' = NoRun
  /\ UNCHANGED <<owners, rows, abandoned, batches>>

BatchCrash ==
  /\ ~Resting
  /\ BatchFault
  /\ abandoned' = abandoned \cup run.retries
  /\ run' = NoRun
  /\ UNCHANGED <<owners, rows, graph, quarantined, batches>>

BatchNext ==
  \/ OwnerStaged \/ OwnerPublished \/ \E w \in Work : GraphLost(w)
  \/ \E sources \in SUBSET Source : StartByHand(sources)
  \/ \E i \in 1..Len(Manifest) : StartFromInventory(i)
  \/ Plan
  \/ \E s \in Source : BeginFailure(s) \/ Mark(s) \/ BeginSuccess(s)
  \/ RecordFailure \/ FailuresRecorded \/ Put \/ Complete \/ AllPublished
  \/ Resolve \/ Finish \/ Fail \/ BatchCrash

BatchSpec == BatchInit /\ [][BatchNext]_batchVars

----------------------------------------------------------------------------
\* Properties

\* Every variable stays within its domain: a staged owner graph is of an edition
\* to come, and a row is dirty while it has a pending payload.
BatchTypeOK ==
  /\ owners \in [edition : Edition, clean : BOOLEAN]
  /\ ~owners.clean => owners.edition < MaxOwners
  /\ rows \in [Work -> Row]
  /\ \A w \in Work : (rows[w].state = "dirty") = (rows[w].pending # Nothing)
  /\ graph \in [Work -> Payload \cup {Nothing}]
  /\ quarantined \subseteq Source /\ abandoned \subseteq Source
  /\ run.at \in {"idle", "plan", "record", "publish", "put", "verify", "resolve", "finished"}

\* A Work is published from one Expression for ever: no batch, by conflict,
\* retry or after a crash, replaces its graph by that of another Expression.
WorkKeepsItsExpression ==
  \A w \in Work : \A p \in {rows[w].published, rows[w].pending, graph[w]} \ {Nothing} :
    ExpressionOf[p.source] = rows[w].expression

\* A finished batch serves each of its records or has reported it: the graph
\* of every record that was not quarantined is its own, of the owners the batch
\* read, and is recorded as such, though the store may have lost the graph or a
\* rival record of the batch may claim the same Work.
FinishedBatchIsServed ==
  run.at = "finished" =>
    \A s \in run.input \cup run.withheld :
      \/ s \in quarantined \cup abandoned
      \/ /\ RowOf(s).state = "clean"
         /\ RowOf(s).published = Result(s) /\ graph[WorkOf[s]] = Result(s)

\* A quarantine ends only when its Work is published and clean; nothing that
\* fails again, and no crash, resolves one.
ResolvedWasPublished ==
  [][\A q \in (quarantined \cup abandoned \cup run.retries) :
       \/ q \in quarantined' \cup abandoned' \cup run'.retries
       \/ /\ WorkOf[q] # Nothing
          /\ rows[WorkOf[q]].state = "clean"
          /\ graph[WorkOf[q]] = rows[WorkOf[q]].published]_batchVars

=============================================================================

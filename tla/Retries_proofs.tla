---------------------------- MODULE Retries_proofs ----------------------------
(***************************************************************************)
(* Proofs about the two components that retry what they quarantined: the   *)
(* debate batches, and the incremental refresh of the Bills.               *)
(***************************************************************************)
EXTENDS DebateBatches, IncrementalRefresh, TLAPS

(***************************************************************************)
(* DebateBatches.  A batch publishes a Work once: the sources it has       *)
(* planned or skipped have no rival, so what it leaves behind stays until  *)
(* it ends, and a source it has reported waits under a quarantine that no  *)
(* other record of the batch takes up again.                               *)
(***************************************************************************)

Phase == {"idle", "plan", "record", "publish", "put", "verify", "resolve", "finished"}
BatchRun ==
  [at : Phase, owner : Edition, input : SUBSET Source, withheld : SUBSET Source,
   failed : SUBSET Source, skipped : SUBSET Source, plan : SUBSET Source,
   source : Source \cup {Nothing}, candidates : SUBSET Source,
   retries : SUBSET Source, started : SUBSET Source]
Planned == run.at \in Phase \ {"idle", "plan"}

\* What is stored of a Work came from a document that claims it.
PayloadInv ==
  \A w \in Work : \A p \in {rows[w].published, rows[w].pending, graph[w]} \ {Nothing} :
    WorkOf[p.source] = w

\* What is to be published, or need not be, has no rival in the batch.
SingleInv ==
  Planned =>
    /\ \A s \in run.plan \cup run.skipped : s \in run.input /\ Readable(s) /\ Rivals(s) = {s}
    /\ run.plan \cap run.skipped = {}
    /\ \A s \in run.plan : ~OtherExpression(s)

Served(s) == RowOf(s).state = "clean" /\ RowOf(s).published = Result(s) /\ graph[WorkOf[s]] = Result(s)
Reported(s) == s \in quarantined /\ s \notin run.candidates \ run.started

\* Each record of the batch has yet to be reported or published, or has been.
CoverInv ==
  Planned =>
    /\ \A s \in run.skipped : Served(s)
    /\ \A s \in run.input \cup run.withheld :
         s \in run.failed \cup run.plan \cup run.skipped \/ Reported(s)

\* The record in hand: a failure, the Work being published, or a success
\* whose retries are resolved.
RecordInv ==
  /\ run.at \notin {"record", "put", "verify", "resolve"} => run.source = Nothing
  /\ run.at = "record" /\ run.source # Nothing =>
       run.source \in run.failed /\ run.source \notin run.candidates \ run.started
  /\ run.at \in {"put", "verify"} =>
       run.source \in run.plan /\ RowOf(run.source).pending = Result(run.source)
  /\ run.at = "resolve" /\ run.source # Nothing => run.source \in run.skipped
  /\ run.at \notin {"idle", "plan", "record"} => run.failed = {}
  /\ run.at \in {"resolve", "finished"} => run.plan = {}

RetriesInv ==
  /\ run.retries # {} => run.at \in {"record", "resolve"} /\ run.source # Nothing
  /\ run.at = "resolve" => \A q \in run.retries : WorkOf[q] = WorkOf[run.source]

BatchInv ==
  /\ BatchTypeOK /\ run \in BatchRun
  /\ PayloadInv
  /\ WorkKeepsItsExpression
  /\ SingleInv
  /\ CoverInv
  /\ RecordInv
  /\ RetriesInv

----------------------------------------------------------------------------
LEMMA DebateConstants ==
  /\ NoRow \in Row /\ NoRun \in BatchRun /\ NoRun.at = "idle" /\ NoRun.source = Nothing
  /\ NoRun.retries = {}
  /\ Nothing \notin Source /\ Nothing \notin Work /\ Nothing \notin Payload
BY ReadableDocumentsAreNamed, EditionsAreCounted DEF NoRow, Row, NoRun, BatchRun, Phase, Edition

\* A readable source names the Work its row and graph are filed under, and a
\* payload made of it is a payload of that Work.
LEMMA ReadableSource ==
  ASSUME NEW s \in Source, Readable(s)
  PROVE  WorkOf[s] \in Work /\ WorkOf[s] # Nothing /\ ExpressionOf[s] # Nothing
BY ReadableDocumentsAreNamed DEF Readable

LEMMA ResultIsPayload ==
  ASSUME run \in BatchRun, NEW s \in Source
  PROVE  Result(s) \in Payload /\ Result(s).source = s /\ Result(s) # Nothing
BY DebateConstants DEF Result, Payload, BatchRun

\* The retries of a source were candidates, and the source is among them if it
\* is one; all are of its Work.
LEMMA RetryableOfSource ==
  ASSUME run \in BatchRun, NEW s \in Source
  PROVE  /\ Retryable(s) \subseteq run.candidates \ run.started /\ Retryable(s) \subseteq Source
         /\ s \in run.candidates \ run.started => s \in Retryable(s)
         /\ Readable(s) => \A q \in Retryable(s) : WorkOf[q] = WorkOf[s]
BY DEF Retryable, BatchRun, Readable

\* Two sources without rivals are of two Works.
LEMMA ApartFromOthers ==
  ASSUME run \in BatchRun, SingleInv, Planned,
         NEW s \in run.plan \cup run.skipped, NEW t \in run.plan \cup run.skipped, s # t
  PROVE  WorkOf[s] # WorkOf[t]
BY DEF SingleInv, Rivals, BatchRun

----------------------------------------------------------------------------
\* What the steps of a batch leave of the invariant

LEMMA WorksAtRest ==
  ASSUME PayloadInv, WorkKeepsItsExpression, UNCHANGED <<rows, graph>>
  PROVE  PayloadInv' /\ WorkKeepsItsExpression'
BY DEF PayloadInv, WorkKeepsItsExpression

LEMMA NoBatchIsRunning ==
  ASSUME run' = NoRun
  PROVE  run' \in BatchRun /\ SingleInv' /\ CoverInv' /\ RecordInv' /\ RetriesInv'
BY DebateConstants DEF SingleInv, CoverInv, RecordInv, RetriesInv, Planned

\* A batch that goes on with its plan and its rows keeps what they are.
LEMMA PlanGoesOn ==
  ASSUME run \in BatchRun, SingleInv, CoverInv, Planned, UNCHANGED <<rows, graph>>,
         run'.input = run.input, run'.plan = run.plan, run'.skipped = run.skipped,
         run'.owner = run.owner
  PROVE  SingleInv' /\ \A s \in run'.skipped : Served(s)'
BY DEF SingleInv, CoverInv, Rivals, OtherExpression, RowOf, Served, Result

LEMMA BatchStarts ==
  ASSUME BatchInv, NEW sources, NEW withheld, Start(sources, withheld)
  PROVE  BatchInv'
<1> USE DEF BatchInv
<1>1. run'.at = "plan" /\ run'.source = Nothing /\ run'.retries = {} /\ run' \in BatchRun
  BY DebateConstants DEF Start, NoRun, BatchRun, Phase, BatchTypeOK
<1>2. BatchTypeOK'
  BY <1>1 DEF Start, state, BatchTypeOK
<1>3. PayloadInv' /\ WorkKeepsItsExpression'
  BY WorksAtRest DEF Start, state
<1>4. SingleInv' /\ CoverInv' /\ RecordInv' /\ RetriesInv'
  BY <1>1 DEF SingleInv, CoverInv, RecordInv, RetriesInv, Planned
<1>5. QED
  BY <1>2, <1>1, <1>3, <1>4

LEMMA BatchIsPlanned ==
  ASSUME BatchInv, Plan
  PROVE  BatchInv'
<1> USE DEF BatchInv
<1>1. PICK single, skipped, valid \in SUBSET Source :
        /\ single = {s \in run.input : Readable(s) /\ ~Conflicted(s) /\ ~OtherExpression(s)}
        /\ skipped = {s \in single : UpToDate(s)}
        /\ valid = {s \in single \ skipped : <<s, run.owner>> \notin Rejected}
        /\ run' = [run EXCEPT !.at = "record", !.skipped = skipped, !.plan = valid,
                              !.failed = (run.input \ (skipped \cup valid)) \cup run.withheld]
  BY DEF Plan, BatchRun
<1>2. /\ run'.at = "record" /\ run'.skipped = skipped /\ run'.plan = valid
      /\ run'.failed = (run.input \ (skipped \cup valid)) \cup run.withheld
      /\ run'.source = run.source /\ run'.retries = run.retries /\ run'.owner = run.owner
      /\ run'.input = run.input /\ run'.withheld = run.withheld
      /\ run' \in BatchRun
  <2>1. PICK failed \in SUBSET Source :
          failed = (run.input \ (skipped \cup valid)) \cup run.withheld
    BY DEF BatchRun
  <2>2. run \in BatchRun /\ run' = [run EXCEPT !.at = "record", !.skipped = skipped,
                                         !.plan = valid, !.failed = failed]
    BY <1>1, <2>1
  <2>3. run' \in BatchRun
    BY <2>2 DEF BatchRun, Phase
  <2>4. QED
    BY <2>1, <2>2, <2>3 DEF BatchRun
<1>3. run.at = "plan" /\ run.source = Nothing /\ run.retries = {}
  BY DEF Plan, RecordInv, RetriesInv
<1>4. BatchTypeOK' /\ PayloadInv' /\ WorkKeepsItsExpression'
  BY <1>2, WorksAtRest DEF Plan, state, BatchTypeOK
<1>5. SingleInv'
  BY <1>1, <1>2 DEF Plan, state, SingleInv, Conflicted, Rivals, OtherExpression, RowOf
<1>6. \A s \in skipped : Served(s)'
  BY <1>1, <1>2 DEF Plan, state, UpToDate, Served, Result, RowOf
<1>7. CoverInv'
  BY <1>2, <1>6 DEF CoverInv
<1>8. RecordInv' /\ RetriesInv'
  BY <1>2, <1>3 DEF RecordInv, RetriesInv
<1>9. QED
  BY <1>2, <1>4, <1>5, <1>7, <1>8

----------------------------------------------------------------------------
\* The failures of the batch

LEMMA FailureBegins ==
  ASSUME BatchInv, NEW s \in Source, BeginFailure(s)
  PROVE  BatchInv'
<1> USE DEF BatchInv
<1>1. PICK r \in SUBSET Source, u \in SUBSET Source :
        /\ r = Retryable(s) /\ u = run.started \cup r
        /\ run' = [run EXCEPT !.source = s, !.retries = r, !.started = u]
        /\ quarantined' = quarantined \ r
  <2>1. Retryable(s) \in SUBSET Source /\ run.started \cup Retryable(s) \in SUBSET Source
    BY RetryableOfSource DEF BatchRun
  <2>2. QED
    BY <2>1 DEF BeginFailure, BeginRetries
<1>2. /\ run' \in BatchRun /\ run'.source = s /\ run'.retries = r /\ run'.started = u
      /\ run'.at = run.at /\ run'.owner = run.owner /\ run'.input = run.input
      /\ run'.withheld = run.withheld /\ run'.failed = run.failed /\ run'.plan = run.plan
      /\ run'.skipped = run.skipped /\ run'.candidates = run.candidates
  BY <1>1 DEF BatchRun
<1>3. run.at = "record" /\ s \in run.failed /\ s # Nothing /\ Planned /\ Planned'
  BY <1>2, DebateConstants DEF BeginFailure, Planned, Phase
<1>4. UNCHANGED <<rows, graph, owners, abandoned>>
  BY DEF BeginFailure, BeginRetries
<1>5. BatchTypeOK' /\ PayloadInv' /\ WorkKeepsItsExpression'
  BY <1>1, <1>2, <1>4, WorksAtRest DEF BatchTypeOK
<1>6. SingleInv' /\ \A t \in run'.skipped : Served(t)'
  BY <1>2, <1>3, <1>4, PlanGoesOn
<1>7. \A t \in Source : Reported(t) => Reported(t)'
  BY <1>1, <1>2, RetryableOfSource DEF Reported
<1>8. CoverInv'
  BY <1>2, <1>3, <1>6, <1>7 DEF CoverInv, BatchRun
<1>9. s \notin run'.candidates \ run'.started
  BY <1>1, <1>2, RetryableOfSource
<1>10. RecordInv' /\ RetriesInv'
  BY <1>2, <1>3, <1>9 DEF RecordInv, RetriesInv
<1>11. QED
  BY <1>2, <1>5, <1>6, <1>8, <1>10

LEMMA FailureIsRecorded ==
  ASSUME BatchInv, RecordFailure
  PROVE  BatchInv'
<1> USE DEF BatchInv
<1>0. PICK s \in Source : s = run.source
  BY DEF RecordFailure, BatchRun
<1>1. PICK f \in SUBSET Source :
        /\ f = run.failed \ {s}
        /\ run' = [run EXCEPT !.source = Nothing, !.retries = {}, !.failed = f]
  BY <1>0 DEF RecordFailure, BatchRun
<1>2. /\ run' \in BatchRun /\ run'.source = Nothing /\ run'.retries = {} /\ run'.failed = f
      /\ run'.at = run.at /\ run'.owner = run.owner /\ run'.input = run.input
      /\ run'.withheld = run.withheld /\ run'.started = run.started /\ run'.plan = run.plan
      /\ run'.skipped = run.skipped /\ run'.candidates = run.candidates
  BY <1>1 DEF BatchRun
<1>3. /\ run.at = "record" /\ Planned /\ Planned'
      /\ s \notin run.candidates \ run.started
  BY <1>0, <1>2, DebateConstants DEF RecordFailure, RecordInv, BatchRun, Planned, Phase
<1>4. /\ quarantined' = quarantined \cup run.retries \cup {s}
      /\ UNCHANGED <<rows, graph, owners, abandoned>> /\ run.retries \subseteq Source
  BY <1>0 DEF RecordFailure, BatchRun
<1>5. BatchTypeOK' /\ PayloadInv' /\ WorkKeepsItsExpression'
  BY <1>2, <1>3, <1>4, WorksAtRest DEF BatchTypeOK
<1>6. SingleInv' /\ \A t \in run'.skipped : Served(t)'
  BY <1>2, <1>3, <1>4, PlanGoesOn
<1>7. Reported(s)' /\ \A t \in Source : Reported(t) => Reported(t)'
  BY <1>2, <1>3, <1>4 DEF Reported
<1>8. CoverInv'
  <2>1. ASSUME NEW t \in run'.input \cup run'.withheld
        PROVE  t \in run'.failed \cup run'.plan \cup run'.skipped \/ Reported(t)'
    <3>1. t \in Source /\ (t \in run.failed \cup run.plan \cup run.skipped \/ Reported(t))
      BY <1>2, <1>3, <2>1 DEF CoverInv, BatchRun
    <3>2. CASE t = s
      BY <1>7, <3>2
    <3>3. CASE t # s
      BY <1>1, <1>2, <1>7, <3>1, <3>3
    <3>4. QED
      BY <3>2, <3>3
  <2>2. QED
    BY <1>6, <2>1 DEF CoverInv
<1>9. RecordInv' /\ RetriesInv'
  BY <1>2, <1>3 DEF RecordInv, RetriesInv
<1>10. QED
  BY <1>2, <1>5, <1>6, <1>8, <1>9

LEMMA FailuresAreRecorded ==
  ASSUME BatchInv, FailuresRecorded
  PROVE  BatchInv'
<1> USE DEF BatchInv
<1>1. /\ run' = [run EXCEPT !.at = "publish"] /\ run.at = "record" /\ run.failed = {}
      /\ UNCHANGED <<rows, graph, owners, quarantined, abandoned>>
  BY DEF FailuresRecorded, state
<1>2. /\ run' \in BatchRun /\ run'.source = run.source /\ run'.retries = run.retries
      /\ run'.failed = {} /\ run'.at = "publish" /\ run'.owner = run.owner
      /\ run'.input = run.input
      /\ run'.withheld = run.withheld /\ run'.started = run.started /\ run'.plan = run.plan
      /\ run'.skipped = run.skipped /\ run'.candidates = run.candidates
  BY <1>1 DEF BatchRun, Phase
<1>3. Planned /\ Planned' /\ run.source = Nothing /\ run.retries = {}
  BY <1>1, <1>2 DEF Planned, Phase, RecordInv, RetriesInv
<1>4. BatchTypeOK' /\ PayloadInv' /\ WorkKeepsItsExpression'
  BY <1>1, <1>2, WorksAtRest DEF BatchTypeOK
<1>5. SingleInv' /\ \A t \in run'.skipped : Served(t)'
  BY <1>1, <1>2, <1>3, PlanGoesOn
<1>6. \A t \in Source : Reported(t) => Reported(t)'
  BY <1>1, <1>2 DEF Reported
<1>7. CoverInv'
  BY <1>1, <1>2, <1>3, <1>5, <1>6 DEF CoverInv, BatchRun
<1>8. RecordInv' /\ RetriesInv'
  BY <1>2, <1>3 DEF RecordInv, RetriesInv
<1>9. QED
  BY <1>2, <1>4, <1>5, <1>7, <1>8

----------------------------------------------------------------------------
\* Publication

\* What is known of a Work the batch is about to publish: any payload it has
\* is of the Expression of the planned source.
LEMMA PlannedWork ==
  ASSUME BatchInv, Planned, NEW s \in run.plan
  PROVE  /\ s \in Source /\ WorkOf[s] \in Work /\ Readable(s)
         /\ \A p \in {RowOf(s).published, RowOf(s).pending, graph[WorkOf[s]]} \ {Nothing} :
              ExpressionOf[p.source] = ExpressionOf[s]
         /\ \A t \in (run.plan \cup run.skipped) \ {s} :
              t \in Source /\ WorkOf[t] \in Work /\ WorkOf[t] # WorkOf[s]
<1> USE DEF BatchInv
<1>1. s \in Source /\ Readable(s) /\ ~OtherExpression(s)
  BY DEF SingleInv, BatchRun
<1>2. WorkOf[s] \in Work
  BY <1>1, ReadableSource
<1>3. ASSUME NEW p \in {RowOf(s).published, RowOf(s).pending, graph[WorkOf[s]]} \ {Nothing}
      PROVE  ExpressionOf[p.source] = ExpressionOf[s]
  <2>1. p \in Payload /\ p.source \in Source
    BY <1>2, <1>3 DEF RowOf, BatchTypeOK, Row, Payload
  <2>2. ExpressionOf[p.source] = RowOf(s).expression /\ WorkOf[p.source] = WorkOf[s]
    BY <1>2, <1>3 DEF RowOf, WorkKeepsItsExpression, PayloadInv
  <2>3. ExpressionOf[p.source] # Nothing
    BY <1>1, <2>1, <2>2, ReadableDocumentsAreNamed DEF Readable
  <2>4. QED
    BY <1>1, <2>2, <2>3 DEF OtherExpression
<1>4. ASSUME NEW t \in (run.plan \cup run.skipped) \ {s}
      PROVE  t \in Source /\ WorkOf[t] \in Work /\ WorkOf[t] # WorkOf[s]
  <2>1. t \in Source /\ Readable(t)
    BY <1>4 DEF SingleInv, BatchRun
  <2>2. WorkOf[t] \in Work
    BY <2>1, ReadableSource
  <2>3. WorkOf[t] # WorkOf[s]
    BY <1>4, ApartFromOthers
  <2>4. QED
    BY <2>1, <2>2, <2>3
<1>5. QED
  BY <1>1, <1>2, <1>3, <1>4

LEMMA WorkIsMarked ==
  ASSUME BatchInv, NEW s \in Source, Mark(s)
  PROVE  BatchInv'
<1> USE DEF BatchInv
<1>1. /\ run.at = "publish" /\ run.source = Nothing /\ run.retries = {} /\ run.failed = {}
      /\ s \in run.plan /\ Planned
  BY DEF Mark, AllRecorded, RetriesInv, RecordInv, Planned, Phase
<1>2. /\ run' \in BatchRun /\ run'.at = "put" /\ run'.source = s /\ run'.retries = {}
      /\ run'.failed = {} /\ run'.owner = run.owner /\ run'.input = run.input
      /\ run'.withheld = run.withheld /\ run'.started = run.started /\ run'.plan = run.plan
      /\ run'.skipped = run.skipped /\ run'.candidates = run.candidates
  BY <1>1 DEF Mark, BatchRun, Phase
<1>3. /\ WorkOf[s] \in Work /\ Readable(s)
      /\ \A p \in {RowOf(s).published, RowOf(s).pending, graph[WorkOf[s]]} \ {Nothing} :
           ExpressionOf[p.source] = ExpressionOf[s]
      /\ \A t \in (run.plan \cup run.skipped) \ {s} :
           t \in Source /\ WorkOf[t] \in Work /\ WorkOf[t] # WorkOf[s]
  BY <1>1, PlannedWork
<1>4. PICK row : /\ row = [state |-> "dirty", expression |-> ExpressionOf[s],
                            published |-> RowOf(s).published, pending |-> Result(s)]
                 /\ rows' = [rows EXCEPT ![WorkOf[s]] = row]
  BY DEF Mark, RowOf
<1>5. row \in Row /\ Result(s) \in Payload /\ Result(s).source = s /\ Result(s) # Nothing
  <2>1. Result(s) \in Payload /\ Result(s).source = s /\ Result(s) # Nothing
    BY ResultIsPayload
  <2>2. RowOf(s) \in Row
    BY <1>3 DEF RowOf, BatchTypeOK
  <2>3. QED
    BY <1>4, <2>1, <2>2 DEF Row
<1>6. /\ rows' \in [Work -> Row] /\ rows'[WorkOf[s]] = row
      /\ \A w \in Work \ {WorkOf[s]} : rows'[w] = rows[w]
  BY <1>3, <1>4, <1>5 DEF BatchTypeOK
<1>7. /\ row.state = "dirty" /\ row.expression = ExpressionOf[s]
      /\ row.published = RowOf(s).published /\ row.pending = Result(s)
  BY <1>4
<1>8. UNCHANGED <<owners, graph, quarantined, abandoned>>
  BY DEF Mark
<1>9. BatchTypeOK'
  BY <1>2, <1>5, <1>6, <1>7, <1>8 DEF BatchTypeOK
<1>10. PayloadInv'
  BY <1>3, <1>5, <1>6, <1>7, <1>8 DEF PayloadInv, RowOf
<1>11. WorkKeepsItsExpression'
  BY <1>3, <1>5, <1>6, <1>7, <1>8 DEF WorkKeepsItsExpression, RowOf
<1>12. SingleInv'
  <2>1. \A t \in run.plan : ~OtherExpression(t)'
    BY <1>1, <1>3, <1>6, <1>7 DEF SingleInv, OtherExpression, RowOf
  <2>2. QED
    BY <1>1, <1>2, <2>1 DEF SingleInv, Rivals
<1>13. CoverInv'
  <2>1. \A t \in run.skipped : t # s
    BY <1>1 DEF SingleInv
  <2>2. \A t \in run.skipped : Served(t)'
    BY <1>1, <1>2, <1>3, <1>6, <1>8, <2>1 DEF CoverInv, Served, RowOf, Result
  <2>3. \A t \in Source : Reported(t) => Reported(t)'
    BY <1>2, <1>8 DEF Reported
  <2>4. QED
    BY <1>1, <1>2, <2>2, <2>3 DEF CoverInv, BatchRun
<1>14. RecordInv' /\ RetriesInv'
  BY <1>1, <1>2, <1>6, <1>7 DEF RecordInv, RetriesInv, RowOf, Result
<1>15. QED
  BY <1>2, <1>9, <1>10, <1>11, <1>12, <1>13, <1>14

\* The graph becomes what the row says is on its way, by a PUT that is answered
\* or by one that is not.
LEMMA GraphAsPending ==
  ASSUME BatchInv, run.at = "put", UNCHANGED rows,
         graph' = [graph EXCEPT ![WorkOf[run.source]] = RowOf(run.source).pending]
  PROVE  /\ graph' \in [Work -> Payload \cup {Nothing}]
         /\ PayloadInv' /\ WorkKeepsItsExpression'
         /\ \A t \in run.skipped : graph'[WorkOf[t]] = graph[WorkOf[t]]
<1> USE DEF BatchInv
<1>1. PICK s \in run.plan : s = run.source /\ RowOf(s).pending = Result(s)
  BY DEF RecordInv
<1>2. Planned /\ s \notin run.skipped
  BY DEF Planned, Phase, SingleInv
<1>3. /\ s \in Source /\ WorkOf[s] \in Work
      /\ \A t \in run.skipped : WorkOf[t] \in Work /\ WorkOf[t] # WorkOf[s]
  BY <1>2, PlannedWork
<1>4. rows[WorkOf[s]].pending \in Payload
  BY <1>1, <1>3, ResultIsPayload DEF RowOf
<1>5. /\ graph' = [graph EXCEPT ![WorkOf[s]] = rows[WorkOf[s]].pending]
      /\ graph \in [Work -> Payload \cup {Nothing}]
  BY <1>1 DEF RowOf, BatchTypeOK
<1>6. /\ graph' \in [Work -> Payload \cup {Nothing}]
      /\ graph'[WorkOf[s]] = rows[WorkOf[s]].pending
      /\ \A w \in Work \ {WorkOf[s]} : graph'[w] = graph[w]
  BY <1>3, <1>4, <1>5
<1>7. PayloadInv' /\ WorkKeepsItsExpression'
  BY <1>6 DEF PayloadInv, WorkKeepsItsExpression
<1>8. QED
  BY <1>3, <1>6, <1>7

LEMMA WorkIsPut ==
  ASSUME BatchInv, Put
  PROVE  BatchInv'
<1> USE DEF BatchInv
<1>1. run.at = "put" /\ run' = [run EXCEPT !.at = "verify"]
      /\ UNCHANGED <<owners, rows, quarantined, abandoned>>
  BY DEF Put
<1>2. /\ run' \in BatchRun /\ run'.at = "verify" /\ run'.source = run.source
      /\ run'.retries = run.retries /\ run'.plan = run.plan
      /\ run'.failed = run.failed /\ run'.owner = run.owner /\ run'.input = run.input
      /\ run'.withheld = run.withheld /\ run'.started = run.started
      /\ run'.skipped = run.skipped /\ run'.candidates = run.candidates
  BY <1>1 DEF BatchRun, Phase
<1>3. Planned /\ Planned'
  BY <1>1, <1>2 DEF Planned, Phase
<1>4. /\ graph' \in [Work -> Payload \cup {Nothing}] /\ PayloadInv' /\ WorkKeepsItsExpression'
      /\ \A t \in run.skipped : graph'[WorkOf[t]] = graph[WorkOf[t]]
  BY <1>1, GraphAsPending DEF Put
<1>5. BatchTypeOK'
  BY <1>1, <1>2, <1>4 DEF BatchTypeOK
<1>6. SingleInv'
  BY <1>1, <1>2, <1>3 DEF SingleInv, Rivals, OtherExpression, RowOf
<1>7. CoverInv'
  BY <1>1, <1>2, <1>3, <1>4 DEF CoverInv, Served, Reported, RowOf, Result
<1>8. RecordInv' /\ RetriesInv'
  BY <1>1, <1>2 DEF RecordInv, RetriesInv, RowOf, Result
<1>9. QED
  BY <1>2, <1>4, <1>5, <1>6, <1>7, <1>8

LEMMA WorkIsCompleted ==
  ASSUME BatchInv, Complete
  PROVE  BatchInv'
<1> USE DEF BatchInv
<1>1. PICK s \in run.plan : s = run.source /\ RowOf(s).pending = Result(s)
  BY DEF Complete, RecordInv
<1>2. /\ run.at = "verify" /\ Planned /\ s \notin run.skipped /\ run.retries = {}
      /\ run.failed = {} /\ s \in run.input
  BY DEF Complete, Planned, Phase, SingleInv, RetriesInv, RecordInv
<1>3. /\ s \in Source /\ WorkOf[s] \in Work
      /\ \A t \in (run.plan \cup run.skipped) \ {s} :
           t \in Source /\ WorkOf[t] \in Work /\ WorkOf[t] # WorkOf[s]
  BY <1>2, PlannedWork
<1>4. PICK row : /\ row = [RowOf(s) EXCEPT !.state = "clean", !.published = Result(s),
                                           !.pending = Nothing]
                 /\ rows' = [rows EXCEPT ![WorkOf[s]] = row]
  BY <1>1 DEF Complete, RowOf
<1>5. RowOf(s) \in Row /\ Result(s) \in Payload /\ Result(s).source = s /\ Result(s) # Nothing
  BY <1>3, ResultIsPayload DEF RowOf, BatchTypeOK
<1>6. /\ row \in Row /\ row.state = "clean" /\ row.expression = RowOf(s).expression
      /\ row.published = Result(s) /\ row.pending = Nothing
  BY <1>4, <1>5 DEF Row
<1>7. /\ rows' \in [Work -> Row] /\ rows'[WorkOf[s]] = row
      /\ \A w \in Work \ {WorkOf[s]} : rows'[w] = rows[w]
  BY <1>3, <1>4, <1>6 DEF BatchTypeOK
<1>8. UNCHANGED <<owners, graph, quarantined, abandoned>> /\ graph[WorkOf[s]] = Result(s)
  BY <1>1 DEF Complete
<1>9. PICK plan \in SUBSET Source, skipped \in SUBSET Source :
        /\ plan = run.plan \ {s} /\ skipped = run.skipped \cup {s}
        /\ run' = [run EXCEPT !.at = "publish", !.source = Nothing, !.plan = plan,
                              !.skipped = skipped]
  <2>1. run.plan \ {s} \in SUBSET Source /\ run.skipped \cup {s} \in SUBSET Source
    BY <1>3 DEF BatchRun
  <2>2. QED
    BY <1>1, <2>1 DEF Complete
<1>10. /\ run' \in BatchRun /\ run'.at = "publish" /\ run'.source = Nothing
       /\ run'.retries = run.retries /\ run'.plan = plan /\ run'.skipped = skipped
       /\ run'.failed = run.failed /\ run'.owner = run.owner /\ run'.input = run.input
       /\ run'.withheld = run.withheld /\ run'.started = run.started
       /\ run'.candidates = run.candidates
  BY <1>9 DEF BatchRun, Phase
<1>11. BatchTypeOK'
  BY <1>6, <1>7, <1>8, <1>10 DEF BatchTypeOK
<1>12. PayloadInv' /\ WorkKeepsItsExpression'
  <2>1. rows[WorkOf[s]].expression = row.expression /\ rows[WorkOf[s]].pending = Result(s)
    BY <1>1, <1>6 DEF RowOf
  <2>2. QED
    BY <1>5, <1>6, <1>7, <1>8, <2>1 DEF PayloadInv, WorkKeepsItsExpression
<1>13. SingleInv'
  <2>1. \A t \in plan : ~OtherExpression(t)'
    BY <1>2, <1>3, <1>7, <1>9 DEF SingleInv, OtherExpression, RowOf
  <2>2. \A t \in plan \cup skipped : t \in run.input /\ Readable(t) /\ Rivals(t) = {t}
    BY <1>2, <1>9 DEF SingleInv
  <2>3. \A t : Rivals(t)' = Rivals(t)
    BY <1>10 DEF Rivals
  <2>4. plan \cap skipped = {}
    BY <1>2, <1>9 DEF SingleInv
  <2>5. QED
    BY <1>10, <2>1, <2>2, <2>3, <2>4 DEF SingleInv
<1>14. CoverInv'
  <2>1. \A t \in run.skipped : Served(t)'
    BY <1>2, <1>3, <1>7, <1>8, <1>10 DEF CoverInv, Served, RowOf, Result
  <2>2. RowOf(s)' = row /\ Result(s)' = Result(s)
    BY <1>7, <1>10 DEF RowOf, Result
  <2>3. Served(s)'
    BY <1>6, <1>8, <2>2 DEF Served
  <2>4. \A t \in Source : Reported(t) => Reported(t)'
    BY <1>8, <1>10 DEF Reported
  <2>5. ASSUME NEW t \in run'.input \cup run'.withheld
        PROVE  t \in run'.failed \cup run'.plan \cup run'.skipped \/ Reported(t)'
    <3>1. t \in Source /\ (t \in run.failed \cup run.plan \cup run.skipped \/ Reported(t))
      BY <1>2, <1>10, <2>5 DEF CoverInv, BatchRun
    <3>2. QED
      BY <1>9, <1>10, <2>4, <3>1
  <2>6. QED
    BY <1>9, <1>10, <2>1, <2>3, <2>5 DEF CoverInv
<1>15. RecordInv' /\ RetriesInv'
  BY <1>2, <1>10 DEF RecordInv, RetriesInv
<1>16. QED
  BY <1>10, <1>11, <1>12, <1>13, <1>14, <1>15

----------------------------------------------------------------------------
\* The end of a batch

LEMMA PublicationEnds ==
  ASSUME BatchInv, AllPublished
  PROVE  BatchInv'
<1> USE DEF BatchInv
<1>1. /\ run' = [run EXCEPT !.at = "resolve"] /\ run.at = "publish" /\ run.plan = {}
      /\ UNCHANGED <<rows, graph, owners, quarantined, abandoned>>
  BY DEF AllPublished, state
<1>2. /\ run' \in BatchRun /\ run'.source = run.source /\ run'.retries = run.retries
      /\ run'.failed = run.failed /\ run'.at = "resolve" /\ run'.owner = run.owner
      /\ run'.input = run.input
      /\ run'.withheld = run.withheld /\ run'.started = run.started /\ run'.plan = run.plan
      /\ run'.skipped = run.skipped /\ run'.candidates = run.candidates
  BY <1>1 DEF BatchRun, Phase
<1>3. Planned /\ Planned' /\ run.source = Nothing /\ run.retries = {} /\ run.failed = {}
  BY <1>1, <1>2 DEF Planned, Phase, RecordInv, RetriesInv
<1>4. BatchTypeOK' /\ PayloadInv' /\ WorkKeepsItsExpression'
  BY <1>1, <1>2, WorksAtRest DEF BatchTypeOK
<1>5. SingleInv' /\ \A t \in run'.skipped : Served(t)'
  BY <1>1, <1>2, <1>3, PlanGoesOn
<1>6. \A t \in Source : Reported(t) => Reported(t)'
  BY <1>1, <1>2 DEF Reported
<1>7. CoverInv'
  BY <1>1, <1>2, <1>3, <1>5, <1>6 DEF CoverInv, BatchRun
<1>8. RecordInv' /\ RetriesInv'
  BY <1>1, <1>2, <1>3 DEF RecordInv, RetriesInv
<1>9. QED
  BY <1>2, <1>4, <1>5, <1>7, <1>8

LEMMA SuccessBegins ==
  ASSUME BatchInv, NEW s \in Source, BeginSuccess(s)
  PROVE  BatchInv'
<1> USE DEF BatchInv
<1>1. PICK r \in SUBSET Source, u \in SUBSET Source :
        /\ r = Retryable(s) /\ u = run.started \cup r
        /\ run' = [run EXCEPT !.source = s, !.retries = r, !.started = u]
        /\ quarantined' = quarantined \ r
  <2>1. Retryable(s) \in SUBSET Source /\ run.started \cup Retryable(s) \in SUBSET Source
    BY RetryableOfSource DEF BatchRun
  <2>2. QED
    BY <2>1 DEF BeginSuccess, BeginRetries
<1>2. /\ run' \in BatchRun /\ run'.source = s /\ run'.retries = r /\ run'.started = u
      /\ run'.at = run.at /\ run'.owner = run.owner /\ run'.input = run.input
      /\ run'.withheld = run.withheld /\ run'.failed = run.failed /\ run'.plan = run.plan
      /\ run'.skipped = run.skipped /\ run'.candidates = run.candidates
  BY <1>1 DEF BatchRun
<1>3. run.at = "resolve" /\ s \in run.skipped /\ s # Nothing /\ Planned /\ Planned'
  BY <1>2, DebateConstants DEF BeginSuccess, Planned, Phase
<1>4. UNCHANGED <<rows, graph, owners, abandoned>>
  BY DEF BeginSuccess, BeginRetries
<1>5. BatchTypeOK' /\ PayloadInv' /\ WorkKeepsItsExpression'
  BY <1>1, <1>2, <1>4, WorksAtRest DEF BatchTypeOK
<1>6. SingleInv' /\ \A t \in run'.skipped : Served(t)'
  BY <1>2, <1>3, <1>4, PlanGoesOn
<1>7. \A t \in Source : Reported(t) => Reported(t)'
  BY <1>1, <1>2, RetryableOfSource DEF Reported
<1>8. CoverInv'
  BY <1>2, <1>3, <1>6, <1>7 DEF CoverInv, BatchRun
<1>9. Readable(s)
  BY <1>3 DEF SingleInv
<1>10. \A q \in r : WorkOf[q] = WorkOf[s]
  BY <1>1, <1>9, RetryableOfSource
<1>11. RecordInv' /\ RetriesInv'
  BY <1>2, <1>3, <1>10 DEF RecordInv, RetriesInv
<1>12. QED
  BY <1>2, <1>5, <1>6, <1>8, <1>11

LEMMA BatchEnds ==
  ASSUME BatchInv, Resolve \/ Finish
  PROVE  BatchInv'
<1> USE DEF BatchInv
<1>1. /\ run.at = "resolve" /\ Planned
      /\ UNCHANGED <<rows, graph, owners, quarantined, abandoned>>
  BY DEF Resolve, Finish, state, Planned, Phase
<1>2. /\ run' \in BatchRun /\ run'.source = Nothing /\ run'.retries = {}
      /\ run'.at \in {"resolve", "finished"}
      /\ run'.failed = run.failed /\ run'.owner = run.owner /\ run'.input = run.input
      /\ run'.withheld = run.withheld /\ run'.started = run.started /\ run'.plan = run.plan
      /\ run'.skipped = run.skipped /\ run'.candidates = run.candidates
  <2>1. CASE Resolve
    BY <2>1, <1>1 DEF Resolve, BatchRun
  <2>2. CASE Finish
    <3>1. run.retries = {} /\ run.source = Nothing /\ run' = [run EXCEPT !.at = "finished"]
      BY <2>2 DEF Finish, RetriesInv
    <3>2. QED
      BY <3>1 DEF BatchRun, Phase
  <2>3. QED
    BY <2>1, <2>2
<1>3. BatchTypeOK' /\ PayloadInv' /\ WorkKeepsItsExpression'
  BY <1>1, <1>2, WorksAtRest DEF BatchTypeOK
<1>4. SingleInv' /\ \A t \in run'.skipped : Served(t)'
  BY <1>1, <1>2, PlanGoesOn
<1>5. \A t \in Source : Reported(t) => Reported(t)'
  BY <1>1, <1>2 DEF Reported
<1>6. CoverInv'
  BY <1>1, <1>2, <1>4, <1>5 DEF CoverInv, BatchRun
<1>7. RecordInv' /\ RetriesInv'
  BY <1>1, <1>2 DEF RecordInv, RetriesInv
<1>8. QED
  BY <1>2, <1>3, <1>4, <1>6, <1>7

\* Whatever goes wrong, the Works are as they were, but for a PUT that was
\* applied without an answer or a graph that is lost.
LEMMA BatchBreaksOff ==
  ASSUME BatchInv, Fail \/ BatchCrash \/ \E w \in Work : GraphLost(w)
  PROVE  BatchInv'
<1> USE DEF BatchInv
<1>1. run' = NoRun /\ UNCHANGED <<rows, owners>>
  BY DEF Fail, BatchCrash, GraphLost
<1>2. run' \in BatchRun /\ SingleInv' /\ CoverInv' /\ RecordInv' /\ RetriesInv'
  BY <1>1, NoBatchIsRunning
<1>3. quarantined' \subseteq Source /\ abandoned' \subseteq Source
  BY DEF Fail, BatchCrash, GraphLost, BatchTypeOK, BatchRun
<1>4. graph' \in [Work -> Payload \cup {Nothing}] /\ PayloadInv' /\ WorkKeepsItsExpression'
  <2>1. CASE graph' = graph
    BY <1>1, <2>1, WorksAtRest DEF BatchTypeOK
  <2>2. CASE run.at = "put" /\ graph' = [graph EXCEPT ![WorkOf[run.source]] =
                                           RowOf(run.source).pending]
    BY <1>1, <2>2, GraphAsPending
  <2>3. CASE \E w \in Work : GraphLost(w)
    <3>1. PICK w \in Work : graph' = [graph EXCEPT ![w] = Nothing]
      BY <2>3 DEF GraphLost
    <3>2. /\ graph' \in [Work -> Payload \cup {Nothing}]
          /\ graph'[w] = Nothing /\ \A v \in Work \ {w} : graph'[v] = graph[v]
      BY <3>1 DEF BatchTypeOK
    <3>3. QED
      BY <1>1, <3>2 DEF PayloadInv, WorkKeepsItsExpression
  <2>4. QED
    BY <2>1, <2>2, <2>3 DEF Fail, BatchCrash
<1>5. BatchTypeOK'
  BY <1>1, <1>2, <1>3, <1>4 DEF BatchTypeOK, BatchRun, Phase
<1>6. QED
  BY <1>2, <1>4, <1>5

\* The owners change between batches only.
LEMMA OwnersChange ==
  ASSUME BatchInv, OwnerStaged \/ OwnerPublished
  PROVE  BatchInv'
<1> USE DEF BatchInv
<1>1. UNCHANGED <<rows, graph, quarantined, abandoned, run>>
  BY DEF OwnerStaged, OwnerPublished, state
<1>2. owners' \in [edition : Edition, clean : BOOLEAN]
      /\ (~owners'.clean => owners'.edition < MaxOwners)
  <2>1. owners \in [edition : 0..MaxOwners, clean : BOOLEAN]
    BY DEF BatchTypeOK, Edition
  <2>2. CASE OwnerStaged
    BY <2>1, <2>2 DEF OwnerStaged, Edition
  <2>3. CASE OwnerPublished
    <3>1. owners.edition \in 0..MaxOwners /\ owners.edition < MaxOwners
      BY <2>1, <2>3 DEF OwnerPublished, BatchTypeOK
    <3>2. owners.edition + 1 \in 0..MaxOwners
      BY <3>1, EditionsAreCounted
    <3>3. owners' = [edition |-> owners.edition + 1, clean |-> TRUE]
      BY <2>3 DEF OwnerPublished
    <3>4. QED
      BY <3>2, <3>3 DEF Edition
  <2>4. QED
    BY <2>2, <2>3
<1>3. BatchTypeOK' /\ run' \in BatchRun
  BY <1>1, <1>2 DEF BatchTypeOK
<1>4. PayloadInv' /\ WorkKeepsItsExpression'
  BY <1>1, WorksAtRest
<1>5. SingleInv' /\ CoverInv'
  BY <1>1 DEF SingleInv, CoverInv, Planned, Rivals, OtherExpression, RowOf, Served, Result, Reported
<1>6. RecordInv' /\ RetriesInv'
  BY <1>1 DEF RecordInv, RetriesInv, RowOf, Result
<1>7. QED
  BY <1>3, <1>4, <1>5, <1>6

----------------------------------------------------------------------------
LEMMA BatchInvHolds == BatchSpec => []BatchInv
<1>1. BatchInit => BatchInv
  <2>1. SUFFICES ASSUME BatchInit PROVE BatchInv
    OBVIOUS
  <2>2. \A w \in Work : rows[w] = NoRow /\ graph[w] = Nothing
    BY <2>1 DEF BatchInit
  <2>3. BatchTypeOK /\ run \in BatchRun
    BY <2>1, DebateConstants, EditionsAreCounted
       DEF BatchInit, BatchTypeOK, Edition, BatchRun, NoRow
  <2>4. PayloadInv /\ WorkKeepsItsExpression
    BY <2>2 DEF PayloadInv, WorkKeepsItsExpression, NoRow
  <2>5. SingleInv /\ CoverInv /\ RecordInv /\ RetriesInv
    BY <2>1, DebateConstants
       DEF BatchInit, SingleInv, CoverInv, RecordInv, RetriesInv, Planned
  <2>6. QED
    BY <2>3, <2>4, <2>5 DEF BatchInv
<1>2. BatchInv /\ [BatchNext]_batchVars => BatchInv'
  <2>1. SUFFICES ASSUME BatchInv, [BatchNext]_batchVars PROVE BatchInv'
    OBVIOUS
  <2>2. CASE UNCHANGED batchVars
    <3>1. UNCHANGED <<owners, rows, graph, quarantined, abandoned, run>>
      BY <2>2 DEF batchVars, state
    <3>2. QED
      BY <2>1, <3>1 DEF BatchInv, BatchTypeOK, PayloadInv, WorkKeepsItsExpression, SingleInv,
         CoverInv, Planned, Rivals, OtherExpression, RowOf, Served, Result, Reported, RecordInv,
         RetriesInv
  <2>3. CASE BatchNext
    BY <2>1, <2>3, BatchStarts, BatchIsPlanned, FailureBegins, FailureIsRecorded,
       FailuresAreRecorded, WorkIsMarked, WorkIsPut, WorkIsCompleted, PublicationEnds,
       SuccessBegins, BatchEnds, BatchBreaksOff, OwnersChange
       DEF BatchNext, StartByHand, StartFromInventory
  <2>4. QED
    BY <2>1, <2>2, <2>3
<1>3. QED
  BY <1>1, <1>2, PTL DEF BatchSpec

\* Rows, graphs, quarantines and owners keep their types, and a row is dirty
\* exactly while it has a pending payload.
THEOREM DebatesTypeCorrect == BatchSpec => []BatchTypeOK
<1>1. BatchInv => BatchTypeOK
  BY DEF BatchInv
<1>2. QED
  BY <1>1, BatchInvHolds, PTL

\* No Work is ever published from two Expressions, for any documents, any
\* batches of them, any inventory and any number of failures.
THEOREM OneExpression == BatchSpec => []WorkKeepsItsExpression
<1>1. BatchInv => WorkKeepsItsExpression
  BY DEF BatchInv
<1>2. QED
  BY <1>1, BatchInvHolds, PTL

\* When a batch ends, each of its records is served as of the owners it read,
\* or has been reported.
THEOREM BatchIsServed == BatchSpec => []FinishedBatchIsServed
<1>1. BatchInv => FinishedBatchIsServed
  BY DEF BatchInv, FinishedBatchIsServed, CoverInv, RecordInv, Planned, Phase, Served, Reported
<1>2. QED
  BY <1>1, BatchInvHolds, PTL

\* A quarantine ends only with its Work published and clean: the retries that
\* Resolve ends are of the Work of a source the batch serves, and every other
\* step keeps a retry or puts it back.
THEOREM RetriesEndPublished == BatchSpec => ResolvedWasPublished
<1> DEFINE Kept(q) ==
      \/ q \in quarantined' \cup abandoned' \cup run'.retries
      \/ /\ WorkOf[q] # Nothing
         /\ rows[WorkOf[q]].state = "clean"
         /\ graph[WorkOf[q]] = rows[WorkOf[q]].published
<1>1. ASSUME BatchInv, [BatchNext]_batchVars,
             NEW q \in quarantined \cup abandoned \cup run.retries
      PROVE  Kept(q)
  <2> USE DEF BatchInv
  <2>1. CASE Resolve
    <3>1. PICK s \in run.skipped : s = run.source
      BY <1>1, <2>1 DEF Resolve, RecordInv
    <3>2. Served(s) /\ Readable(s)
      BY <1>1, <2>1 DEF Resolve, CoverInv, SingleInv, Planned, Phase
    <3>3. CASE q \in run.retries
      <4>1. WorkOf[q] = WorkOf[s]
        BY <1>1, <2>1, <3>1, <3>3 DEF Resolve, RetriesInv
      <4>2. QED
        BY <3>2, <4>1 DEF Served, RowOf, Readable
    <3>4. CASE q \notin run.retries
      BY <1>1, <2>1, <3>4 DEF Resolve, state
    <3>5. QED
      BY <3>3, <3>4
  <2>2. CASE run'.retries = run.retries /\ quarantined \subseteq quarantined' /\ abandoned \subseteq abandoned'
    BY <1>1, <2>2
  <2>3. CASE \E s \in Source : BeginFailure(s) \/ BeginSuccess(s)
    <3>1. PICK s \in Source : BeginRetries(s)
      BY <2>3 DEF BeginFailure, BeginSuccess
    <3>2. /\ quarantined' = quarantined \ Retryable(s) /\ abandoned' = abandoned
          /\ run'.retries = Retryable(s) /\ run.retries = {}
      BY <1>1, <3>1 DEF BeginRetries, RetriesInv, BatchRun
    <3>3. QED
      BY <1>1, <3>2
  <2>4. CASE Fail \/ BatchCrash \/ RecordFailure
    BY <1>1, <2>4 DEF Fail, BatchCrash, RecordFailure
  <2>5. ASSUME \/ \E w \in Work : GraphLost(w)
               \/ \E sources, withheld : Start(sources, withheld)
        PROVE  Kept(q)
    <3>1. run.retries = {} /\ UNCHANGED <<quarantined, abandoned>>
      BY <1>1, <2>5 DEF GraphLost, Start, Resting, RetriesInv, state
    <3>2. QED
      BY <1>1, <3>1
  <2>6. CASE \/ Plan \/ FailuresRecorded \/ Put \/ Complete \/ AllPublished \/ Finish
             \/ OwnerStaged \/ OwnerPublished \/ UNCHANGED batchVars
             \/ \E s \in Source : Mark(s)
    <3>1. run'.retries = run.retries /\ UNCHANGED <<quarantined, abandoned>>
      BY <1>1, <2>6 DEF Plan, FailuresRecorded, Put, Complete, AllPublished, Finish, OwnerStaged,
         OwnerPublished, Mark, batchVars, state, BatchRun
    <3>2. QED
      BY <2>2, <3>1
  <2>7. ASSUME \/ \E sources \in SUBSET Source : StartByHand(sources)
               \/ \E i \in 1..Len(Manifest) : StartFromInventory(i)
        PROVE  \E sources, withheld : Start(sources, withheld)
    BY <2>7 DEF StartByHand, StartFromInventory
  <2>8. QED
    BY <1>1, <2>1, <2>3, <2>4, <2>5, <2>6, <2>7 DEF BatchNext
<1>2. BatchInv /\ [BatchNext]_batchVars => [\A q \in quarantined \cup abandoned \cup run.retries : Kept(q)]_batchVars
  BY <1>1
<1>3. QED
  BY <1>2, BatchInvHolds, PTL DEF BatchSpec, ResolvedWasPublished

(***************************************************************************)
(* IncrementalRefresh, for any bills, overlap, lag and bounds.             *)
(***************************************************************************)
USE TimeBounds, OverlapCoversLag

\* The record of a bill the API does not know is a record.
LEMMA NoRecordType == NoRecord \in Record /\ 0 \in Time /\ 1 \in Time
BY DEF Record, NoRecord, Time

LEMMA TypeInit == Init => TypeOK
<1> SUFFICES ASSUME Init PROVE TypeOK
  OBVIOUS
<1> USE DEF Init
<1>1. [b \in Bill |-> NoRecord] \in [Bill -> Record]
  BY NoRecordType
<1>2. [b \in Bill |-> 0] \in [Bill -> Time]
  BY NoRecordType
<1>3. source \in [Bill -> Record] /\ batch \in [Bill -> Record] /\ published \in [Bill -> Time]
  BY <1>1, <1>2
<1>4. complete \in BOOLEAN /\ degraded \in BOOLEAN
  BY Zenon
<1>5. now \in Time /\ faults \in 0..MaxFaults
  BY DEF Time
<1>6. cursor <= now /\ staged <= now /\ upper <= now /\ window \in Int
  OBVIOUS
<1>7. cursor \in Time /\ staged \in Time /\ upper \in Time
  BY NoRecordType
<1>8. /\ waiting \subseteq Bill /\ stranded \subseteq Bill /\ retries \subseteq Bill
      /\ todo \subseteq Bill /\ work \subseteq Bill
      /\ pc \in {"idle", "fetch", "examine", "finalize"}
  OBVIOUS
<1> QED
  BY <1>3, <1>4, <1>5, <1>6, <1>7, <1>8 DEF TypeOK

\* What the end of a run, whatever its outcome, does to the run's variables.
LEMMA IdleType ==
  ASSUME TypeOK, Idle
  PROVE  /\ upper' = 0 /\ upper' \in Time /\ pc' = "idle"
         /\ retries' = {} /\ todo' = {} /\ work' = {}
         /\ complete' \in BOOLEAN /\ degraded' \in BOOLEAN /\ window' \in Int
         /\ batch' \in [Bill -> Record]
<1>1. [b \in Bill |-> NoRecord] \in [Bill -> Record]
  BY NoRecordType
<1>2. batch' \in [Bill -> Record]
  BY <1>1 DEF Idle
<1>3. complete' \in BOOLEAN /\ degraded' \in BOOLEAN
  BY Zenon DEF Idle
<1>4. upper' = 0 /\ window' \in Int
  BY DEF Idle
<1>5. pc' = "idle" /\ retries' = {} /\ todo' = {} /\ work' = {}
  BY DEF Idle
<1> QED
  BY <1>2, <1>3, <1>4, <1>5, NoRecordType

\* Types are kept by every step.
LEMMA TypeStep == TypeOK /\ [Next]_vars => TypeOK'
<1> SUFFICES ASSUME TypeOK, [Next]_vars PROVE TypeOK'
  OBVIOUS
<1> USE DEF TypeOK, Time, worldVars, stateVars, runVars, Fault
<1>1. CASE Tick
  BY <1>1 DEF Tick
<1>2. ASSUME NEW b \in Bill, NEW t \in Time, NEW g \in BOOLEAN, Update(b, t, g) PROVE TypeOK'
  BY <1>2 DEF Update, Record
<1>3. ASSUME NEW full \in BOOLEAN, StartRun(full) PROVE TypeOK'
  BY <1>3 DEF StartRun, Window
<1>4. CASE Fetch
  BY <1>4, NoRecordType DEF Fetch, Selected
<1>5. ASSUME NEW b \in Bill, StartRetry(b) PROVE TypeOK'
  BY <1>5 DEF StartRetry
<1>6. ASSUME NEW b \in Bill, Transform(b) PROVE TypeOK'
  BY <1>6 DEF Transform
<1>7. ASSUME NEW b \in Bill, Quarantine(b) PROVE TypeOK'
  BY <1>7 DEF Quarantine
<1>8. ASSUME NEW b \in Bill, Publish(b) PROVE TypeOK'
  BY <1>8 DEF Publish, Record
<1>9. CASE FinishRetries
  BY <1>9 DEF FinishRetries
<1>10. CASE ReplayStaged
  BY <1>10 DEF ReplayStaged
<1>11. CASE FinishRun
  BY <1>11, IdleType DEF FinishRun, NextCursor
<1>12. CASE DieStaged
  BY <1>12, IdleType DEF DieStaged
<1>13. CASE FailRun
  BY <1>13, IdleType DEF FailRun
<1>14. CASE Crash
  BY <1>14, IdleType DEF Crash
<1>15. CASE UNCHANGED vars
  BY <1>15 DEF vars
<1> QED
  BY <1>1, <1>2, <1>3, <1>4, <1>5, <1>6, <1>7, <1>8, <1>9, <1>10, <1>11, <1>12, <1>13,
     <1>14, <1>15 DEF Next, Run

\* Every column and every variable of the run keeps its type; no boundary,
\* cursor or staged cursor runs ahead of the clock.
THEOREM TypeCorrect == Spec => []TypeOK
BY TypeInit, TypeStep, PTL DEF Spec

----------------------------------------------------------------------------
\* Reach, the part of IInv besides the types, is kept by every action.

LEMMA ReachInit == Init => Reach
BY NoRecordType DEF Init, Reach, NoUpdateSlips, BoundaryInv, StagedInv, ScanInv, PhaseInv,
     Behind, NoRecord

\* A late update is late by at most the lag, so it is inside every overlap.
LEMMA ReachUpdate ==
  ASSUME TypeOK, Reach, NEW b \in Bill, NEW t \in Time, NEW g \in BOOLEAN, Update(b, t, g)
  PROVE  Reach'
<1> USE DEF Update, stateVars, runVars, Behind, Time
<1> DEFINE new == [time |-> t, good |-> g]
<1>1. /\ source' = [source EXCEPT ![b] = new] /\ source'[b].time = t /\ t > source[b].time
      /\ t >= now - Overlap /\ source[b].time \in Int
      /\ \A c \in Bill \ {b} : source'[c] = source[c]
  BY DEF TypeOK, Record
<1>2. /\ cursor <= now /\ staged <= now /\ upper <= now
      /\ cursor \in Int /\ staged \in Int /\ upper \in Int /\ now \in Int /\ t \in Int
      /\ \A c \in Bill : source[c].time \in Int /\ published[c] \in Int
  BY DEF TypeOK, Record
<1>3. NoUpdateSlips'
  BY <1>1, <1>2 DEF Reach, NoUpdateSlips
<1>4. StagedInv'
  BY <1>1, <1>2 DEF Reach, StagedInv
<1>5. ScanInv'
  BY <1>1, <1>2 DEF Reach, ScanInv
<1>6. BoundaryInv' /\ PhaseInv'
  BY DEF Reach, BoundaryInv, PhaseInv
<1> QED
  BY <1>3, <1>4, <1>5, <1>6 DEF Reach

LEMMA ReachStart ==
  ASSUME TypeOK, Reach, NEW full \in BOOLEAN, StartRun(full)
  PROVE  Reach'
<1> USE DEF StartRun, worldVars, stateVars, Behind
<1>1. NoUpdateSlips' /\ StagedInv'
  BY DEF Reach, NoUpdateSlips, StagedInv
<1>2. BoundaryInv'
  BY DEF Reach, BoundaryInv, Window, TypeOK, Time
<1>3. ScanInv' /\ PhaseInv'
  BY DEF Reach, ScanInv, PhaseInv
<1> QED
  BY <1>1, <1>2, <1>3 DEF Reach

\* What the query leaves out is published, or lies within the next overlap.
LEMMA ReachFetch ==
  ASSUME TypeOK, Reach, Fetch
  PROVE  Reach'
<1> USE DEF Fetch, worldVars, stateVars, Behind
<1>1. NoUpdateSlips' /\ StagedInv'
  BY DEF Reach, NoUpdateSlips, StagedInv
<1>2. BoundaryInv' /\ PhaseInv'
  BY DEF Reach, BoundaryInv, PhaseInv
<1>3. /\ cursor <= upper /\ (window <= 0 \/ window <= cursor - Overlap) /\ work = {}
      /\ cursor \in Int /\ upper \in Int /\ window \in Int /\ Overlap \in Nat
  BY DEF Reach, BoundaryInv, PhaseInv, TypeOK, Time
<1>4. \A b \in Bill : /\ source[b].time \in Int /\ published[b] \in Int
                      /\ source[b].time >= 0 /\ published[b] >= 0
  BY DEF TypeOK, Time, Record
<1>5. \A b \in todo' \cup work' : b \in Selected /\ batch'[b] = source[b]
  BY <1>3 DEF Selected
<1>6. ASSUME NEW b \in Bill, published[b] < source[b].time,
             source[b].time < upper - Overlap
      PROVE  b \in todo' /\ batch'[b] = source[b]
  <2>1. source[b].time > 0 /\ source[b].time <= upper
    BY <1>3, <1>4, <1>6
  <2>2. source[b].time >= cursor - Overlap
    BY <1>6 DEF Reach, NoUpdateSlips
  <2>3. b \in Selected
    BY <1>3, <1>4, <2>1, <2>2 DEF Selected
  <2> QED
    BY <2>3
<1>7. ScanInv'
  BY <1>4, <1>5, <1>6 DEF ScanInv, Selected
<1> QED
  BY <1>1, <1>2, <1>7 DEF Reach

\* Retrying, transforming and quarantining only move a bill between the
\* run's hands; what they take out of them degrades the run.
LEMMA ReachExamine ==
  ASSUME TypeOK, Reach, NEW b \in Bill, StartRetry(b) \/ Transform(b) \/ Quarantine(b)
  PROVE  Reach'
<1> USE DEF StartRetry, Transform, Quarantine, worldVars, stateVars, Behind
<1>1. NoUpdateSlips' /\ StagedInv'
  BY DEF Reach, NoUpdateSlips, StagedInv
<1>2. BoundaryInv' /\ PhaseInv'
  BY DEF Reach, BoundaryInv, PhaseInv
<1>3. /\ UNCHANGED <<source, published, upper, batch>>
      /\ pc = "examine" /\ pc' = "examine"
  OBVIOUS
<1>4. \/ todo' \cup work' = todo \cup work /\ degraded' = degraded
      \/ todo' \cup work' \subseteq todo \cup work /\ degraded' = TRUE
  <2>1. CASE StartRetry(b)
    BY <2>1
  <2>2. CASE Transform(b)
    BY <2>2
  <2>3. CASE Quarantine(b)
    BY <2>3
  <2> QED
    BY <2>1, <2>2, <2>3
<1>5. ScanInv'
  BY <1>3, <1>4 DEF Reach, ScanInv
<1> QED
  BY <1>1, <1>2, <1>5 DEF Reach

\* A bill is published as it was fetched: current, or updated since within
\* the overlap.
LEMMA ReachPublish ==
  ASSUME TypeOK, Reach, NEW b \in Bill, Publish(b)
  PROVE  Reach'
<1> USE DEF Publish, worldVars, Behind
<1>1. /\ published' = [published EXCEPT ![b] = batch[b].time]
      /\ b \in work /\ work' = work \ {b} /\ pc = "examine"
      /\ UNCHANGED <<source, cursor, staged, upper, window, batch, todo, degraded, pc>>
  OBVIOUS
<1>2. /\ cursor \in Int /\ staged \in Int /\ upper \in Int /\ Overlap \in Int
      /\ cursor <= upper /\ staged <= upper
      /\ \A c \in Bill : /\ source[c].time \in Int /\ published[c] \in Int
                         /\ batch[c].time \in Int
  BY <1>1 DEF TypeOK, Time, Record, Reach, BoundaryInv
<1>3. published'[b] = batch[b].time /\ \A c \in Bill \ {b} : published'[c] = published[c]
  BY <1>1 DEF TypeOK
<1>4. batch[b] = source[b] \/ source[b].time >= upper - Overlap
  BY <1>1 DEF Reach, ScanInv
<1>5. NoUpdateSlips' /\ StagedInv'
  BY <1>1, <1>2, <1>3, <1>4 DEF Reach, NoUpdateSlips, StagedInv
<1>6. BoundaryInv' /\ PhaseInv'
  BY <1>1 DEF Reach, BoundaryInv, PhaseInv
<1>7. ScanInv'
  BY <1>1, <1>2, <1>3, <1>4 DEF Reach, ScanInv
<1> QED
  BY <1>5, <1>6, <1>7 DEF Reach

\* A run about to end well has nothing in its hands, so what is unpublished
\* lies within the overlap of its boundary.
LEMMA BoundaryIsSafe ==
  ASSUME TypeOK, Reach, pc = "finalize", ~degraded
  PROVE  \A b \in Bill : Behind(b) => source[b].time >= upper - Overlap
<1>1. todo = {} /\ work = {}
  BY DEF Reach, PhaseInv
<1>2. upper \in Int /\ \A b \in Bill : source[b].time \in Int
  BY DEF TypeOK, Time, Record
<1> QED
  BY <1>1, <1>2 DEF Reach, ScanInv

\* However a run ends, the cursor and the staged boundary are only moved to a
\* boundary behind which nothing is unpublished.
LEMMA ReachEnd ==
  ASSUME TypeOK, Reach, FinishRun \/ DieStaged \/ FailRun \/ Crash
  PROVE  Reach'
<1> USE DEF worldVars, Behind
<1>1. UNCHANGED <<source, published>> /\ Idle
  BY DEF FinishRun, DieStaged, FailRun, Crash
<1>2. PhaseInv' /\ ScanInv'
  BY <1>1 DEF Idle, PhaseInv, ScanInv
<1>3. \/ UNCHANGED <<cursor, staged>>
      \/ pc = "finalize" /\ ~degraded /\ staged = 0 /\ upper >= cursor
         /\ cursor' = upper /\ staged' = 0
      \/ pc = "finalize" /\ ~degraded /\ staged = 0 /\ upper >= cursor
         /\ staged' = upper /\ cursor' = cursor
      \/ cursor' = staged /\ staged' = 0 /\ staged # 0
  BY DEF FinishRun, DieStaged, FailRun, Crash, NextCursor, Succeeds
<1>4. \A b \in Bill : source[b].time \in Int /\ source[b].time >= 0 /\ published[b] \in Int
                      /\ published[b] >= 0
  BY DEF TypeOK, Time, Record
<1>5. Overlap \in Nat /\ cursor \in Int /\ staged \in Int /\ upper \in Int
  BY DEF TypeOK, Time
<1>6. NoUpdateSlips' /\ StagedInv'
  <2>1. CASE UNCHANGED <<cursor, staged>>
    BY <1>1, <2>1 DEF Reach, NoUpdateSlips, StagedInv
  <2>2. CASE pc = "finalize" /\ ~degraded
             /\ \/ cursor' = upper /\ staged' = 0
                \/ staged' = upper /\ cursor' = cursor
    BY <1>1, <1>4, <1>5, <2>2, BoundaryIsSafe DEF Reach, NoUpdateSlips, StagedInv
  <2>3. CASE cursor' = staged /\ staged' = 0
    BY <1>1, <1>4, <1>5, <2>3 DEF Reach, NoUpdateSlips, StagedInv
  <2> QED
    BY <1>3, <2>1, <2>2, <2>3
<1>7. BoundaryInv'
  BY <1>1, <1>3, <1>5 DEF Idle, Reach, BoundaryInv
<1> QED
  BY <1>2, <1>6, <1>7 DEF Reach

LEMMA ReachFinalize ==
  ASSUME TypeOK, Reach, FinishRetries \/ ReplayStaged
  PROVE  Reach'
<1> USE DEF FinishRetries, ReplayStaged, worldVars, stateVars, runVars, Behind
<1>1. \A b \in Bill : source[b].time \in Int /\ source[b].time >= 0
  BY DEF TypeOK, Time, Record
<1>2. Overlap \in Nat
  OBVIOUS
<1>3. NoUpdateSlips' /\ StagedInv'
  BY <1>1, <1>2 DEF Reach, NoUpdateSlips, StagedInv
<1>4. BoundaryInv'
  BY DEF Reach, BoundaryInv, TypeOK, Time
<1>5. ScanInv' /\ PhaseInv'
  BY DEF Reach, ScanInv, PhaseInv
<1> QED
  BY <1>3, <1>4, <1>5 DEF Reach

LEMMA ReachStep == TypeOK /\ Reach /\ [Next]_vars => Reach'
<1> SUFFICES ASSUME TypeOK, Reach, [Next]_vars PROVE Reach'
  OBVIOUS
<1>1. CASE Tick \/ UNCHANGED vars
  BY <1>1 DEF Tick, vars, worldVars, stateVars, runVars, Reach, NoUpdateSlips, BoundaryInv,
       StagedInv, ScanInv, PhaseInv, Behind
<1> QED
  BY <1>1, ReachUpdate, ReachStart, ReachFetch, ReachExamine, ReachPublish, ReachFinalize,
     ReachEnd DEF Next, Run

\* No update is ever left behind the window of the next incremental run,
\* whatever the overlap, as long as it covers the lag of the API.
THEOREM NothingSlips == Spec => []NoUpdateSlips
<1>1. Init => IInv
  BY TypeInit, ReachInit DEF IInv
<1>2. IInv /\ [Next]_vars => IInv'
  BY TypeStep, ReachStep DEF IInv
<1>3. IInv => NoUpdateSlips
  BY DEF IInv, Reach
<1> QED
  BY <1>1, <1>2, <1>3, PTL DEF Spec
=============================================================================

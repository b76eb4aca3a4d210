------------------------- MODULE IncrementalRefresh -------------------------
(***************************************************************************)
(* Incremental refresh of the Bills over source time: a run fixes its upper*)
(* boundary, asks the API for everything updated since the cursor minus an *)
(* overlap, publishes what it can, quarantines what it cannot, and moves   *)
(* the cursor only after a wholly successful run.  Updates reach the API   *)
(* with a lag while runs are under way.  Publication of one bill is one    *)
(* step here (ResourcePublication refines it), and so is the end of a run  *)
(* (RunLedger), except that a finalization may be left for a later run.    *)
(***************************************************************************)
EXTENDS Integers

CONSTANTS
  Bill,
  Overlap,    \* overlap_seconds
  Lag,        \* how late an update stamped t may appear in the API after t,
              \* skew between the API's clock and the ETL's included
  MaxTime,    \* bound on time
  MaxFaults   \* bound on crashes and failures

ASSUME TimeBounds == /\ MaxTime \in Nat \ {0} /\ MaxFaults \in Nat
                     /\ Overlap \in Nat /\ Lag \in Nat
ASSUME OverlapCoversLag == Lag <= Overlap

VARIABLES
  now,
  source,     \* newest version of each bill: its last_updated time, and whether
              \* it can be transformed; time 0 for a bill that does not exist
  published,  \* last_updated time of each bill's published version
  cursor,     \* incremental_cursor, 0 for NULL
  staged,     \* upper boundary of a finalization a dead run left staged, or 0
  waiting,    \* bills with an unresolved quarantine a run may retry
  stranded,   \* bills with a quarantine whose retry a dead run left in progress
  faults,
  pc,
  complete,   \* a complete scan rather than an incremental one
  window,     \* lower boundary of the query
  upper,      \* fixed upper boundary
  batch,      \* the API's answer
  todo,       \* bills of the batch not yet examined
  work,       \* transformed bills not yet published
  retries,    \* quarantine retries this run has in progress
  degraded

worldVars == <<now, source>>
stateVars == <<published, cursor, staged, waiting, stranded>>
runVars == <<pc, complete, window, upper, batch, todo, work, retries, degraded>>
vars == <<worldVars, stateVars, faults, runVars>>

Time == 0..MaxTime
Record == [time : Time, good : BOOLEAN]
NoRecord == [time |-> 0, good |-> TRUE]

Unresolved == waiting \cup stranded \cup retries

Init ==
  /\ now = 1
  /\ source = [b \in Bill |-> NoRecord]
  /\ published = [b \in Bill |-> 0]
  /\ cursor = 0 /\ staged = 0
  /\ waiting = {} /\ stranded = {}
  /\ faults = 0
  /\ pc = "idle" /\ complete = FALSE /\ window = 0 /\ upper = 0
  /\ batch = [b \in Bill |-> NoRecord]
  /\ todo = {} /\ work = {} /\ retries = {} /\ degraded = FALSE

Fault == faults < MaxFaults /\ faults' = faults + 1

Idle == /\ pc' = "idle" /\ complete' = FALSE /\ window' = 0 /\ upper' = 0
        /\ batch' = [b \in Bill |-> NoRecord]
        /\ todo' = {} /\ work' = {} /\ retries' = {} /\ degraded' = FALSE

----------------------------------------------------------------------------
\* The source

Tick ==
  /\ now < MaxTime
  /\ now' = now + 1
  /\ UNCHANGED <<source, stateVars, faults, runVars>>

Update(b, t, g) ==
  /\ now - Lag <= t /\ t <= now
  /\ t > source[b].time
  /\ source' = [source EXCEPT ![b] = [time |-> t, good |-> g]]
  /\ UNCHANGED <<now, stateVars, faults, runVars>>

----------------------------------------------------------------------------
\* A run

\* Mutant: the query starts at the cursor.
WindowWithoutOverlap(full) == IF full THEN 0 ELSE cursor

Window(full) == IF full \/ cursor = 0 THEN 0 ELSE cursor - Overlap

StartRun(full) ==
  /\ pc = "idle"
  /\ pc' = "fetch" /\ complete' = full
  /\ window' = Window(full) /\ upper' = now
  /\ UNCHANGED <<worldVars, stateVars, faults, batch, todo, work, retries, degraded>>

\* An incremental run keeps what is stamped within its boundary.
Selected == {b \in Bill : /\ source[b].time > 0 /\ source[b].time >= window
                          /\ complete \/ source[b].time <= upper}

Fetch ==
  /\ pc = "fetch"
  /\ pc' = "examine"
  /\ batch' = [b \in Bill |-> IF b \in Selected THEN source[b] ELSE NoRecord]
  /\ todo' = Selected
  /\ UNCHANGED <<worldVars, stateVars, faults, complete, window, upper, work, retries, degraded>>

StartRetry(b) ==
  /\ pc = "examine" /\ b \in todo /\ b \in waiting
  /\ waiting' = waiting \ {b}
  /\ retries' = retries \cup {b}
  /\ UNCHANGED <<worldVars, published, cursor, staged, stranded, faults,
                 pc, complete, window, upper, batch, todo, work, degraded>>

Transform(b) ==
  /\ pc = "examine" /\ b \in todo \ waiting /\ batch[b].good
  /\ todo' = todo \ {b}
  /\ work' = work \cup {b}
  /\ UNCHANGED <<worldVars, stateVars, faults,
                 pc, complete, window, upper, batch, retries, degraded>>

\* record_quarantine; the retry of an earlier record has failed.
Quarantine(b) ==
  /\ pc = "examine" /\ b \in todo \ waiting /\ ~batch[b].good
  /\ todo' = todo \ {b}
  /\ waiting' = waiting \cup {b}
  /\ retries' = retries \ {b}
  /\ degraded' = TRUE
  /\ UNCHANGED <<worldVars, published, cursor, staged, stranded, faults,
                 pc, complete, window, upper, batch, work>>

Publish(b) ==
  /\ pc = "examine" /\ todo = {} /\ b \in work
  /\ work' = work \ {b}
  /\ published' = [published EXCEPT ![b] = batch[b].time]
  /\ UNCHANGED <<worldVars, cursor, staged, waiting, stranded, faults,
                 pc, complete, window, upper, batch, todo, retries, degraded>>

\* All is published: the retries succeeded.
FinishRetries ==
  /\ pc = "examine" /\ todo = {} /\ work = {}
  /\ pc' = "finalize"
  /\ retries' = {}
  /\ UNCHANGED <<worldVars, stateVars, faults,
                 complete, window, upper, batch, todo, work, degraded>>

\* The finalization a dead run left staged is replayed first.
ReplayStaged ==
  /\ pc = "finalize" /\ staged # 0
  /\ cursor' = staged /\ staged' = 0
  /\ UNCHANGED <<worldVars, published, waiting, stranded, faults, runVars>>

Succeeds == ~degraded /\ Unresolved = {}

\* Mutant: the cursor becomes the time at which the run ends.
NextCursorAtEnd == IF Succeeds /\ ~complete THEN now ELSE cursor

NextCursor == IF Succeeds /\ ~complete THEN upper ELSE cursor

FinishRun ==
  /\ pc = "finalize" /\ staged = 0
  /\ NextCursor >= cursor
  /\ cursor' = NextCursor
  /\ Idle
  /\ UNCHANGED <<worldVars, published, staged, waiting, stranded, faults>>

\* The process dies after staging its finalization, before applying it.
DieStaged ==
  /\ pc = "finalize" /\ staged = 0
  /\ Succeeds /\ ~complete /\ upper >= cursor
  /\ Fault
  /\ staged' = upper
  /\ Idle
  /\ UNCHANGED <<worldVars, published, cursor, waiting, stranded>>

\* _record_fatal_run: retries are recorded as failed; when publication had
\* begun a staged finalization may be replayed.
FailRun ==
  /\ pc # "idle"
  /\ Fault
  /\ waiting' = waiting \cup retries
  /\ \/ UNCHANGED <<cursor, staged>>
     \/ /\ staged # 0 /\ pc \in {"examine", "finalize"} /\ todo = {}
        /\ cursor' = staged /\ staged' = 0
  /\ Idle
  /\ UNCHANGED <<worldVars, published, stranded>>

\* The process dies: its retries stay in progress.
Crash ==
  /\ pc # "idle"
  /\ Fault
  /\ stranded' = stranded \cup retries
  /\ Idle
  /\ UNCHANGED <<worldVars, published, cursor, staged, waiting>>

----------------------------------------------------------------------------
Run ==
  \/ \E full \in BOOLEAN : StartRun(full)
  \/ Fetch
  \/ \E b \in Bill : StartRetry(b)
  \/ \E b \in Bill : Transform(b)
  \/ \E b \in Bill : Quarantine(b)
  \/ \E b \in Bill : Publish(b)
  \/ FinishRetries
  \/ ReplayStaged
  \/ FinishRun

Next ==
  \/ Run
  \/ Tick
  \/ \E b \in Bill, t \in Time, g \in BOOLEAN : Update(b, t, g)
  \/ DieStaged
  \/ FailRun
  \/ Crash

Spec == Init /\ [][Next]_vars

\* Incremental runs keep being started, and a run that nothing stops goes on.
FairSpec == Spec /\ WF_vars(Run)

----------------------------------------------------------------------------
\* Every column and variable stays in its domain; no time runs ahead.
TypeOK ==
  /\ now \in Time
  /\ source \in [Bill -> Record]
  /\ published \in [Bill -> Time]
  /\ cursor \in Time /\ staged \in Time /\ upper \in Time
  /\ waiting \subseteq Bill /\ stranded \subseteq Bill /\ retries \subseteq Bill
  /\ faults \in 0..MaxFaults
  /\ pc \in {"idle", "fetch", "examine", "finalize"}
  /\ complete \in BOOLEAN /\ degraded \in BOOLEAN
  /\ window \in Int
  /\ batch \in [Bill -> Record]
  /\ todo \subseteq Bill /\ work \subseteq Bill
  /\ cursor <= now /\ staged <= now /\ upper <= now

Behind(b) == published[b] < source[b].time

\* No update slips out of reach: whatever is not yet published is still inside
\* the window of the next incremental run, although the cursor moves while
\* updates arrive late, runs die and staged finalizations are applied later.
NoUpdateSlips ==
  \A b \in Bill : Behind(b) => source[b].time >= cursor - Overlap

\* A version that can be published is eventually published or superseded.
UpdateIsPublished ==
  \A b \in Bill, t \in Time :
    source[b] = [time |-> t, good |-> TRUE] ~> published[b] >= t \/ source[b].time > t

----------------------------------------------------------------------------
\* The parts of the inductive invariant behind NoUpdateSlips.

\* The boundary is fixed before the query is made and the cursor is behind it.
BoundaryInv ==
  /\ pc # "idle" => cursor <= upper /\ staged <= upper
  /\ staged # 0 => staged >= cursor
  /\ pc = "fetch" => window <= 0 \/ window <= cursor - Overlap

\* Updates that slip past a staged boundary are within its overlap as well.
StagedInv ==
  \A b \in Bill : Behind(b) => source[b].time >= staged - Overlap

\* What lies before the boundary's overlap and is not published is in the
\* run's hands, as fetched, or has degraded the run.
ScanInv ==
  \A b \in Bill :
    /\ pc \in {"examine", "finalize"} /\ Behind(b) /\ source[b].time < upper - Overlap =>
         \/ b \in todo \cup work /\ batch[b] = source[b]
         \/ degraded
    /\ b \in todo \cup work =>
         batch[b] = source[b] \/ source[b].time >= upper - Overlap
    /\ b \in todo \cup work => source[b].time > 0

PhaseInv == pc \in {"idle", "fetch", "finalize"} => todo = {} /\ work = {}

\* What the run holds, what its boundary promises, and what a staged boundary
\* may still move the cursor to.
Reach == NoUpdateSlips /\ BoundaryInv /\ StagedInv /\ ScanInv /\ PhaseInv

IInv == TypeOK /\ Reach
=============================================================================

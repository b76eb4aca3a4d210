--------------------------- MODULE Recovery_proofs ---------------------------
(***************************************************************************)
(* Proofs about Recovery.  One process at a time holds the lock, so what a *)
(* step read under the lock still holds at the next; what survives a crash *)
(* is tied together by the epochs: a dataset that claims the live epoch    *)
(* fits the live state, and one that may be served after a rebuild was     *)
(* asked for claims it.                                                    *)
(***************************************************************************)
EXTENDS Recovery, TLAPS

\* Who holds the lock is at work, and nobody else.
LockInv ==
  /\ lock = "run" <=> run.at # "idle"
  /\ lock = "task" <=> task.at # "idle"

\* A dataset from the live epoch fits the state st, unless that is absent; no
\* dataset is from an epoch to come.
Fits(d, st) ==
  d # NoDir =>
    /\ d.basis <= epoch
    /\ d.basis = epoch =>
         \/ st = NoState
         \/ st \in WholeState /\ \A s \in Store : Accounted(d.graphs[s], st[s])

Rebuilding == {"offline", "reconstruct", "build", "promote", "start", "verify"}
CuttingOver == {"promote", "start", "verify"}

\* A run has a payload to publish, which its PUT has stored.
RunInv ==
  /\ run.at # "idle" => live[run.store] \in Cell
  /\ run.at \in {"staged", "put"} => live[run.store].pending # None
  /\ run.at = "put" /\ dataset # NoDir /\ dataset.basis = epoch =>
       dataset.graphs[run.store] = live[run.store].pending

\* A backup holds what it has copied of the live state, as it still is.
BackupInv ==
  /\ \A i \in 1..MaxSnapshots : i > taken => snapshots[i] = NoDir
  /\ task.at = "backup" =>
       /\ live \in WholeState /\ taken < MaxSnapshots
       /\ \A s \in Store \ task.left : task.state[s] = live[s]

\* A restore stages a snapshot, which is a recovery point already.
RestoreInv ==
  task.at = "restore" =>
    /\ stage # NoDir /\ ~stage.manifest
    /\ task.state \in WholeState
    /\ \E i \in 1..MaxSnapshots : snapshots[i] = task.state
    /\ \A s \in Store \ task.left : stage.stores[s] = task.state[s]

\* An activation installs the stage; until then the state of this epoch is
\* the one that is set aside.
ActivationInv ==
  /\ task.at \in {"activate", "install"} =>
       /\ epoch < MaxEpoch
       /\ stage # NoDir /\ stage.manifest
       /\ task.state = stage.stores /\ task.state \in WholeState
  /\ task.at = "activate" => previous[task.stamp] = NoState
  /\ task.at = "install" => live = NoState /\ Fits(dataset, previous[task.stamp])

\* What a rebuild has built is the projection of the live state; the dataset
\* it may have to put back fits that state too.
RebuildInv ==
  /\ task.at \in Rebuilding => marker
  /\ task.at \in Rebuilding \ {"offline"} => wanted = epoch
  /\ task.at \in {"reconstruct", "build", "promote", "start"} => container = "down"
  /\ task.at = "build" => task.state = live
  /\ task.at \in {"build"} \cup CuttingOver =>
       /\ live \in WholeState
       /\ task.built # NoDir /\ task.built.basis = epoch
       /\ \A s \in Store \ task.left : task.built.graphs[s] = Selected(live[s])
  /\ task.at \in CuttingOver => task.left = {} /\ Fits(task.old, live)
  /\ task.at = "promote" => dataset = NoDir
  /\ task.at \in {"start", "verify"} => dataset = task.built

\* Without the marker the last state a rebuild was for is the one projected.
ServingInv ==
  /\ wanted <= epoch
  /\ ~marker /\ wanted = epoch => dataset # NoDir /\ dataset.basis = epoch

IInv ==
  /\ TypeOK
  /\ LockInv
  /\ Fits(dataset, live)
  /\ RunInv
  /\ BackupInv
  /\ RestoreInv
  /\ ActivationInv
  /\ RebuildInv
  /\ ServingInv
  /\ PassedOverIsNotServed

----------------------------------------------------------------------------
\* The values the specification starts from have their types, and a whole
\* state is not an absent one.
LEMMA Constants ==
  /\ Fresh \in Cell /\ NoFile \notin Cell
  /\ NoState \in State /\ WholeState \subseteq State /\ NoState \notin WholeState
  /\ NoDir \notin State /\ NoDir \notin Dataset /\ NoDir \notin Stage
  /\ Idle \in Task /\ Idle.at = "idle"
  /\ Resting \in [at : {"idle", "ready", "staged", "put"}, store : Store]
  /\ Resting.at = "idle"
  /\ None \in Payload
<1>1. None \in Payload
  BY BoundsAreNatural DEF None, Payload
<1>2. Fresh \in Cell /\ NoFile \notin Cell
  BY <1>1, AbsenceIsNoValue DEF Fresh, Cell
<1>3. NoState \in State /\ WholeState \subseteq State
  BY DEF NoState, State, WholeState
<1>4. NoState \notin WholeState
  BY <1>2, CoreIsAStore DEF NoState, WholeState
<1>5. NoDir \notin State /\ NoDir \notin Dataset /\ NoDir \notin Stage
  BY AbsenceIsNoValue
<1>6. Idle \in Task /\ Idle.at = "idle"
  BY <1>3, BoundsAreNatural DEF Idle, Task, Phase, Time
<1>7. /\ Resting \in [at : {"idle", "ready", "staged", "put"}, store : Store]
      /\ Resting.at = "idle"
  BY CoreIsAStore DEF Resting
<1>8. QED
  BY <1>1, <1>2, <1>3, <1>4, <1>5, <1>6, <1>7

\* A store that is opened is a cell, and one that was there is as it was.
LEMMA OpenedStore ==
  ASSUME live \in State, NEW s \in Store
  PROVE  Opened(s) \in Cell /\ (live[s] \in Cell => Opened(s) = live[s])
BY Constants DEF Opened, State

\* With no command at work, nothing is expected of one.
LEMMA TaskAtRest ==
  ASSUME BackupInv, task'.at = "idle", UNCHANGED <<snapshots, taken>>
  PROVE  BackupInv' /\ RestoreInv' /\ ActivationInv' /\ RebuildInv'
BY DEF BackupInv, RestoreInv, ActivationInv, RebuildInv, Rebuilding, CuttingOver

LEMMA RunAtRest ==
  ASSUME run'.at = "idle"
  PROVE  RunInv'
BY DEF RunInv

----------------------------------------------------------------------------
\* The pipeline

\* A run that starts makes the live state another only by creating it.
LEMMA StartRunStep ==
  ASSUME IInv, NEW s \in Store, StartRun(s)
  PROVE  IInv'
<1> USE DEF IInv
<1>1. lock = "free" /\ run.at = "idle" /\ task.at = "idle" /\ task'.at = "idle"
  BY DEF StartRun, LockInv
<1>2. Opened(s) \in Cell /\ (live[s] \in Cell => Opened(s) = live[s])
  BY OpenedStore DEF TypeOK
<1>3. live' = [live EXCEPT ![s] = [Opened(s) EXCEPT !.used = TRUE]] /\ live \in State
  BY DEF StartRun, TypeOK
<1>4. [Opened(s) EXCEPT !.used = TRUE] \in Cell
  BY <1>2 DEF Cell
<1>5. /\ live'[s] \in Cell /\ live' \in State
      /\ live'[s].published = Opened(s).published /\ live'[s].pending = Opened(s).pending
      /\ \A t \in Store \ {s} : live'[t] = live[t]
  BY <1>2, <1>3, <1>4 DEF Cell, State
<1>6. TypeOK'
  BY <1>5 DEF TypeOK, StartRun, durable, backups, fuseki, counters
<1>7. BackupInv' /\ RestoreInv' /\ ActivationInv' /\ RebuildInv'
  BY <1>1, TaskAtRest DEF StartRun, backups
<1>8. RunInv' /\ LockInv'
  BY <1>1, <1>5 DEF StartRun, RunInv, LockInv
<1>9. Fits(dataset, live)'
  <2>1. CASE live = NoState
    BY <2>1 DEF StartRun, OpenedEpoch, Fits, fuseki, TypeOK, Dataset, Epoch
  <2>2. CASE live # NoState
    <3>1. epoch' = epoch /\ dataset' = dataset
      BY <2>2 DEF StartRun, OpenedEpoch, fuseki
    <3>2. CASE live \in WholeState
      <4>1. \A t \in Store : /\ live'[t].published = live[t].published
                             /\ live'[t].pending = live[t].pending
        BY <3>2, <1>2, <1>5 DEF WholeState
      <4>2. live' \in WholeState
        BY <3>2, <1>5 DEF WholeState, State
      <4>3. QED
        BY <3>1, <4>1, <4>2, <2>2 DEF Fits, Accounted
    <3>3. CASE live \notin WholeState
      BY <3>1, <3>3, <2>2 DEF Fits
    <3>4. QED
      BY <3>2, <3>3
  <2>3. QED
    BY <2>1, <2>2
<1>10. epoch' \in {epoch, epoch + 1} /\ epoch \in Nat
  BY DEF StartRun, OpenedEpoch, TypeOK, Epoch
<1>11. ServingInv' /\ PassedOverIsNotServed'
  BY <1>10 DEF StartRun, fuseki, ServingInv, PassedOverIsNotServed, TypeOK, Epoch
<1>12. QED
  BY <1>6, <1>7, <1>8, <1>9, <1>11

\* What a run does to its store, and to the dataset, keeps them together.
LEMMA StagePayloadStep ==
  ASSUME IInv, StagePayload
  PROVE  IInv'
<1> USE DEF IInv
<1>1. /\ lock = "run" /\ run.at = "ready" /\ task.at = "idle" /\ task'.at = "idle"
      /\ run.store \in Store /\ live[run.store] \in Cell
  BY DEF StagePayload, LockInv, RunInv, TypeOK
<1>2. run' = [run EXCEPT !.at = "staged"] /\ run'.store = run.store /\ run'.at = "staged"
  BY DEF StagePayload, TypeOK
<1>3. PICK n \in Payload \ {None} :
        /\ live' = [live EXCEPT ![run.store] = [@ EXCEPT !.pending = n]]
        /\ live[run.store].pending \in {None, n}
        /\ writes' \in Payload
  <2>1. CASE live[run.store].pending # None /\ UNCHANGED <<live, writes>>
    <3>1. live[run.store] = [live[run.store] EXCEPT !.pending = live[run.store].pending]
      BY <1>1 DEF Cell
    <3>2. QED
      BY <1>1, <2>1, <3>1 DEF TypeOK, Cell, State
  <2>2. CASE /\ live[run.store].pending = None /\ writes < MaxWrites /\ writes' = writes + 1
             /\ live' = [live EXCEPT ![run.store] = [@ EXCEPT !.pending = writes + 1]]
    <3>1. writes + 1 \in Payload \ {None} /\ writes' \in Payload
      BY <2>2, BoundsAreNatural DEF TypeOK, Payload, None
    <3>2. QED
      BY <2>2, <3>1
  <2>3. QED
    BY <2>1, <2>2 DEF StagePayload
<1>4. /\ live'[run.store] \in Cell /\ live' \in State
      /\ live'[run.store].published = live[run.store].published
      /\ live'[run.store].pending = n
      /\ \A t \in Store \ {run.store} : live'[t] = live[t]
  BY <1>1, <1>3 DEF Cell, State, TypeOK
<1>5. TypeOK'
  BY <1>2, <1>3, <1>4 DEF TypeOK, StagePayload, backups, fuseki
<1>6. BackupInv' /\ RestoreInv' /\ ActivationInv' /\ RebuildInv'
  BY <1>1, TaskAtRest DEF StagePayload, backups
<1>7. RunInv' /\ LockInv'
  BY <1>1, <1>2, <1>4 DEF StagePayload, RunInv, LockInv
<1>8. Fits(dataset, live)'
  <2>1. epoch' = epoch /\ dataset' = dataset
    BY DEF StagePayload, fuseki
  <2>2. live # NoState
    BY <1>1, Constants DEF NoState
  <2>3. live \in WholeState => live' \in WholeState
    BY <1>4 DEF WholeState, State
  <2>4. \A t \in Store : \A x : Accounted(x, live[t]) => Accounted(x, live'[t])
    BY <1>3, <1>4 DEF Accounted
  <2>5. QED
    BY <2>1, <2>2, <2>3, <2>4 DEF Fits
<1>9. ServingInv' /\ PassedOverIsNotServed'
  BY DEF StagePayload, fuseki, ServingInv, PassedOverIsNotServed
<1>10. QED
  BY <1>5, <1>6, <1>7, <1>8, <1>9

LEMMA PutStep ==
  ASSUME IInv, Put
  PROVE  IInv'
<1> USE DEF IInv
<1>1. /\ lock = "run" /\ run.at = "staged" /\ task.at = "idle" /\ task'.at = "idle"
      /\ run.store \in Store /\ live[run.store] \in Cell
      /\ dataset \in Dataset /\ live[run.store].pending # None
  BY DEF Put, LockInv, RunInv, TypeOK
<1>2. /\ dataset' \in Dataset /\ dataset'.basis = dataset.basis
      /\ dataset'.graphs = [dataset.graphs EXCEPT ![run.store] = live[run.store].pending]
  BY <1>1 DEF Put, Dataset, Cell
<1>3. TypeOK'
  BY <1>1, <1>2 DEF TypeOK, Put, durable, backups, counters
<1>4. BackupInv' /\ RestoreInv' /\ ActivationInv' /\ RebuildInv'
  BY <1>1, TaskAtRest DEF Put, backups
<1>5. run'.store = run.store /\ run'.at = "put" /\ live' = live /\ epoch' = epoch
  BY DEF Put, TypeOK, durable
<1>6. dataset'.graphs[run.store] = live[run.store].pending
  BY <1>1, <1>2 DEF Dataset
<1>7. RunInv' /\ LockInv'
  BY <1>1, <1>5, <1>6 DEF RunInv, LockInv, Put
<1>8. Fits(dataset, live)'
  BY <1>1, <1>2, <1>5, <1>6, Constants DEF Fits, Accounted, Dataset
<1>9. ServingInv' /\ PassedOverIsNotServed'
  BY <1>1, <1>2, <1>5, Constants DEF Put, ServingInv, PassedOverIsNotServed
<1>10. QED
  BY <1>3, <1>4, <1>7, <1>8, <1>9

LEMMA CompleteStep ==
  ASSUME IInv, Complete
  PROVE  IInv'
<1> USE DEF IInv
<1>1. /\ lock = "run" /\ run.at = "put" /\ task.at = "idle" /\ task'.at = "idle"
      /\ run.store \in Store /\ live[run.store] \in Cell /\ run'.at = "idle"
  BY Constants DEF Complete, LockInv, RunInv, TypeOK
<1>2. /\ live'[run.store] \in Cell /\ live' \in State
      /\ live'[run.store].published = live[run.store].pending
      /\ \A t \in Store \ {run.store} : live'[t] = live[t]
  BY <1>1, Constants DEF Complete, Cell, State, TypeOK
<1>3. TypeOK'
  BY <1>2, Constants DEF TypeOK, Complete, backups, fuseki, counters
<1>4. BackupInv' /\ RestoreInv' /\ ActivationInv' /\ RebuildInv' /\ RunInv'
  BY <1>1, TaskAtRest, RunAtRest DEF Complete, backups
<1>5. LockInv'
  BY <1>1 DEF Complete, LockInv
<1>6. Fits(dataset, live)'
  <2>1. epoch' = epoch /\ dataset' = dataset
    BY DEF Complete, fuseki
  <2>2. live # NoState
    BY <1>1, Constants DEF NoState
  <2>3. live \in WholeState => live' \in WholeState
    BY <1>2 DEF WholeState, State
  <2>4. \A t \in Store \ {run.store} : \A x : Accounted(x, live[t]) => Accounted(x, live'[t])
    BY <1>2
  <2>5. dataset # NoDir /\ dataset.basis = epoch =>
          Accounted(dataset.graphs[run.store], live'[run.store])
    BY <1>1, <1>2 DEF RunInv, Accounted
  <2>6. QED
    BY <1>1, <2>1, <2>2, <2>3, <2>4, <2>5 DEF Fits
<1>7. ServingInv' /\ PassedOverIsNotServed'
  BY DEF Complete, fuseki, ServingInv, PassedOverIsNotServed
<1>8. QED
  BY <1>3, <1>4, <1>5, <1>6, <1>7

LEMMA PipelineStep ==
  ASSUME IInv, Pipeline
  PROVE  IInv'
<1>1. CASE LeaveRun
  <2> USE DEF IInv
  <2>1. task.at = "idle" /\ task'.at = "idle" /\ run'.at = "idle"
    BY <1>1, Constants DEF LeaveRun, LockInv
  <2>2. TypeOK'
    BY <1>1, Constants DEF LeaveRun, TypeOK, durable, backups, fuseki, counters
  <2>3. BackupInv' /\ RestoreInv' /\ ActivationInv' /\ RebuildInv' /\ RunInv'
    BY <1>1, <2>1, TaskAtRest, RunAtRest DEF LeaveRun, backups
  <2>4. LockInv'
    BY <1>1, <2>1 DEF LeaveRun, LockInv
  <2>5. Fits(dataset, live)' /\ ServingInv' /\ PassedOverIsNotServed'
    BY <1>1 DEF LeaveRun, durable, fuseki, Fits, ServingInv, PassedOverIsNotServed
  <2>6. QED
    BY <2>2, <2>3, <2>4, <2>5
<1>2. QED
  BY <1>1, StartRunStep, StagePayloadStep, PutStep, CompleteStep DEF Pipeline

----------------------------------------------------------------------------
\* Operations commands

\* A step of a command that leaves the pipeline, the live state and what is
\* served alone owes only its types and what is said of the command itself.
LEMMA CommandStep ==
  ASSUME IInv, task.at # "idle" \/ lock = "free",
         run' = run,
         \/ lock' = "task" /\ task'.at # "idle"
         \/ lock' = "free" /\ task'.at = "idle",
         UNCHANGED <<live, epoch, dataset, container, marker, wanted>>
  PROVE  LockInv' /\ RunInv' /\ Fits(dataset, live)' /\ ServingInv' /\ PassedOverIsNotServed'
<1>1. run.at = "idle" /\ run'.at = "idle"
  BY DEF IInv, LockInv
<1>2. LockInv' /\ RunInv'
  BY <1>1, RunAtRest DEF LockInv
<1>3. QED
  BY <1>2 DEF IInv, Fits, ServingInv, PassedOverIsNotServed

LEMMA InitializeStep ==
  ASSUME IInv, Initialize
  PROVE  IInv'
<1> USE DEF IInv
<1>1. task.at = "idle" /\ task' = task /\ run' = run /\ run.at = "idle"
  BY DEF Initialize, LockInv
<1>2. live' \in WholeState /\ (live \in WholeState => live' = live)
  <2>1. \A s \in Store : Opened(s) \in Cell /\ (live[s] \in Cell => Opened(s) = live[s])
    BY OpenedStore DEF TypeOK
  <2>2. live' = [s \in Store |-> Opened(s)]
    BY DEF Initialize
  <2>3. QED
    BY <2>1, <2>2 DEF WholeState
<1>3. TypeOK'
  BY <1>2, Constants DEF Initialize, TypeOK, backups, fuseki, counters
<1>4. BackupInv' /\ RestoreInv' /\ ActivationInv' /\ RebuildInv' /\ RunInv'
  BY <1>1, TaskAtRest, RunAtRest DEF Initialize, backups
<1>5. LockInv'
  BY <1>1 DEF Initialize, LockInv
<1>6. epoch \in Nat /\ epoch' = IF live = NoState THEN epoch + 1 ELSE epoch
  BY DEF Initialize, OpenedEpoch, TypeOK, Epoch
<1>7. Fits(dataset, live)'
  BY <1>2, <1>6 DEF Initialize, Fits, fuseki, TypeOK, Dataset, Epoch
<1>8. ServingInv' /\ PassedOverIsNotServed'
  BY <1>6 DEF Initialize, fuseki, ServingInv, PassedOverIsNotServed, TypeOK, Epoch
<1>9. QED
  BY <1>3, <1>4, <1>5, <1>7, <1>8

\* A backup copies the stores one by one from a state that stands still.
LEMMA BackupStep ==
  ASSUME IInv, Backup
  PROVE  IInv'
<1> USE DEF IInv
<1>1. CASE BeginBackup
  <2>1. task' = [Idle EXCEPT !.at = "backup", !.left = Store] /\ task.at = "idle"
    BY <1>1 DEF BeginBackup, Acquire
  <2>2. task' \in Task /\ task'.at = "backup" /\ task'.left = Store
    BY <2>1, Constants DEF Task, Phase
  <2>3. TypeOK'
    BY <1>1, <2>2 DEF TypeOK, BeginBackup, Acquire, durable, backups, fuseki, counters
  <2>4. LockInv' /\ RunInv' /\ Fits(dataset, live)' /\ ServingInv' /\ PassedOverIsNotServed'
    BY <1>1, <2>2, CommandStep DEF BeginBackup, Acquire, durable, fuseki
  <2>5. BackupInv' /\ RestoreInv' /\ ActivationInv' /\ RebuildInv'
    BY <1>1, <2>2 DEF BeginBackup, InputsResolve, durable, backups, fuseki, BackupInv,
       RestoreInv, ActivationInv, RebuildInv, Rebuilding, CuttingOver
  <2>6. QED
    BY <2>3, <2>4, <2>5
<1>2. ASSUME NEW s \in Store, CopyStore(s)
      PROVE  IInv'
  <2>1. /\ task.at = "backup" /\ task \in Task /\ live \in State /\ lock = "task"
        /\ task' = [task EXCEPT !.state = [@ EXCEPT ![s] = live[s]], !.left = @ \ {s}]
    BY <1>2 DEF CopyStore, TypeOK, LockInv
  <2>2. /\ task' \in Task /\ task'.at = "backup" /\ task'.left = task.left \ {s}
        /\ task'.state = [task.state EXCEPT ![s] = live[s]]
    BY <2>1 DEF Task, State
  <2>3. TypeOK'
    BY <1>2, <2>2 DEF TypeOK, CopyStore, durable, backups, fuseki, counters
  <2>4. LockInv' /\ RunInv' /\ Fits(dataset, live)' /\ ServingInv' /\ PassedOverIsNotServed'
    BY <1>2, <2>1, <2>2, CommandStep DEF CopyStore, durable, fuseki
  <2>5. \A t \in Store \ task'.left : task'.state[t] = live[t]
    BY <2>1, <2>2 DEF BackupInv, Task, State
  <2>6. BackupInv' /\ RestoreInv' /\ ActivationInv' /\ RebuildInv'
    BY <1>2, <2>1, <2>2, <2>5 DEF CopyStore, durable, backups, fuseki, BackupInv,
       RestoreInv, ActivationInv, RebuildInv, Rebuilding, CuttingOver
  <2>7. QED
    BY <2>3, <2>4, <2>6
<1>3. CASE SaveSnapshot
  <2>1. /\ task.at = "backup" /\ lock = "task" /\ lock' = "task" /\ task.state = live
        /\ live \in WholeState /\ taken \in 0..MaxSnapshots /\ taken < MaxSnapshots
    <3>1. /\ task.at = "backup" /\ lock = "task" /\ lock' = "task" /\ task.left = {}
          /\ task.state \in State /\ live \in WholeState /\ taken \in 0..MaxSnapshots
          /\ taken < MaxSnapshots
      BY <1>3 DEF SaveSnapshot, LockInv, BackupInv, TypeOK, Task
    <3>2. \A s \in Store : task.state[s] = live[s]
      BY <3>1 DEF BackupInv
    <3>3. task.state = live
      BY <3>1, <3>2 DEF State, WholeState
    <3>4. QED
      BY <3>1, <3>3
  <2>2. task' = [Idle EXCEPT !.at = "retain"]
    BY <1>3 DEF SaveSnapshot
  <2>3. task' \in Task /\ task'.at = "retain"
    BY <2>2, Constants DEF Task, Phase
  <2>4. /\ snapshots' = [snapshots EXCEPT ![taken + 1] = live]
        /\ snapshots' \in [1..MaxSnapshots -> WholeState \cup {NoDir}]
        /\ taken' = taken + 1 /\ taken' \in 0..MaxSnapshots
    BY <1>3, <2>1, BoundsAreNatural DEF SaveSnapshot, TypeOK
  <2>5. TypeOK'
    BY <1>3, <2>3, <2>4 DEF TypeOK, SaveSnapshot, durable, fuseki, counters
  <2>6. LockInv' /\ RunInv' /\ Fits(dataset, live)' /\ ServingInv' /\ PassedOverIsNotServed'
    BY <1>3, <2>1, <2>3, CommandStep DEF SaveSnapshot, durable, fuseki
  <2>7. \A i \in 1..MaxSnapshots : i > taken' => snapshots'[i] = NoDir
    BY <2>1, <2>4, BoundsAreNatural DEF TypeOK, BackupInv
  <2>8. BackupInv' /\ RestoreInv' /\ ActivationInv' /\ RebuildInv'
    BY <2>3, <2>7 DEF BackupInv, RestoreInv, ActivationInv, RebuildInv, Rebuilding, CuttingOver
  <2>9. QED
    BY <2>5, <2>6, <2>8
<1>4. CASE ApplyRetention
  <2>1. PICK dropped \in SUBSET (1..taken - 1) :
          snapshots' = [i \in 1..MaxSnapshots |-> IF i \in dropped THEN NoDir ELSE snapshots[i]]
    BY <1>4 DEF ApplyRetention
  <2>2. task.at = "retain" /\ task' = Idle /\ lock' = "free" /\ taken' = taken
    BY <1>4 DEF ApplyRetention, Release
  <2>3. /\ snapshots' \in [1..MaxSnapshots -> WholeState \cup {NoDir}]
        /\ \A i \in 1..MaxSnapshots : snapshots'[i] \in {snapshots[i], NoDir}
    BY <2>1 DEF TypeOK
  <2>4. TypeOK'
    BY <1>4, <2>2, <2>3, Constants DEF TypeOK, ApplyRetention, durable, fuseki, counters
  <2>5. LockInv' /\ RunInv' /\ Fits(dataset, live)' /\ ServingInv' /\ PassedOverIsNotServed'
    BY <1>4, <2>2, CommandStep, Constants DEF ApplyRetention, durable, fuseki
  <2>6. BackupInv' /\ RestoreInv' /\ ActivationInv' /\ RebuildInv'
    BY <2>2, <2>3, Constants DEF BackupInv, RestoreInv, ActivationInv, RebuildInv, Rebuilding,
       CuttingOver
  <2>7. QED
    BY <2>4, <2>5, <2>6
<1>5. CASE FailBackup
  <2>1. task.at # "idle" /\ task' = Idle /\ lock' = "free" /\ faults' \in 0..MaxFaults
    BY <1>5, BoundsAreNatural DEF FailBackup, Release, Fault, TypeOK
  <2>2. TypeOK'
    BY <1>5, <2>1, Constants DEF TypeOK, FailBackup, Fault, durable, backups, fuseki
  <2>3. LockInv' /\ RunInv' /\ Fits(dataset, live)' /\ ServingInv' /\ PassedOverIsNotServed'
    BY <1>5, <2>1, CommandStep, Constants DEF FailBackup, durable, fuseki
  <2>4. BackupInv' /\ RestoreInv' /\ ActivationInv' /\ RebuildInv'
    BY <1>5, <2>1, TaskAtRest, Constants DEF FailBackup, backups
  <2>5. QED
    BY <2>2, <2>3, <2>4
<1>6. QED
  BY <1>1, <1>2, <1>3, <1>4, <1>5 DEF Backup

\* A restore stages one snapshot, store by store.
LEMMA RestoreStep ==
  ASSUME IInv, Restore
  PROVE  IInv'
<1> USE DEF IInv
<1>1. ASSUME NEW i \in 1..MaxSnapshots, BeginRestore(i)
      PROVE  IInv'
  <2>1. /\ task.at = "idle" /\ snapshots[i] \in WholeState
        /\ task' = [Idle EXCEPT !.at = "restore", !.state = snapshots[i], !.left = Store]
    BY <1>1 DEF BeginRestore, Acquire, TypeOK
  <2>2. /\ task' \in Task /\ task'.at = "restore" /\ task'.left = Store
        /\ task'.state = snapshots[i]
    BY <2>1, Constants DEF Task, Phase
  <2>3. /\ stage' \in Stage /\ stage' # NoDir /\ ~stage'.manifest
    <3>1. stage' = [stores |-> NoState, manifest |-> FALSE]
      BY <1>1 DEF BeginRestore
    <3>2. stage' \in Stage /\ ~stage'.manifest
      BY <3>1, Constants DEF Stage
    <3>3. QED
      BY <3>2, Constants
  <2>4. TypeOK'
    BY <1>1, <2>2, <2>3 DEF TypeOK, BeginRestore, Acquire, durable, fuseki, counters
  <2>5. LockInv' /\ RunInv' /\ Fits(dataset, live)' /\ ServingInv' /\ PassedOverIsNotServed'
    BY <1>1, <2>1, <2>2, CommandStep DEF BeginRestore, Acquire, durable, fuseki
  <2>6. BackupInv' /\ RestoreInv' /\ ActivationInv' /\ RebuildInv'
    BY <1>1, <2>1, <2>2, <2>3 DEF BeginRestore, BackupInv, RestoreInv, ActivationInv,
       RebuildInv, Rebuilding, CuttingOver
  <2>7. QED
    BY <2>4, <2>5, <2>6
<1>2. ASSUME NEW s \in Store, StageStore(s)
      PROVE  IInv'
  <2>1. /\ task.at = "restore" /\ lock = "task" /\ task \in Task /\ stage \in Stage
        /\ task.state \in WholeState /\ ~stage.manifest
    BY <1>2 DEF StageStore, LockInv, RestoreInv, TypeOK
  <2>2. /\ task' \in Task /\ task'.at = "restore" /\ task'.left = task.left \ {s}
        /\ task'.state = task.state
    BY <1>2, <2>1 DEF StageStore, Task
  <2>3. /\ stage' \in Stage /\ stage' # NoDir /\ stage'.manifest = stage.manifest
        /\ stage'.stores = [stage.stores EXCEPT ![s] = task.state[s]]
    BY <1>2, <2>1, Constants DEF StageStore, Stage, State, WholeState
  <2>4. TypeOK'
    BY <1>2, <2>2, <2>3 DEF TypeOK, StageStore, durable, fuseki, counters
  <2>5. LockInv' /\ RunInv' /\ Fits(dataset, live)' /\ ServingInv' /\ PassedOverIsNotServed'
    BY <1>2, <2>1, <2>2, CommandStep DEF StageStore, durable, fuseki
  <2>6. \A t \in Store \ task'.left : stage'.stores[t] = task'.state[t]
    BY <2>1, <2>2, <2>3 DEF RestoreInv, Stage, State
  <2>7. BackupInv' /\ RestoreInv' /\ ActivationInv' /\ RebuildInv'
    BY <1>2, <2>1, <2>2, <2>3, <2>6 DEF StageStore, BackupInv, RestoreInv, ActivationInv,
       RebuildInv, Rebuilding, CuttingOver
  <2>8. QED
    BY <2>4, <2>5, <2>7
<1>3. CASE FinishRestore \/ FailRestore
  <2>1. /\ task.at = "restore" /\ stage \in Stage
        /\ task' = Idle /\ lock' = "free" /\ UNCHANGED <<snapshots, taken>>
    BY <1>3 DEF FinishRestore, FailRestore, Release, RestoreInv, TypeOK
  <2>2. stage' \in Stage \cup {NoDir}
    BY <1>3, <2>1 DEF FinishRestore, FailRestore, Stage
  <2>3. faults' \in 0..MaxFaults /\ UNCHANGED <<writes, time>>
    BY <1>3, BoundsAreNatural DEF FinishRestore, FailRestore, Fault, counters, TypeOK
  <2>4. UNCHANGED <<durable, fuseki, run>>
    BY <1>3 DEF FinishRestore, FailRestore
  <2>5. TypeOK'
    BY <2>1, <2>2, <2>3, <2>4, Constants DEF TypeOK, durable, fuseki
  <2>6. LockInv' /\ RunInv' /\ Fits(dataset, live)' /\ ServingInv' /\ PassedOverIsNotServed'
    BY <2>1, <2>4, CommandStep, Constants DEF durable, fuseki
  <2>7. BackupInv' /\ RestoreInv' /\ ActivationInv' /\ RebuildInv'
    BY <2>1, TaskAtRest, Constants
  <2>8. QED
    BY <2>5, <2>6, <2>7
<1>4. QED
  BY <1>1, <1>2, <1>3 DEF Restore

\* An activation sets the live state aside and installs the stage, or puts
\* back what it set aside.
LEMMA ActivationStep ==
  ASSUME IInv, Activation
  PROVE  IInv'
<1> USE DEF IInv
<1>1. CASE BeginActivation
  <2>1. /\ task.at = "idle" /\ stage \in Stage /\ stage # NoDir /\ stage.manifest
        /\ stage.stores \in WholeState /\ epoch < MaxEpoch
        /\ time' \in Time /\ previous[time'] = NoState
        /\ task' = [Idle EXCEPT !.at = "activate", !.state = stage.stores, !.stamp = time']
    BY <1>1, BoundsAreNatural DEF BeginActivation, Acquire, Activatable, TypeOK, Time
  <2>2. /\ task' \in Task /\ task'.at = "activate" /\ task'.state = stage.stores
        /\ task'.stamp = time'
    BY <2>1, Constants DEF Task, Phase
  <2>3. TypeOK'
    BY <1>1, <2>1, <2>2 DEF TypeOK, BeginActivation, Acquire, durable, backups, fuseki
  <2>4. LockInv' /\ RunInv' /\ Fits(dataset, live)' /\ ServingInv' /\ PassedOverIsNotServed'
    BY <1>1, <2>1, <2>2, CommandStep DEF BeginActivation, Acquire, durable, fuseki
  <2>5. BackupInv' /\ RestoreInv' /\ ActivationInv' /\ RebuildInv'
    BY <1>1, <2>1, <2>2 DEF BeginActivation, durable, backups, BackupInv, RestoreInv,
       ActivationInv, RebuildInv, Rebuilding, CuttingOver
  <2>6. QED
    BY <2>3, <2>4, <2>5
<1>2. CASE SetStateAside
  <2>1. /\ task.at = "activate" /\ task \in Task /\ run.at = "idle" /\ lock = "task"
        /\ task' = [task EXCEPT !.at = "install"]
    BY <1>2 DEF SetStateAside, LockInv, TypeOK
  <2>2. /\ task' \in Task /\ task'.at = "install" /\ task'.state = task.state
        /\ task'.stamp = task.stamp /\ task.stamp \in Time
    BY <2>1 DEF Task, Phase
  <2>3. previous' \in [Time -> State] /\ previous'[task.stamp] = live /\ live' = NoState
    BY <1>2, <2>2 DEF SetStateAside, TypeOK
  <2>4. TypeOK'
    BY <1>2, <2>2, <2>3, Constants DEF TypeOK, SetStateAside, backups, fuseki, counters
  <2>5. UNCHANGED <<epoch, backups, fuseki, lock, run>>
    BY <1>2 DEF SetStateAside
  <2>6. Fits(dataset, live)' /\ Fits(dataset, previous[task.stamp])'
    BY <2>2, <2>3, <2>5 DEF Fits, fuseki
  <2>7. BackupInv' /\ RestoreInv' /\ ActivationInv' /\ RebuildInv'
    BY <2>1, <2>2, <2>3, <2>5, <2>6 DEF backups, fuseki, BackupInv, RestoreInv, ActivationInv,
       RebuildInv, Rebuilding, CuttingOver
  <2>8. LockInv' /\ RunInv' /\ ServingInv' /\ PassedOverIsNotServed'
    BY <2>1, <2>2, <2>5, RunAtRest DEF fuseki, LockInv, ServingInv, PassedOverIsNotServed
  <2>9. QED
    BY <2>4, <2>6, <2>7, <2>8
<1>3. CASE InstallState
  <2>1. /\ task.at = "install" /\ task.state \in WholeState /\ epoch < MaxEpoch
        /\ run.at = "idle" /\ run' = run /\ lock' = "free" /\ task' = Idle
    BY <1>3 DEF InstallState, Release, LockInv, ActivationInv
  <2>2. live' \in State /\ epoch' = epoch + 1 /\ epoch' \in Epoch /\ epoch \in Epoch
    BY <1>3, <2>1, Constants, BoundsAreNatural DEF InstallState, TypeOK, Epoch
  <2>3. TypeOK'
    BY <1>3, <2>1, <2>2, Constants DEF TypeOK, InstallState, backups, fuseki, counters
  <2>4. BackupInv' /\ RestoreInv' /\ ActivationInv' /\ RebuildInv' /\ RunInv'
    BY <1>3, <2>1, TaskAtRest, RunAtRest, Constants DEF InstallState, backups
  <2>5. LockInv'
    BY <2>1, Constants DEF LockInv
  <2>6. Fits(dataset, live)' /\ ServingInv' /\ PassedOverIsNotServed'
    BY <1>3, <2>2 DEF InstallState, fuseki, Fits, ServingInv, PassedOverIsNotServed, TypeOK,
       Dataset, Epoch
  <2>7. QED
    BY <2>3, <2>4, <2>5, <2>6
<1>4. CASE FailInstall
  <2>1. /\ task.at = "install" /\ task.stamp \in Time /\ live' = previous[task.stamp]
        /\ run.at = "idle" /\ run' = run /\ lock' = "free" /\ task' = Idle
        /\ epoch' = epoch /\ UNCHANGED <<backups, fuseki>>
    BY <1>4 DEF FailInstall, Release, LockInv, TypeOK, Task
  <2>2. /\ live' \in State /\ previous' \in [Time -> State] /\ faults' \in 0..MaxFaults
        /\ UNCHANGED <<writes, time>>
    BY <1>4, <2>1, Constants, BoundsAreNatural DEF FailInstall, Fault, TypeOK
  <2>3. TypeOK'
    BY <2>1, <2>2, Constants DEF TypeOK, backups, fuseki
  <2>4. BackupInv' /\ RestoreInv' /\ ActivationInv' /\ RebuildInv' /\ RunInv'
    BY <2>1, TaskAtRest, RunAtRest, Constants DEF backups
  <2>5. LockInv'
    BY <2>1, Constants DEF LockInv
  <2>6. Fits(dataset, live)' /\ ServingInv' /\ PassedOverIsNotServed'
    BY <2>1 DEF fuseki, Fits, ActivationInv, ServingInv, PassedOverIsNotServed
  <2>7. QED
    BY <2>3, <2>4, <2>5, <2>6
<1>5. CASE FailActivation
  <2>1. task.at # "idle" /\ task' = Idle /\ lock' = "free" /\ faults' \in 0..MaxFaults
    BY <1>5, BoundsAreNatural DEF FailActivation, Release, Fault, TypeOK
  <2>2. TypeOK'
    BY <1>5, <2>1, Constants DEF TypeOK, FailActivation, Fault, durable, backups, fuseki
  <2>3. LockInv' /\ RunInv' /\ Fits(dataset, live)' /\ ServingInv' /\ PassedOverIsNotServed'
    BY <1>5, <2>1, CommandStep, Constants DEF FailActivation, durable, fuseki
  <2>4. BackupInv' /\ RestoreInv' /\ ActivationInv' /\ RebuildInv'
    BY <1>5, <2>1, TaskAtRest, Constants DEF FailActivation, backups
  <2>5. QED
    BY <2>2, <2>3, <2>4
<1>6. QED
  BY <1>1, <1>2, <1>3, <1>4, <1>5 DEF Activation

\* Only without the marker is Fuseki started by hand.
LEMMA ServingStep ==
  ASSUME IInv, Serving
  PROVE  IInv'
<1> USE DEF IInv
<1>1. /\ task.at = "idle" /\ task' = task /\ run.at = "idle" /\ run' = run
      /\ UNCHANGED <<durable, backups, dataset, marker, wanted, lock, counters>>
      /\ container' \in {"up", "down"}
      /\ container' = "up" => ~marker
  BY DEF Serving, UpFuseki, StopFuseki, LockInv
<1>2. TypeOK'
  BY <1>1 DEF TypeOK, durable, backups, counters
<1>3. BackupInv' /\ RestoreInv' /\ ActivationInv' /\ RebuildInv' /\ RunInv'
  BY <1>1, TaskAtRest, RunAtRest DEF backups
<1>4. LockInv' /\ Fits(dataset, live)' /\ ServingInv' /\ PassedOverIsNotServed'
  BY <1>1 DEF durable, LockInv, Fits, ServingInv, PassedOverIsNotServed
<1>5. QED
  BY <1>2, <1>3, <1>4

\* The built dataset is a projection of the live state, so it fits it.
LEMMA ProjectionFits ==
  ASSUME live \in WholeState, NEW d \in Dataset, d.basis = epoch, epoch \in Epoch,
         \A s \in Store : d.graphs[s] = Selected(live[s])
  PROVE  Fits(d, live)
BY DEF Fits, Accounted, Selected, Epoch

\* A rebuild, to the cutover and back.
LEMMA PrepareStep ==
  ASSUME IInv, BeginRebuild \/ TakeOffline \/ ReadPayloads \/ RefuseRebuild \/ FailRebuild
  PROVE  IInv'
<1> USE DEF IInv
<1>1. CASE BeginRebuild
  <2>1. /\ task.at = "idle" /\ run.at = "idle" /\ lock' = "task" /\ run' = run
        /\ task' = [Idle EXCEPT !.at = "offline"]
        /\ marker' = TRUE
        /\ UNCHANGED <<durable, backups, dataset, container, wanted, counters>>
    BY <1>1 DEF BeginRebuild, Acquire, LockInv
  <2>2. task' \in Task /\ task'.at = "offline"
    BY <2>1, Constants DEF Task, Phase
  <2>3. TypeOK'
    BY <2>1, <2>2 DEF TypeOK, durable, backups, counters
  <2>4. LockInv' /\ RunInv' /\ Fits(dataset, live)' /\ ServingInv' /\ PassedOverIsNotServed'
    BY <2>1, <2>2, RunAtRest DEF durable, LockInv, Fits, ServingInv, PassedOverIsNotServed
  <2>5. BackupInv' /\ RestoreInv' /\ ActivationInv' /\ RebuildInv'
    BY <2>1, <2>2 DEF backups, BackupInv, RestoreInv, ActivationInv, RebuildInv, Rebuilding,
       CuttingOver
  <2>6. QED
    BY <2>3, <2>4, <2>5
<1>2. CASE TakeOffline
  <2>1. /\ task.at = "offline" /\ run.at = "idle" /\ lock = "task" /\ marker /\ task \in Task
        /\ container' = "down" /\ wanted' = epoch
        /\ task' = [task EXCEPT !.at = "reconstruct"]
        /\ UNCHANGED <<durable, backups, dataset, marker, lock, run, counters>>
    BY <1>2 DEF TakeOffline, LockInv, RebuildInv, Rebuilding, TypeOK
  <2>2. task' \in Task /\ task'.at = "reconstruct"
    BY <2>1 DEF Task, Phase
  <2>3. TypeOK'
    BY <2>1, <2>2 DEF TypeOK, durable, backups, counters
  <2>4. LockInv' /\ RunInv' /\ Fits(dataset, live)' /\ ServingInv' /\ PassedOverIsNotServed'
    BY <2>1, <2>2, RunAtRest DEF durable, LockInv, Fits, ServingInv, PassedOverIsNotServed,
       TypeOK, Epoch
  <2>5. BackupInv' /\ RestoreInv' /\ ActivationInv' /\ RebuildInv'
    BY <2>1, <2>2 DEF durable, backups, BackupInv, RestoreInv, ActivationInv, RebuildInv,
       Rebuilding, CuttingOver
  <2>6. QED
    BY <2>3, <2>4, <2>5
<1>3. CASE ReadPayloads
  <2> DEFINE empty == [graphs |-> [s \in Store |-> None], basis |-> epoch]
  <2>1. /\ task.at = "reconstruct" /\ lock = "task" /\ lock' = "task" /\ live \in WholeState
        /\ run' = run /\ UNCHANGED <<durable, backups, fuseki, counters>>
        /\ marker /\ wanted = epoch /\ container = "down"
        /\ task \in Task
        /\ task' = [task EXCEPT !.at = "build", !.state = live, !.left = Store, !.built = empty]
    BY <1>3 DEF ReadPayloads, LockInv, RebuildInv, Rebuilding, TypeOK
  <2>2. empty \in Dataset /\ empty # NoDir /\ empty.basis = epoch
    <3>1. empty \in Dataset /\ empty.basis = epoch
      BY Constants DEF Dataset, TypeOK
    <3>2. QED
      BY <3>1, Constants
  <2> HIDE DEF empty
  <2>3. /\ task' \in Task /\ task'.at = "build" /\ task'.state = live /\ task'.left = Store
        /\ task'.built = empty
    BY <2>1, <2>2, Constants DEF Task, Phase
  <2>4. TypeOK'
    BY <2>1, <2>3 DEF TypeOK, durable, backups, fuseki, counters
  <2>5. LockInv' /\ RunInv' /\ Fits(dataset, live)' /\ ServingInv' /\ PassedOverIsNotServed'
    BY <2>1, <2>3, CommandStep DEF durable, fuseki
  <2>6. BackupInv' /\ RestoreInv' /\ ActivationInv'
    BY <2>1, <2>3 DEF backups, BackupInv, RestoreInv, ActivationInv
  <2>7. RebuildInv'
    BY <2>1, <2>2, <2>3 DEF durable, fuseki, RebuildInv, Rebuilding, CuttingOver
  <2>8. QED
    BY <2>4, <2>5, <2>6, <2>7
<1>4. CASE RefuseRebuild \/ FailRebuild
  <2>1. /\ task.at # "idle" /\ task' = Idle /\ lock' = "free" /\ run' = run
        /\ UNCHANGED <<durable, backups, fuseki>>
    BY <1>4 DEF RefuseRebuild, FailRebuild, Release
  <2>2. faults' \in 0..MaxFaults /\ UNCHANGED <<writes, time>>
    BY <1>4, BoundsAreNatural DEF RefuseRebuild, FailRebuild, Fault, counters, TypeOK
  <2>3. TypeOK'
    BY <2>1, <2>2, Constants DEF TypeOK, durable, backups, fuseki
  <2>4. LockInv' /\ RunInv' /\ Fits(dataset, live)' /\ ServingInv' /\ PassedOverIsNotServed'
    BY <2>1, CommandStep, Constants DEF durable, fuseki
  <2>5. BackupInv' /\ RestoreInv' /\ ActivationInv' /\ RebuildInv'
    BY <2>1, TaskAtRest, Constants DEF backups
  <2>6. QED
    BY <2>3, <2>4, <2>5
<1>5. QED
  BY <1>1, <1>2, <1>3, <1>4

LEMMA BuildStep ==
  ASSUME IInv, NEW s \in Store, BuildGraph(s)
  PROVE  IInv'
<1> USE DEF IInv
<1>1. /\ task.at = "build" /\ lock = "task" /\ lock' = "task" /\ run' = run
      /\ UNCHANGED <<durable, backups, fuseki, counters>>
      /\ task \in Task /\ task.built \in Dataset /\ task.state = live /\ live \in WholeState
      /\ task.built.basis = epoch
  BY DEF BuildGraph, LockInv, RebuildInv, TypeOK, Task
<1>2. Selected(live[s]) \in Payload
  BY <1>1 DEF Selected, WholeState, Cell
<1>3. PICK b \in Dataset :
        /\ task' = [task EXCEPT !.left = @ \ {s}, !.built = b]
        /\ b.basis = epoch
        /\ b.graphs = [task.built.graphs EXCEPT ![s] = Selected(live[s])]
  <2> DEFINE d == [task.built EXCEPT !.graphs[s] = Projected(task.state)[s]]
  <2>1. Projected(task.state)[s] = Selected(live[s])
    BY <1>1 DEF Projected
  <2>2. d \in Dataset /\ d.basis = epoch
        /\ d.graphs = [task.built.graphs EXCEPT ![s] = Selected(live[s])]
    BY <1>1, <1>2, <2>1 DEF Dataset
  <2>3. task' = [task EXCEPT !.left = @ \ {s}, !.built = d]
    BY <1>1 DEF BuildGraph, Task
  <2> HIDE DEF d
  <2>4. QED
    BY <2>2, <2>3
<1>4. /\ task' \in Task /\ task'.at = "build" /\ task'.left = task.left \ {s}
      /\ task'.state = live /\ task'.built = b /\ b # NoDir
  BY <1>1, <1>3, Constants DEF Task
<1>5. \A t \in Store \ task'.left : task'.built.graphs[t] = Selected(live[t])
  BY <1>1, <1>3, <1>4 DEF RebuildInv, Dataset
<1>6. TypeOK'
  BY <1>1, <1>4 DEF TypeOK, durable, backups, fuseki, counters
<1>7. LockInv' /\ RunInv' /\ Fits(dataset, live)' /\ ServingInv' /\ PassedOverIsNotServed'
  BY <1>1, <1>4, CommandStep DEF durable, fuseki
<1>8. BackupInv' /\ RestoreInv' /\ ActivationInv'
  BY <1>1, <1>4 DEF backups, BackupInv, RestoreInv, ActivationInv
<1>9. RebuildInv'
  BY <1>1, <1>3, <1>4, <1>5 DEF durable, fuseki, RebuildInv, Rebuilding, CuttingOver
<1>10. QED
  BY <1>6, <1>7, <1>8, <1>9

LEMMA CutoverStep ==
  ASSUME IInv,
         SetDatasetAside \/ PromoteDataset \/ StartServing \/ VerifyCutover \/ RollBack
  PROVE  IInv'
<1> USE DEF IInv
<1>1. /\ task.at \in {"build"} \cup CuttingOver /\ task.left = {} /\ task \in Task
      /\ lock = "task" /\ run.at = "idle" /\ run' = run /\ run'.at = "idle"
      /\ UNCHANGED <<durable, backups, wanted>>
      /\ live \in WholeState /\ marker /\ wanted = epoch
      /\ task.built \in Dataset /\ task.built # NoDir /\ task.built.basis = epoch
      /\ \A s \in Store : task.built.graphs[s] = Selected(live[s])
  BY DEF SetDatasetAside, PromoteDataset, StartServing, VerifyCutover, RollBack, LockInv,
         RebuildInv, Rebuilding, CuttingOver, TypeOK, Task
<1>2. Fits(task.built, live)
  BY <1>1, ProjectionFits DEF TypeOK
<1>3. CASE SetDatasetAside
  <2>1. /\ task.at = "build" /\ dataset' = NoDir /\ container = "down"
        /\ task' = [task EXCEPT !.at = "promote", !.old = dataset]
        /\ UNCHANGED <<container, marker, lock, counters>>
    BY <1>3 DEF SetDatasetAside, RebuildInv
  <2>2. /\ task' \in Task /\ task'.at = "promote" /\ task'.left = {} /\ task'.old = dataset
        /\ task'.built = task.built
    BY <1>1, <2>1 DEF Task, Phase, TypeOK
  <2>3. TypeOK'
    BY <1>1, <2>1, <2>2 DEF TypeOK, durable, backups, counters
  <2>4. LockInv' /\ RunInv' /\ BackupInv' /\ RestoreInv' /\ ActivationInv'
    BY <1>1, <2>1, <2>2, RunAtRest DEF backups, LockInv, BackupInv, RestoreInv, ActivationInv
  <2>5. Fits(dataset, live)' /\ ServingInv' /\ PassedOverIsNotServed'
    BY <1>1, <2>1 DEF durable, Fits, ServingInv, PassedOverIsNotServed
  <2>6. Fits(task.old, live)'
    BY <1>1, <2>2 DEF durable, Fits
  <2>7. RebuildInv'
    BY <1>1, <2>1, <2>2, <2>6 DEF durable, RebuildInv, Rebuilding, CuttingOver
  <2>8. QED
    BY <2>3, <2>4, <2>5, <2>7
<1>4. CASE PromoteDataset
  <2>1. /\ task.at = "promote" /\ dataset' = task.built /\ container = "down"
        /\ task' = [task EXCEPT !.at = "start"] /\ Fits(task.old, live)
        /\ UNCHANGED <<container, marker, lock, counters>>
    BY <1>4 DEF PromoteDataset, RebuildInv, CuttingOver
  <2>2. /\ task' \in Task /\ task'.at = "start" /\ task'.left = {} /\ task'.old = task.old
        /\ task'.built = task.built
    BY <1>1, <2>1 DEF Task, Phase
  <2>3. TypeOK'
    BY <1>1, <2>1, <2>2 DEF TypeOK, durable, backups, counters
  <2>4. LockInv' /\ RunInv' /\ BackupInv' /\ RestoreInv' /\ ActivationInv'
    BY <1>1, <2>1, <2>2, RunAtRest DEF backups, LockInv, BackupInv, RestoreInv, ActivationInv
  <2>5. Fits(dataset, live)' /\ ServingInv' /\ PassedOverIsNotServed'
    BY <1>1, <1>2, <2>1 DEF durable, Fits, ServingInv, PassedOverIsNotServed
  <2>6. Fits(task.old, live)'
    BY <1>1, <2>1, <2>2 DEF durable, Fits
  <2>7. RebuildInv'
    BY <1>1, <2>1, <2>2, <2>6 DEF durable, RebuildInv, Rebuilding, CuttingOver
  <2>8. QED
    BY <2>3, <2>4, <2>5, <2>7
<1>5. CASE StartServing
  <2>1. /\ task.at = "start" /\ dataset' = dataset /\ dataset = task.built
        /\ container' = "up"
        /\ task' = [task EXCEPT !.at = "verify"] /\ Fits(task.old, live)
        /\ UNCHANGED <<marker, lock, counters>>
    BY <1>5 DEF StartServing, RebuildInv, CuttingOver
  <2>2. /\ task' \in Task /\ task'.at = "verify" /\ task'.left = {} /\ task'.old = task.old
        /\ task'.built = task.built
    BY <1>1, <2>1 DEF Task, Phase
  <2>3. TypeOK'
    BY <1>1, <2>1, <2>2 DEF TypeOK, durable, backups, counters
  <2>4. LockInv' /\ RunInv' /\ BackupInv' /\ RestoreInv' /\ ActivationInv'
    BY <1>1, <2>1, <2>2, RunAtRest DEF backups, LockInv, BackupInv, RestoreInv, ActivationInv
  <2>5. Fits(dataset, live)' /\ ServingInv' /\ PassedOverIsNotServed'
    BY <1>1, <1>2, <2>1 DEF durable, Fits, ServingInv, PassedOverIsNotServed
  <2>6. Fits(task.old, live)'
    BY <1>1, <2>1, <2>2 DEF durable, Fits
  <2>7. RebuildInv'
    BY <1>1, <2>1, <2>2, <2>6 DEF durable, RebuildInv, Rebuilding, CuttingOver
  <2>8. QED
    BY <2>3, <2>4, <2>5, <2>7
<1>6. CASE VerifyCutover \/ RollBack
  <2>1. /\ task' = Idle /\ lock' = "free" /\ task'.at = "idle"
        /\ marker' \in BOOLEAN /\ container' \in {"up", "down"}
        /\ faults' \in 0..MaxFaults /\ UNCHANGED <<writes, time>>
    <3>1. task' = Idle /\ lock' = "free" /\ task'.at = "idle"
      BY <1>6, Constants DEF VerifyCutover, RollBack, Release
    <3>2. marker' \in BOOLEAN /\ container' \in {"up", "down"}
      BY <1>6 DEF VerifyCutover, RollBack, TypeOK
    <3>3. faults' \in 0..MaxFaults /\ UNCHANGED <<writes, time>>
      BY <1>6, BoundsAreNatural DEF VerifyCutover, RollBack, Fault, counters, TypeOK
    <3>4. QED
      BY <3>1, <3>2, <3>3
  <2>2. dataset' \in Dataset \cup {NoDir}
    BY <1>1, <1>6 DEF VerifyCutover, RollBack, TypeOK, Task
  <2>3. TypeOK'
    BY <1>1, <2>1, <2>2, Constants DEF TypeOK, durable, backups
  <2>4. LockInv' /\ RunInv' /\ BackupInv' /\ RestoreInv' /\ ActivationInv' /\ RebuildInv'
    BY <1>1, <2>1, RunAtRest, TaskAtRest DEF backups, LockInv
  <2>5. CASE VerifyCutover
    <3>1. dataset' = dataset /\ dataset = task.built
      BY <2>5 DEF VerifyCutover, RebuildInv
    <3>2. Fits(dataset, live)' /\ ServingInv' /\ PassedOverIsNotServed'
      BY <1>1, <1>2, <3>1 DEF durable, Fits, ServingInv, PassedOverIsNotServed
    <3>3. QED
      BY <2>3, <2>4, <3>2
  <2>6. CASE RollBack
    <3>1. dataset' = task.old /\ container' = "down" /\ marker' = marker /\ Fits(task.old, live)
      BY <2>6 DEF RollBack, RebuildInv, CuttingOver
    <3>2. Fits(dataset, live)' /\ ServingInv' /\ PassedOverIsNotServed'
      BY <1>1, <3>1 DEF durable, Fits, ServingInv, PassedOverIsNotServed
    <3>3. QED
      BY <2>3, <2>4, <3>2
  <2>7. QED
    BY <1>6, <2>5, <2>6
<1>7. QED
  BY <1>3, <1>4, <1>5, <1>6

LEMMA CrashStep ==
  ASSUME IInv, Crash
  PROVE  IInv'
<1> USE DEF IInv
<1>1. /\ run' = Resting /\ run'.at = "idle" /\ task' = Idle /\ task'.at = "idle" /\ lock' = "free"
      /\ UNCHANGED <<durable, backups, fuseki>>
      /\ faults' \in 0..MaxFaults /\ UNCHANGED <<writes, time>>
  BY Constants, BoundsAreNatural DEF Crash, Fault, TypeOK
<1>2. TypeOK'
  BY <1>1, Constants DEF TypeOK, durable, backups, fuseki
<1>3. LockInv' /\ RunInv' /\ BackupInv' /\ RestoreInv' /\ ActivationInv' /\ RebuildInv'
  BY <1>1, TaskAtRest, RunAtRest DEF LockInv, backups
<1>4. Fits(dataset, live)' /\ ServingInv' /\ PassedOverIsNotServed'
  BY <1>1 DEF durable, fuseki, Fits, ServingInv, PassedOverIsNotServed
<1>5. QED
  BY <1>2, <1>3, <1>4

----------------------------------------------------------------------------
LEMMA Init_IInv == Init => IInv
<1> SUFFICES ASSUME Init PROVE IInv
  OBVIOUS
<1>1. live = [s \in Store |-> Fresh] /\ live \in WholeState /\ epoch = 1 /\ wanted = 1
  BY Constants DEF Init, WholeState
<1>2. /\ dataset \in Dataset /\ dataset # NoDir /\ dataset.basis = 1
      /\ \A s \in Store : dataset.graphs[s] = None
  <2>1. /\ dataset \in Dataset /\ dataset.basis = 1
        /\ \A s \in Store : dataset.graphs[s] = None
    BY Constants, BoundsAreNatural DEF Init, Dataset, Epoch
  <2>2. QED
    BY <2>1, Constants
<1>3. run.at = "idle" /\ task.at = "idle" /\ lock = "free" /\ run = Resting /\ task = Idle
  BY Constants DEF Init
<1>4. TypeOK
  <2>1. live \in State /\ epoch \in Epoch /\ wanted \in Epoch
    BY <1>1, Constants, BoundsAreNatural DEF Epoch
  <2>2. previous \in [Time -> State]
    BY Constants DEF Init
  <2>3. snapshots \in [1..MaxSnapshots -> WholeState \cup {NoDir}] /\ stage = NoDir
    BY DEF Init
  <2>4. taken \in 0..MaxSnapshots /\ writes \in Payload /\ time \in Time /\ faults \in 0..MaxFaults
    BY BoundsAreNatural DEF Init, Payload, Time
  <2>5. container \in {"up", "down"} /\ marker \in BOOLEAN
    BY DEF Init
  <2>6. QED
    BY <1>2, <1>3, <2>1, <2>2, <2>3, <2>4, <2>5, Constants DEF TypeOK
<1>5. Fits(dataset, live)
  BY <1>1, <1>2 DEF Fits, Accounted, Fresh
<1>6. LockInv /\ RunInv /\ RestoreInv /\ ActivationInv /\ RebuildInv
  BY <1>3 DEF LockInv, RunInv, RestoreInv, ActivationInv, RebuildInv, Rebuilding, CuttingOver
<1>7. BackupInv
  BY <1>3 DEF Init, BackupInv
<1>8. ServingInv /\ PassedOverIsNotServed
  BY <1>1, <1>2 DEF ServingInv, PassedOverIsNotServed
<1>9. QED
  BY <1>4, <1>5, <1>6, <1>7, <1>8 DEF IInv

LEMMA Step_IInv == IInv /\ [Next]_vars => IInv'
<1> SUFFICES ASSUME IInv, [Next]_vars PROVE IInv'
  OBVIOUS
<1>1. CASE Rebuild
  BY <1>1, PrepareStep, BuildStep, CutoverStep DEF Rebuild
<1>2. CASE UNCHANGED vars
  BY <1>2 DEF IInv, TypeOK, LockInv, Fits, RunInv, BackupInv, RestoreInv, ActivationInv,
     RebuildInv, ServingInv, PassedOverIsNotServed, vars, durable, backups, fuseki, counters
<1>3. QED
  BY <1>1, <1>2, InitializeStep, CrashStep, PipelineStep, BackupStep, RestoreStep,
     ActivationStep, ServingStep DEF Next

LEMMA Invariant == Spec => []IInv
  BY Init_IInv, Step_IInv, PTL DEF Spec

\* The durable state, the backups, the dataset and both processes have their types.
THEOREM TypeCorrect == Spec => []TypeOK
<1>1. IInv => TypeOK
  BY DEF IInv
<1>2. QED
  BY <1>1, Invariant, PTL

\* Whatever run, rebuild, rollback or crash came last, a graph of a dataset
\* built from the live state is published or on its way.
THEOREM DatasetMatches == Spec => []DatasetMatchesState
<1>1. IInv => DatasetMatchesState
  BY DEF IInv, Fits, DatasetMatchesState, NoState
<1>2. QED
  BY <1>1, Invariant, PTL

\* Once a rebuild has taken Fuseki offline, only a projection of the live
\* state is served.
THEOREM NothingStaleServed == Spec => []PassedOverIsNotServed
<1>1. IInv => PassedOverIsNotServed
  BY DEF IInv
<1>2. QED
  BY <1>1, Invariant, PTL

----------------------------------------------------------------------------
\* Each step is one step of the ledger of RecoveryLedger, or none.
LEMMA LedgerStep ==
  ASSUME IInv, [Next]_vars
  PROVE  [Ledger!Next]_<<live,
                         ({snapshots[i] : i \in 1..MaxSnapshots} \ {NoDir})
                           \cup (IF stage # NoDir /\ stage.manifest THEN {stage.stores} ELSE {}),
                         {previous[t] : t \in Time} \ {NoState}>>
<1> DEFINE points == ({snapshots[i] : i \in 1..MaxSnapshots} \ {NoDir})
                       \cup (IF stage # NoDir /\ stage.manifest THEN {stage.stores} ELSE {})
           kept == {previous[t] : t \in Time} \ {NoState}
<1> USE DEF IInv
<1> SUFFICES Ledger!Next \/ UNCHANGED <<live, points, kept>>
  OBVIOUS
<1>1. UNCHANGED <<snapshots, stage>> => points' = points
  OBVIOUS
<1>2. UNCHANGED previous => kept' = kept
  OBVIOUS
<1>3. Ledger!Nothing = NoState
  BY DEF Ledger!Nothing, NoState
<1>4. \A s \in Store, c \in Cell :
        live' = [live EXCEPT ![s] = c] /\ UNCHANGED <<snapshots, stage, previous>> => Ledger!Advance
  BY <1>1, <1>2 DEF Ledger!Advance
<1>5. CASE Pipeline
  <2>1. UNCHANGED <<snapshots, stage, previous>>
    BY <1>5 DEF Pipeline, StartRun, StagePayload, Put, Complete, LeaveRun, backups, durable
  <2>2. ASSUME NEW s \in Store, StartRun(s)
        PROVE  Ledger!Advance
    <3>1. [Opened(s) EXCEPT !.used = TRUE] \in Cell
      BY OpenedStore DEF Cell, TypeOK
    <3>2. live' = [live EXCEPT ![s] = [Opened(s) EXCEPT !.used = TRUE]]
      BY <2>2 DEF StartRun
    <3>3. QED
      BY <3>1, <3>2, <2>1, <1>4
  <2>3. CASE StagePayload
    <3>1. run.store \in Store /\ live[run.store] \in Cell
      BY <2>3 DEF StagePayload, RunInv, TypeOK
    <3>2. CASE UNCHANGED live
      BY <3>2, <2>1, <1>1, <1>2
    <3>3. CASE /\ writes < MaxWrites
               /\ live' = [live EXCEPT ![run.store] = [@ EXCEPT !.pending = writes + 1]]
      <4>1. writes + 1 \in Payload
        BY <3>3, BoundsAreNatural DEF TypeOK, Payload
      <4>2. [live[run.store] EXCEPT !.pending = writes + 1] \in Cell
        BY <3>1, <4>1 DEF Cell
      <4>3. QED
        BY <3>1, <3>3, <4>2, <2>1, <1>4 DEF Ledger!Next
    <3>4. QED
      BY <2>3, <3>2, <3>3 DEF StagePayload
  <2>4. CASE Complete
    <3>1. run.store \in Store /\ live[run.store] \in Cell
      BY <2>4 DEF Complete, RunInv, TypeOK
    <3>2. [published |-> live[run.store].pending, pending |-> None, used |-> live[run.store].used]
            \in Cell
      BY <3>1, Constants DEF Cell
    <3>3. live' = [live EXCEPT ![run.store] = [published |-> live[run.store].pending,
                                pending |-> None, used |-> live[run.store].used]]
      BY <2>4 DEF Complete
    <3>4. QED
      BY <3>1, <3>2, <3>3, <2>1, <1>4 DEF Ledger!Next
  <2>5. CASE Put \/ LeaveRun
    BY <2>1, <2>5, <1>1, <1>2 DEF Put, LeaveRun, durable
  <2>6. QED
    BY <1>5, <2>2, <2>3, <2>4, <2>5 DEF Pipeline, Ledger!Next
<1>6. CASE Initialize
  <2>1. Ledger!Create
    BY <1>1, <1>2, <1>6 DEF Initialize, Opened, backups, Ledger!Create
  <2>2. QED
    BY <2>1 DEF Ledger!Next
<1>7. CASE Backup
  <2>1. UNCHANGED <<live, previous, stage>>
    BY <1>7 DEF Backup, BeginBackup, CopyStore, SaveSnapshot, ApplyRetention, FailBackup,
       durable, backups
  <2>2. CASE SaveSnapshot
    <3>1. /\ task.at = "backup" /\ task.left = {} /\ task.state \in State /\ live \in WholeState
          /\ taken \in 0..MaxSnapshots /\ taken < MaxSnapshots
      BY <2>2 DEF SaveSnapshot, BackupInv, TypeOK, Task
    <3>2. \A s \in Store : task.state[s] = live[s]
      BY <3>1 DEF BackupInv
    <3>3. task.state = live /\ live # NoDir
      BY <3>1, <3>2, Constants DEF State, WholeState
    <3>4. /\ taken + 1 \in 1..MaxSnapshots /\ snapshots[taken + 1] = NoDir
          /\ snapshots' = [snapshots EXCEPT ![taken + 1] = live]
      BY <2>2, <3>1, <3>3, BoundsAreNatural DEF SaveSnapshot, BackupInv
    <3>5. /\ snapshots'[taken + 1] = live
          /\ \A i \in 1..MaxSnapshots : i # taken + 1 => snapshots'[i] = snapshots[i]
      BY <3>4 DEF TypeOK
    <3>6. {snapshots'[i] : i \in 1..MaxSnapshots} \ {NoDir}
            = ({snapshots[i] : i \in 1..MaxSnapshots} \ {NoDir}) \cup {live}
      BY <3>3, <3>4, <3>5
    <3>7. points' = points \cup {live}
      BY <2>1, <3>6
    <3>8. Ledger!TakePoint
      BY <2>1, <3>7, <1>2 DEF Ledger!TakePoint
    <3>9. QED
      BY <3>8 DEF Ledger!Next
  <2>3. CASE ApplyRetention
    <3>1. \A i \in 1..MaxSnapshots : snapshots'[i] \in {snapshots[i], NoDir}
      BY <2>3 DEF ApplyRetention
    <3>2. points' \subseteq points
      BY <2>1, <3>1
    <3>3. Ledger!Forget
      BY <2>1, <3>2, <1>2 DEF Ledger!Forget
    <3>4. QED
      BY <3>3 DEF Ledger!Next
  <2>4. CASE BeginBackup \/ (\E s \in Store : CopyStore(s)) \/ FailBackup
    BY <2>1, <2>4, <1>1, <1>2 DEF BeginBackup, CopyStore, FailBackup, backups
  <2>5. QED
    BY <1>7, <2>2, <2>3, <2>4 DEF Backup
<1>8. CASE Restore
  <2>1. UNCHANGED <<live, previous, snapshots>>
    BY <1>8 DEF Restore, BeginRestore, StageStore, FinishRestore, FailRestore, durable
  <2>2. CASE \E i \in 1..MaxSnapshots : BeginRestore(i)
    <3>1. ~stage'.manifest
      BY <2>2 DEF BeginRestore
    <3>2. points' \subseteq points
      BY <2>1, <3>1
    <3>3. Ledger!Forget
      BY <2>1, <3>2, <1>2 DEF Ledger!Forget
    <3>4. QED
      BY <3>3 DEF Ledger!Next
  <2>3. ASSUME NEW s \in Store, StageStore(s)
        PROVE  points' = points
    <3>1. ~stage.manifest /\ ~stage'.manifest
      <4>1. stage \in Stage /\ ~stage.manifest
        BY <2>3 DEF StageStore, RestoreInv, TypeOK
      <4>2. QED
        BY <2>3, <4>1 DEF StageStore, Stage
    <3>2. QED
      BY <2>1, <3>1
  <2>4. CASE FinishRestore
    <3>1. /\ task.at = "restore" /\ task.left = {} /\ stage \in Stage /\ ~stage.manifest
          /\ task.state \in WholeState
      BY <2>4 DEF FinishRestore, RestoreInv, TypeOK
    <3>2. stage.stores = task.state
      BY <3>1 DEF RestoreInv, Stage, State, WholeState
    <3>3. stage'.stores = stage.stores /\ stage'.manifest /\ stage' # NoDir
      <4>1. stage'.stores = stage.stores /\ stage'.manifest /\ stage' \in Stage
        BY <2>4, <3>1 DEF FinishRestore, Stage
      <4>2. QED
        BY <4>1, Constants
    <3>4. stage.stores \in {snapshots[i] : i \in 1..MaxSnapshots} \ {NoDir}
      BY <3>1, <3>2, Constants DEF RestoreInv
    <3>5. points' = points
      BY <2>1, <3>1, <3>3, <3>4
    <3>6. QED
      BY <2>1, <3>5, <1>2
  <2>5. CASE FailRestore
    <3>1. stage' = NoDir /\ ~stage.manifest
      BY <2>5 DEF FailRestore, RestoreInv
    <3>2. QED
      BY <2>1, <3>1, <1>2
  <2>6. QED
    BY <1>2, <1>8, <2>1, <2>2, <2>3, <2>4, <2>5 DEF Restore
<1>9. CASE Activation
  <2>1. UNCHANGED backups /\ points' = points
    BY <1>1, <1>9 DEF Activation, BeginActivation, SetStateAside, InstallState, FailInstall,
       FailActivation, backups
  <2>2. CASE BeginActivation \/ FailActivation
    BY <2>1, <2>2, <1>2 DEF BeginActivation, FailActivation, durable
  <2>3. CASE SetStateAside
    <3>1. /\ live' = NoState /\ previous' = [previous EXCEPT ![task.stamp] = live]
          /\ task.stamp \in Time /\ previous[task.stamp] = NoState
      BY <2>3 DEF SetStateAside, ActivationInv, TypeOK, Task
    <3>2. /\ previous'[task.stamp] = live
          /\ \A t \in Time \ {task.stamp} : previous'[t] = previous[t]
      BY <3>1 DEF TypeOK
    <3>3. CASE live = NoState
      <4>1. kept' = kept
        BY <3>1, <3>2, <3>3
      <4>2. QED
        BY <2>1, <3>1, <3>3, <4>1
    <3>4. CASE live # NoState
      <4>1. kept' = kept \cup {live}
        BY <3>1, <3>2, <3>4
      <4>2. Ledger!SetAside
        BY <1>3, <2>1, <3>1, <4>1 DEF Ledger!SetAside
      <4>3. QED
        BY <4>2 DEF Ledger!Next
    <3>5. QED
      BY <3>3, <3>4
  <2>4. CASE InstallState
    <3>1. live = NoState /\ live' = stage.stores /\ stage # NoDir /\ stage.manifest
      BY <2>4 DEF InstallState, ActivationInv
    <3>2. UNCHANGED previous
      BY <2>4 DEF InstallState
    <3>3. live' \in points
      BY <3>1
    <3>4. Ledger!Install
      BY <1>2, <1>3, <2>1, <3>1, <3>2, <3>3 DEF Ledger!Install
    <3>5. QED
      BY <3>4 DEF Ledger!Next
  <2>5. CASE FailInstall
    <3>1. /\ live = NoState /\ live' = previous[task.stamp] /\ task.stamp \in Time
          /\ previous' = [previous EXCEPT ![task.stamp] = NoState]
      BY <2>5 DEF FailInstall, ActivationInv, TypeOK, Task
    <3>2. /\ previous'[task.stamp] = NoState
          /\ \A t \in Time \ {task.stamp} : previous'[t] = previous[t]
      BY <3>1 DEF TypeOK
    <3>3. CASE live' = NoState
      <4>1. kept' = kept
        BY <3>1, <3>2, <3>3
      <4>2. QED
        BY <2>1, <3>1, <3>3, <4>1
    <3>4. CASE live' # NoState
      <4>1. live' \in kept /\ kept \ {live'} \subseteq kept' /\ kept' \subseteq kept
        BY <3>1, <3>2, <3>4
      <4>2. Ledger!PutBack
        BY <1>3, <2>1, <3>1, <4>1 DEF Ledger!PutBack
      <4>3. QED
        BY <4>2 DEF Ledger!Next
    <3>5. QED
      BY <3>3, <3>4
  <2>6. QED
    BY <1>9, <2>2, <2>3, <2>4, <2>5 DEF Activation
<1>10. CASE Serving \/ Rebuild \/ Crash \/ UNCHANGED vars
  <2>1. UNCHANGED <<durable, backups>>
    BY <1>10 DEF Serving, UpFuseki, StopFuseki, Rebuild, BeginRebuild, TakeOffline,
       ReadPayloads, RefuseRebuild, BuildGraph, SetDatasetAside, PromoteDataset, StartServing,
       VerifyCutover, FailRebuild, RollBack, Crash, vars
  <2>2. QED
    BY <1>1, <1>2, <2>1 DEF durable, backups
<1>11. QED
  BY <1>5, <1>6, <1>7, <1>8, <1>9, <1>10 DEF Next

\* Snapshots, stages and states set aside implement the ledger of RecoveryLedger.
THEOREM RecoveryImplementsLedger == Spec => ImplementsRecoveryLedger
<1>1. Init => Ledger!Init
  BY DEF Init, Ledger!Init
<1>2. QED
  BY <1>1, LedgerStep, Invariant, PTL DEF Spec, ImplementsRecoveryLedger, Ledger!Spec
=============================================================================

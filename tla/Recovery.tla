------------------------------ MODULE Recovery ------------------------------
(***************************************************************************)
(* Backup, restore, activation and projection rebuild on the production    *)
(* host.  Two processes share the durable state directory and the Fuseki   *)
(* data directory: the pipeline (`oir-etl run` and `reconcile`) and one    *)
(* operations command, started by a timer or by an operator.  Each takes   *)
(* the operation lock, an flock the kernel drops when its holder dies.     *)
(* The host may crash between any two steps; Docker then restarts Fuseki   *)
(* if it was running.                                                      *)
(*                                                                         *)
(* A store is one durable SQLite file with the graph it publishes.  The    *)
(* payloads of all stores are numbered in the order they were staged.      *)
(***************************************************************************)
EXTENDS Integers

CONSTANTS
  Store,           \* the durable SQLite stores
  Core,            \* core-state.sqlite
  NoFile,          \* a store that does not exist
  NoDir,           \* a directory or snapshot that does not exist
  MaxWrites,       \* bound on payloads staged
  MaxSnapshots,    \* bound on snapshots taken
  MaxEpoch,        \* bound on durable states that go live
  MaxTime,         \* bound on the time stamps of activations
  MaxFaults        \* bound on host crashes and failed commands

ASSUME CoreIsAStore == Core \in Store
ASSUME BoundsAreNatural ==
  {MaxWrites, MaxSnapshots, MaxTime, MaxFaults} \subseteq Nat /\ MaxEpoch \in Nat \ {0}

VARIABLES
  live,       \* the durable state directory: its stores
  epoch,      \* history: which of the states that have gone live this one is
  previous,   \* live.previous-<timestamp>, by timestamp
  snapshots,  \* the Restic repository, by age
  taken,      \* snapshots taken so far
  stage,      \* the latest staged restore
  dataset,    \* the Fuseki data directory
  container,  \* the serving Fuseki container
  marker,     \* projection-rebuild-required
  wanted,     \* history: the state the last rebuild took Fuseki offline for
  lock,       \* who holds the operation lock
  run,        \* the pipeline process
  task,       \* the operations process
  writes, time, faults  \* time: of the last activation

durable == <<live, epoch, previous>>
backups == <<snapshots, taken, stage>>
fuseki == <<dataset, container, marker, wanted>>
counters == <<writes, time, faults>>
vars == <<durable, backups, fuseki, lock, run, task, counters>>

None == 0
Payload == 0..MaxWrites
Epoch == 1..MaxEpoch
Time == 0..MaxTime

\* What a store knows of its graph; used: it has the history of some run.
Cell == [published : Payload, pending : Payload, used : BOOLEAN]
Fresh == [published |-> None, pending |-> None, used |-> FALSE]
State == [Store -> Cell \cup {NoFile}]
NoState == [s \in Store |-> NoFile]
WholeState == [Store -> Cell]

\* A dataset: its graphs, and the live state they were built from.
Dataset == [graphs : [Store -> Payload], basis : Epoch]
\* A staged restore: activation wants the manifest, which is written last.
Stage == [stores : State, manifest : BOOLEAN]

\* What does not exist is none of the things that do.
ASSUME AbsenceIsNoValue == NoFile \notin Cell /\ NoDir \notin State \cup Dataset \cup Stage

Phase == {"idle", "backup", "retain", "restore", "activate", "install",
          "offline", "reconstruct", "build", "promote", "start", "verify"}
Task == [at : Phase, state : State, left : SUBSET Store, stamp : Time,
         built : Dataset \cup {NoDir}, old : Dataset \cup {NoDir}]
Idle == [at |-> "idle", state |-> NoState, left |-> {}, stamp |-> 0,
         built |-> NoDir, old |-> NoDir]
Resting == [at |-> "idle", store |-> Core]

Init ==
  /\ live = [s \in Store |-> Fresh]
  /\ epoch = 1
  /\ previous = [t \in Time |-> NoState]
  /\ snapshots = [i \in 1..MaxSnapshots |-> NoDir]
  /\ taken = 0
  /\ stage = NoDir
  /\ dataset = [graphs |-> [s \in Store |-> None], basis |-> 1]
  /\ container = "up"
  /\ marker = FALSE
  /\ wanted = 1
  /\ lock = "free"
  /\ run = Resting
  /\ task = Idle
  /\ writes = 0 /\ time = 0 /\ faults = 0

Fault == faults < MaxFaults /\ faults' = faults + 1 /\ UNCHANGED <<writes, time>>

----------------------------------------------------------------------------
\* The pipeline: a run works on one store and holds the lock throughout.

\* Opening a store creates it, and the directory, when they are not there.
Opened(s) == IF live[s] = NoFile THEN Fresh ELSE live[s]
OpenedEpoch == IF live = NoState THEN epoch + 1 ELSE epoch

StartRun(s) ==
  /\ lock = "free" /\ run.at = "idle"
  /\ OpenedEpoch \in Epoch
  /\ lock' = "run"
  /\ run' = [at |-> "ready", store |-> s]
  /\ live' = [live EXCEPT ![s] = [Opened(s) EXCEPT !.used = TRUE]]
  /\ epoch' = OpenedEpoch
  /\ UNCHANGED <<previous, backups, fuseki, task, counters>>

\* A pending payload is replayed as it is; only then is a new one staged.
StagePayload ==
  /\ run.at = "ready"
  /\ \/ /\ live[run.store].pending # None
        /\ UNCHANGED <<live, writes>>
     \/ /\ live[run.store].pending = None
        /\ writes < MaxWrites
        /\ writes' = writes + 1
        /\ live' = [live EXCEPT ![run.store] = [@ EXCEPT !.pending = writes + 1]]
  /\ run' = [run EXCEPT !.at = "staged"]
  /\ UNCHANGED <<epoch, previous, backups, fuseki, lock, task, time, faults>>

Put ==
  /\ run.at = "staged"
  /\ container = "up" /\ dataset # NoDir
  /\ dataset' = [dataset EXCEPT !.graphs = [@ EXCEPT ![run.store] = live[run.store].pending]]
  /\ run' = [run EXCEPT !.at = "put"]
  /\ UNCHANGED <<durable, backups, container, marker, wanted, lock, task, counters>>

Complete ==
  /\ run.at = "put"
  /\ live' = [live EXCEPT ![run.store] =
                [published |-> @.pending, pending |-> None, used |-> @.used]]
  /\ run' = Resting
  /\ lock' = "free"
  /\ UNCHANGED <<epoch, previous, backups, fuseki, task, counters>>

\* The run has nothing to publish, a request of it fails, or it dies.
LeaveRun ==
  /\ run.at # "idle"
  /\ run' = Resting
  /\ lock' = "free"
  /\ UNCHANGED <<durable, backups, fuseki, task, counters>>

----------------------------------------------------------------------------
\* Operations commands

Acquire == lock = "free" /\ task.at = "idle" /\ lock' = "task"
Release == lock' = "free" /\ task' = Idle

\* `state initialize` holds the lock for its one step.
Initialize ==
  /\ lock = "free" /\ task.at = "idle"
  /\ OpenedEpoch \in Epoch
  /\ live' = [s \in Store |-> Opened(s)]
  /\ epoch' = OpenedEpoch
  /\ UNCHANGED <<previous, backups, fuseki, lock, run, task, counters>>

\* Stores are handled one by one, Core State before the external links.
First(s, left) == s \in left /\ (Core \in left => s = Core)

\* Every input is resolved before the first is read.
InputsResolve == live \in WholeState

\* Mutant: the stores are copied without the lock.
BackupWithoutLock ==
  /\ task.at = "idle"
  /\ InputsResolve /\ taken < MaxSnapshots
  /\ task' = [Idle EXCEPT !.at = "backup", !.left = Store]
  /\ UNCHANGED <<durable, backups, fuseki, lock, run, counters>>

BeginBackup ==
  /\ Acquire
  /\ InputsResolve /\ taken < MaxSnapshots
  /\ task' = [Idle EXCEPT !.at = "backup", !.left = Store]
  /\ UNCHANGED <<durable, backups, fuseki, run, counters>>

\* One online snapshot of one SQLite store.
CopyStore(s) ==
  /\ task.at = "backup" /\ First(s, task.left)
  /\ task' = [task EXCEPT !.state = [@ EXCEPT ![s] = live[s]], !.left = @ \ {s}]
  /\ UNCHANGED <<durable, backups, fuseki, lock, run, counters>>

SaveSnapshot ==
  /\ task.at = "backup" /\ task.left = {}
  /\ taken' = taken + 1
  /\ snapshots' = [snapshots EXCEPT ![taken + 1] = task.state]
  /\ task' = [Idle EXCEPT !.at = "retain"]
  /\ UNCHANGED <<durable, stage, fuseki, lock, run, counters>>

\* restic forget always keeps the newest snapshot.
ApplyRetention ==
  /\ task.at = "retain"
  /\ \E dropped \in SUBSET (1..taken - 1) :
       snapshots' = [i \in 1..MaxSnapshots |-> IF i \in dropped THEN NoDir ELSE snapshots[i]]
  /\ Release
  /\ UNCHANGED <<durable, taken, stage, fuseki, run, counters>>

\* A restore resolves the inputs of a backup first, and writes a snapshot it
\* has validated to a new destination: the stage is the latest of these.
BeginRestore(i) ==
  /\ Acquire
  /\ InputsResolve
  /\ snapshots[i] # NoDir
  /\ task' = [Idle EXCEPT !.at = "restore", !.state = snapshots[i], !.left = Store]
  /\ stage' = [stores |-> NoState, manifest |-> FALSE]
  /\ UNCHANGED <<durable, snapshots, taken, fuseki, run, counters>>

StageStore(s) ==
  /\ task.at = "restore" /\ First(s, task.left)
  /\ stage' = [stage EXCEPT !.stores = [@ EXCEPT ![s] = task.state[s]]]
  /\ task' = [task EXCEPT !.left = @ \ {s}]
  /\ UNCHANGED <<durable, snapshots, taken, fuseki, lock, run, counters>>

FinishRestore ==
  /\ task.at = "restore" /\ task.left = {}
  /\ stage' = [stage EXCEPT !.manifest = TRUE]
  /\ Release
  /\ UNCHANGED <<durable, snapshots, taken, fuseki, run, counters>>

\* A copy that fails takes the fresh destination with it.
FailRestore ==
  /\ task.at = "restore" /\ Fault
  /\ stage' = NoDir
  /\ Release
  /\ UNCHANGED <<durable, snapshots, taken, fuseki, run>>

\* A backup that fails leaves nothing, or a snapshot without its retention.
FailBackup ==
  /\ task.at \in {"backup", "retain"} /\ Fault
  /\ Release
  /\ UNCHANGED <<durable, backups, fuseki, run>>

----------------------------------------------------------------------------
\* Activation of a staged restore: two renames

Activatable == stage # NoDir /\ stage.manifest /\ stage.stores \in WholeState

\* The stage is validated and copied beside the live directory, and a name
\* chosen for the state it replaces: its time stamp, which must be new.
BeginActivation ==
  /\ Acquire
  /\ Activatable /\ epoch < MaxEpoch
  /\ time' \in time..MaxTime
  /\ previous[time'] = NoState
  /\ task' = [Idle EXCEPT !.at = "activate", !.state = stage.stores, !.stamp = time']
  /\ UNCHANGED <<durable, backups, fuseki, run, writes, faults>>

SetStateAside ==
  /\ task.at = "activate"
  /\ previous' = [previous EXCEPT ![task.stamp] = live]
  /\ live' = NoState
  /\ task' = [task EXCEPT !.at = "install"]
  /\ UNCHANGED <<epoch, backups, fuseki, lock, run, counters>>

InstallState ==
  /\ task.at = "install"
  /\ live' = task.state
  /\ epoch' = epoch + 1
  /\ Release
  /\ UNCHANGED <<previous, backups, fuseki, run, counters>>

\* The second rename failed: the first is undone.
FailInstall ==
  /\ task.at = "install" /\ Fault
  /\ live' = previous[task.stamp]
  /\ previous' = [previous EXCEPT ![task.stamp] = NoState]
  /\ Release
  /\ UNCHANGED <<epoch, backups, fuseki, run>>

FailActivation ==
  /\ task.at = "activate" /\ Fault
  /\ Release
  /\ UNCHANGED <<durable, backups, fuseki, run>>

----------------------------------------------------------------------------
\* The serving container, started and stopped under the lock

\* Mutant: the marker is not looked at.
UpRegardless ==
  /\ lock = "free"
  /\ dataset # NoDir
  /\ container' = "up"
  /\ UNCHANGED <<durable, backups, dataset, marker, wanted, lock, run, task, counters>>

UpFuseki ==
  /\ lock = "free"
  /\ ~marker
  /\ dataset # NoDir
  /\ container' = "up"
  /\ UNCHANGED <<durable, backups, dataset, marker, wanted, lock, run, task, counters>>

StopFuseki ==
  /\ lock = "free"
  /\ container = "up"
  /\ container' = "down"
  /\ UNCHANGED <<durable, backups, dataset, marker, wanted, lock, run, task, counters>>

----------------------------------------------------------------------------
\* Rebuilding the projection: offline, in a private dataset, then cut over

\* The recovery boundary: a dirty graph's pending payload.
Selected(cell) == IF cell.pending # None THEN cell.pending ELSE cell.published
Projected(st) == [s \in Store |-> Selected(st[s])]

\* An empty inventory is believed only of a store no run has touched.
Provable(st) == Selected(st[Core]) = None => ~st[Core].used

\* The saved hash of an external graph is that of the payload's JSON form, the
\* reader's that of its bytes: it raises once the reconciliation store has one.
ExternalReadable(st) == \A s \in Store \ {Core} : Selected(st[s]) = None

\* Mutant: the rebuild does not take the lock.
RebuildWithoutLock ==
  /\ task.at = "idle"
  /\ dataset # NoDir
  /\ marker' = TRUE
  /\ task' = [Idle EXCEPT !.at = "offline"]
  /\ UNCHANGED <<durable, backups, dataset, container, wanted, lock, run, counters>>

BeginRebuild ==
  /\ Acquire
  /\ dataset # NoDir
  /\ marker' = TRUE
  /\ task' = [Idle EXCEPT !.at = "offline"]
  /\ UNCHANGED <<durable, backups, dataset, container, wanted, run, counters>>

TakeOffline ==
  /\ task.at = "offline"
  /\ container' = "down"
  /\ wanted' = epoch
  /\ task' = [task EXCEPT !.at = "reconstruct"]
  /\ UNCHANGED <<durable, backups, dataset, marker, lock, run, counters>>

\* The payloads are read before the first of them is written.
ReadPayloads ==
  /\ task.at = "reconstruct"
  /\ live \in WholeState /\ Provable(live) /\ ExternalReadable(live)
  /\ task' = [task EXCEPT !.at = "build", !.state = live, !.left = Store,
                !.built = [graphs |-> [s \in Store |-> None], basis |-> epoch]]
  /\ UNCHANGED <<durable, backups, fuseki, lock, run, counters>>

\* The script leaves Fuseki down and the marker in place.
RefuseRebuild ==
  /\ task.at = "reconstruct"
  /\ ~(live \in WholeState /\ Provable(live) /\ ExternalReadable(live))
  /\ Release
  /\ UNCHANGED <<durable, backups, fuseki, run, counters>>

BuildGraph(s) ==
  /\ task.at = "build" /\ First(s, task.left)
  /\ task' = [task EXCEPT !.left = @ \ {s}, !.built.graphs[s] = Projected(task.state)[s]]
  /\ UNCHANGED <<durable, backups, fuseki, lock, run, counters>>

\* The verified dataset takes the place of the serving one: two renames.
SetDatasetAside ==
  /\ task.at = "build" /\ task.left = {}
  /\ task' = [task EXCEPT !.at = "promote", !.old = dataset]
  /\ dataset' = NoDir
  /\ UNCHANGED <<durable, backups, container, marker, wanted, lock, run, counters>>

PromoteDataset ==
  /\ task.at = "promote"
  /\ dataset' = task.built
  /\ task' = [task EXCEPT !.at = "start"]
  /\ UNCHANGED <<durable, backups, container, marker, wanted, lock, run, counters>>

StartServing ==
  /\ task.at = "start"
  /\ container' = "up"
  /\ task' = [task EXCEPT !.at = "verify"]
  /\ UNCHANGED <<durable, backups, dataset, marker, wanted, lock, run, counters>>

VerifyCutover ==
  /\ task.at = "verify"
  /\ dataset.graphs = Projected(live)
  /\ marker' = FALSE
  /\ Release
  /\ UNCHANGED <<durable, backups, dataset, container, wanted, run, counters>>

\* A command fails before the cutover: the serving directory is untouched.
FailRebuild ==
  /\ task.at \in {"offline", "reconstruct", "build"} /\ Fault
  /\ Release
  /\ UNCHANGED <<durable, backups, fuseki, run>>

\* The exit trap: a cutover that does not complete is undone, and Fuseki
\* left absent.
RollBack ==
  /\ task.at \in {"promote", "start", "verify"} /\ Fault
  /\ dataset' = task.old
  /\ container' = "down"
  /\ Release
  /\ UNCHANGED <<durable, backups, marker, wanted, run>>

----------------------------------------------------------------------------
\* The host goes down and comes back: both processes are gone, and so is the
\* lock; the directories and the restart policy of the container are not.
Crash ==
  /\ Fault
  /\ run' = Resting
  /\ task' = Idle
  /\ lock' = "free"
  /\ UNCHANGED <<durable, backups, fuseki>>

Pipeline == (\E s \in Store : StartRun(s)) \/ StagePayload \/ Put \/ Complete \/ LeaveRun
Backup == BeginBackup \/ (\E s \in Store : CopyStore(s)) \/ SaveSnapshot \/ ApplyRetention \/ FailBackup
Restore == \/ \E i \in 1..MaxSnapshots : BeginRestore(i)
           \/ (\E s \in Store : StageStore(s)) \/ FinishRestore \/ FailRestore
Activation == BeginActivation \/ SetStateAside \/ InstallState \/ FailInstall \/ FailActivation
Serving == UpFuseki \/ StopFuseki
Rebuild == \/ BeginRebuild \/ TakeOffline \/ ReadPayloads \/ (\E s \in Store : BuildGraph(s))
           \/ SetDatasetAside \/ PromoteDataset \/ StartServing \/ VerifyCutover
           \/ RefuseRebuild \/ FailRebuild \/ RollBack

Next == \/ Initialize \/ Crash
        \/ Pipeline \/ Backup \/ Restore \/ Activation \/ Serving \/ Rebuild

Spec == Init /\ [][Next]_vars

----------------------------------------------------------------------------
\* Properties

TypeOK ==
  /\ live \in State
  /\ epoch \in Epoch
  /\ previous \in [Time -> State]
  /\ snapshots \in [1..MaxSnapshots -> WholeState \cup {NoDir}]
  /\ taken \in 0..MaxSnapshots
  /\ stage \in Stage \cup {NoDir}
  /\ dataset \in Dataset \cup {NoDir}
  /\ container \in {"up", "down"}
  /\ marker \in BOOLEAN
  /\ wanted \in Epoch
  /\ lock \in {"free", "run", "task"}
  /\ run \in [at : {"idle", "ready", "staged", "put"}, store : Store]
  /\ task \in Task
  /\ writes \in Payload /\ time \in Time /\ faults \in 0..MaxFaults

\* A graph of the dataset is the one its store has published, or the one the
\* store knows to be on its way, whichever run, rebuild, rollback or crash
\* came last; the exception is a dataset built from another durable state.
Accounted(graph, cell) ==
  graph = cell.published \/ (cell.pending # None /\ graph = cell.pending)
DatasetMatchesState ==
  dataset # NoDir /\ dataset.basis = epoch =>
    \A s \in Store : live[s] # NoFile => Accounted(dataset.graphs[s], live[s])

\* docs/development/operations.md:571: a rebuild that does not complete "does
\* not serve a potentially stale projection".  Once a rebuild has taken Fuseki
\* offline, only a projection of the live state is served, even after a
\* failure, a rollback or a crash, until another state goes live.
PassedOverIsNotServed ==
  container = "up" /\ wanted = epoch => dataset # NoDir /\ dataset.basis = epoch

\* Snapshots are states the stores were in at one instant, and activation
\* replaces the live state by one of those, keeping the one it replaces.
Ledger == INSTANCE RecoveryLedger WITH
  current <- live,
  points <- ({snapshots[i] : i \in 1..MaxSnapshots} \ {NoDir})
              \cup (IF stage # NoDir /\ stage.manifest THEN {stage.stores} ELSE {}),
  kept <- {previous[t] : t \in Time} \ {NoState}
ImplementsRecoveryLedger == Ledger!Spec

=============================================================================

CONSTANTS
  core = core
  reconciliation = reconciliation
  Core = core
  Store = {core, reconciliation}
  NoFile = NoFile
  NoDir = NoDir
  MaxWrites = 2
  MaxSnapshots = 2
  MaxEpoch = 2
  MaxTime = 0
  MaxFaults = 1
SPECIFICATION Spec
CHECK_DEADLOCK FALSE
INVARIANTS
  DatasetMatchesState
  PassedOverIsNotServed
PROPERTIES
  ImplementsRecoveryLedger

CONSTANTS
  Documents <- MCDocuments
  OwnerSets <- MCOwnerSets
SPECIFICATION ValidationSpec
INVARIANTS
  RefusedIsContested
  AlteredIsRefused
CHECK_DEADLOCK FALSE

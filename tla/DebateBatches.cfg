CONSTANTS
  first = first
  revised = revised
  other = other
  late = late
  stray = stray
  broken = broken
  w1 = w1
  w2 = w2
  e1 = e1
  e2 = e2
  e3 = e3
  Nothing = Nothing
  Source = {first, revised, other, late, stray, broken}
  Work = {w1, w2}
  WorkOf <- MCWorkOf
  ExpressionOf <- MCExpressionOf
  Misplaced = {stray}
  Rejected <- MCRejected
  Manifest <- MCManifest
  Inventories <- MCInventories
  MaxWorks = 2
  MaxBytes = 3
  MaxOwners = 1
  MaxBatches = 2
  MaxFailures = 1
SPECIFICATION BatchSpec
INVARIANTS
  WorkKeepsItsExpression
  FinishedBatchIsServed
PROPERTIES
  ResolvedWasPublished
CHECK_DEADLOCK FALSE

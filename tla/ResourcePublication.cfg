CONSTANTS
  Bill = {b1}
  Version = {v1, v2}
  MaxContract = 2
  MaxFaults = 3
  Nothing = Nothing
SPECIFICATION FairSpec
INVARIANTS
  CleanMatchesGraph
  
PROPERTIES
  DirtyIsResolved

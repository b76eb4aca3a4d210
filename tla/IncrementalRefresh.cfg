CONSTANTS
  Bill = {b1}
  Overlap = 1
  Lag = 1
  MaxTime = 5
  MaxFaults = 1
SPECIFICATION FairSpec

  
PROPERTY UpdateIsPublished

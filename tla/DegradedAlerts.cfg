CONSTANTS
  Source = {s1, s2}
  Threshold = 2
  FailedEvent = {e1}
  MaxRuns = 3
  MaxFaults = 2
SPECIFICATION FairSpec
INVARIANTS
  AlertedWasDelivered
PROPERTIES
  EpisodeIsDelivered
  FailureIsDelivered

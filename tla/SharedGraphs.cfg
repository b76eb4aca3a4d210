CONSTANTS
  parties = parties
  committees = committees
  a = a
  b = b
  x = x
  y = y
  Absent = Absent
  Shared = {parties, committees}
  Rank <- MCRank
  Committees = committees
  Houses = houses
  Units = units
  Offices = offices
  Owner = {a, b}
  Content = {x, y}
  Observation <- MCObservation
  MaxRuns = 3
  MaxFaults = 1
SPECIFICATION Spec
CHECK_DEADLOCK FALSE
INVARIANTS
  DescriptionsHaveSources
PROPERTIES
  SourceNeverOlder
  AuthorityStands
  ImplementsOwnerLedger

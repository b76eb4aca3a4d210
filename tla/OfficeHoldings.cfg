CONSTANTS
  NoDecision = NoDecision
  NotAccepted = NotAccepted
  NoPayload = NoPayload
  Snapshot = {a, b, c}
  Malformed = {c}
  Office = {o1, o2}
  MaxChanges = 2
  MaxFaults = 1
SYMMETRY Symmetry
SPECIFICATION Spec
INVARIANTS
  HoldingsAreAccepted
  HoldingsAreDistinct
PROPERTIES
  RetirementNeedsEvidence
  RemovalNeedsReview

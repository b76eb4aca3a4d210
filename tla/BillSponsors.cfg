CONSTANTS
  b1 = b1
  b2 = b2
  minister = minister
  deputy = deputy
  office = office
  rival = rival
  Bill = {b1, b2}
  Editions <- Lists
  Registries <- Offices
  Tenures <- Held
  Targets <- Accepted
  Nothing = Nothing
  MaxEdits = 2
  MaxRuns = 3
  MaxInterruptions = 1
SPECIFICATION SponsorSpec
INVARIANTS
  DecisionsAreJustified
  OnlyUnquestionedIsAutomatic
  FinishedRunIsServed
PROPERTY AbsenceRemovesNothing
CHECK_DEADLOCK FALSE

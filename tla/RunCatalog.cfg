CONSTANTS
  RunId = {r1, r2}
  Endpoint = {legislation, members}
  Legislation = legislation
  Bill = {b1}
  Time = {1, 2, 3}
  NoRun = NoRun
SPECIFICATION Spec
SYMMETRY Symmetry
CHECK_DEADLOCK FALSE
INVARIANTS
  SuccessIsPublished
  OverclaimIsDirty
  AuthorityIsEarned
PROPERTIES
  ImplementsLedger

CONSTANTS
  e1 = e1
  e2 = e2
  q1 = q1
  q2 = q2
  page = page
  Entity = {e1, e2}
  Qid = {q1, q2}
  Page = {page}
  Resource = {}
  Candidates <- MCCandidates
  Nothing = Nothing
  Rejected = Rejected
  MaxIdentity = 2
  MaxEdits = 1
  MaxRuns = 2
  MaxFaults = 1
SYMMETRY Interchangeable
SPECIFICATION Spec
INVARIANTS
  GraphIsAccountedFor
  SettledIsServed
  FinishedRunApplied
 

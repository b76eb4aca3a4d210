CONSTANTS
  Nothing = Nothing
  Previous = Previous
  Stores <- MCStores
  Graphs <- MCGraphs
  Questions <- MCQuestions
  Aliases <- MCAliases
  AsOf = 3
  PageSize = 3
  MaxOffset = 3
  MaxChanges = 1
SPECIFICATION QuestionSpec
INVARIANTS
  QuietAnswerIsCertain
  AnswerIsWitnessed
  OnePageMissesNobody
  PlanIsTheQuestion
CHECK_DEADLOCK FALSE

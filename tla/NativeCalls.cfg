CONSTANTS
  Methods <- MCMethods
  MaxOwed = 4
  MaxParts = 2
  MaxNesting = 16
  MaxBurst = 10
SPECIFICATION Spec
INVARIANTS
  RefusalTakesNothing
  BorrowedSurvives
  FailureGivesNothing
  AnswersAreRead
  CallsInOrder
CHECK_DEADLOCK FALSE

SPECIFICATION Spec
CONSTANTS
  Questions = {q1, q2}
  BodyHasAnswer = TRUE
  AnswersConsumed = TRUE
  MaxAnswers = 2
  MaxFaults = 1
INVARIANTS
  TypeOK
  NewestIsOnItsWay
  SettledIsNewest
PROPERTIES
  QueuedIsSent
CHECK_DEADLOCK FALSE

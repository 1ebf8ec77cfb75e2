SPECIFICATION Spec
CONSTANTS
  Questions = {q1}
  BodyHasAnswer = FALSE
  AnswersConsumed = FALSE
  MaxAnswers = 1
  MaxFaults = 0
PROPERTY PendingSavedFirst
CHECK_DEADLOCK FALSE

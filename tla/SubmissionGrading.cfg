SPECIFICATION Spec
CONSTANTS
  Starts = {start1}
  Digital = {submit1}
  Scans = {scan1}
  Graders = {w1, w2}
  Questions = {q1}
  None = none
  MaxAttempts = 2
  MaxRetries = 2
  ExamQueryLoads = TRUE
  AnswersStorable = TRUE
  MaxFaults = 1
INVARIANTS
  TypeOK
  NumbersHaveNoGap
  RacelessNumbering
  AllScoredIsGraded
PROPERTIES
  ScoredOnce
  EventuallyResolved
CHECK_DEADLOCK FALSE

SPECIFICATION Spec
CONSTANTS
  Workers = {w1, w2}
  Lecturers = {l1}
  Students = {s1}
  None = none
  StartTimes = {0, 100}
  Hours = {1}
  Minutes = {40}
  ExamQueryLoads = TRUE
  AttemptNumbered = TRUE
  MaxRetries = 2
  MaxQueue = 1
  Instants = {0, 100, 500, 700}
  MaxFaults = 1
INVARIANTS
  TypeOK
  StatusNotAheadOfClock
  EndKeepsDuration
PROPERTIES
  ForcedAfterEnd
  OwnSubmissionStands
  ForcedIsGraded
  FinishedInTheEnd
CHECK_DEADLOCK FALSE

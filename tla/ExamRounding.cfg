SPECIFICATION SafetySpec
CONSTANTS
  Workers = {w1}
  Lecturers = {}
  Students = {s1}
  None = none
  StartTimes = {100}
  Hours = {1}
  Minutes = {0, 40}
  ExamQueryLoads = FALSE
  AttemptNumbered = FALSE
  MaxRetries = 3
  MaxQueue = 1
  Instants = {0, 100, 700}
  MaxFaults = 0
INVARIANT EndIsStartPlusDuration
CHECK_DEADLOCK FALSE

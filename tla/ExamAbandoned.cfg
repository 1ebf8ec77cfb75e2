SPECIFICATION Spec
CONSTANTS
  Workers = {w1, w2}
  Lecturers = {}
  Students = {s1}
  None = none
  StartTimes = {100}
  Hours = {1}
  Minutes = {40}
  ExamQueryLoads = FALSE
  AttemptNumbered = FALSE
  MaxRetries = 2
  MaxQueue = 1
  Instants = {0, 100, 700}
  MaxFaults = 0
PROPERTY NobodyLeftUnsubmitted
CHECK_DEADLOCK FALSE

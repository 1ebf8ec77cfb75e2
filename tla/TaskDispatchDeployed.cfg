SPECIFICATION SafetySpec
CONSTANTS
  Workers = {w1, w2}
  Partitions = {p1}
  TaskModules = {grading}
  Undecodable = undecodable
  NoObject = noObject
  NoWorker = none
  NoTask = noTask
  MaxRetries = 3
  WorkerPublishes = FALSE
  MaxLog = 2
  MaxFaults = 2
INVARIANT AckedIsHandledOrForwarded
CHECK_DEADLOCK FALSE

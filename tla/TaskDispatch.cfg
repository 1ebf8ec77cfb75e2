SPECIFICATION Spec
CONSTANTS
  Workers = {w1, w2}
  Partitions = {p1}
  TaskModules = {grading}
  Undecodable = undecodable
  NoObject = noObject
  NoWorker = none
  NoTask = noTask
  MaxRetries = 2
  WorkerPublishes = TRUE
  MaxLog = 2
  MaxFaults = 2
INVARIANTS
  TypeOK
  InOrder
  AckedIsSettled
PROPERTIES
  RedeliveryNeedsFault
  DeliverySafety
  EventuallySettled
CHECK_DEADLOCK FALSE

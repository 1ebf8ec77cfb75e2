\* Nobody has to open or submit anything, and the clock ends: no deadlock check.
CONSTANTS
  None = None
  Ok = Ok
  Failed = Failed
  Copies = {wide, narrow}
  Duration = 2
  Limit = 2
  Questions = 2
  LastSecond = 2
  MaxVisits = 1
  MaxFailures = 1
SPECIFICATION Spec

  
PROPERTIES
  NotSubmittedEarly
  OpenExamIsSubmitted
CHECK_DEADLOCK FALSE

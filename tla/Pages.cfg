\* Users may stop at any time, and the counters end what they do: no deadlock check.
CONSTANTS
  All = All
  None = None
  Ok = Ok
  Failed = Failed
  Blank = Blank
  Students = {s1, s2}
  Terms = {fall, spring}
  Years = {y1, y2}
  Groups = {g1, g2}
  Records = {a, b}
  Values = {v}
  Own = a
  PerPage = 1
  MaxExams = 3
  MaxItems = 2
  MaxQuestions = 2
  MaxMoves = 1
  MaxOpens = 2
  MaxSaves = 1
  MaxChanges = 2
  MaxFailures = 1
  MaxEvents = 1
  MaxFaults = 1
SPECIFICATION Spec
INVARIANTS
  TypeOK
  OneRequestAtATime
  SettledPageIsCurrent
  
PROPERTIES
  SpinnerEndsWithQuery
  SavesKeepTheRest
SYMMETRY Symmetry
CHECK_DEADLOCK FALSE

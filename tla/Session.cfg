\* Users may stop at any time, and the counters end what they do: no deadlock check.
CONSTANTS
  None = None
  Tabs = {t1, t2}
  Admins = {ann}
  Lecturers = {}
  Students = {sam}
  Pages = {"login", "register", "create", "dashboard", "profile", "users"}
  MaxTokens = 2
  MaxCalls = 2
  MaxOpens = 1
  MaxFailures = 1
SPECIFICATION Spec
INVARIANT
  SessionIsConsistent
PROPERTIES
  RefusedLeaves
  BootEnds
CHECK_DEADLOCK FALSE

SPECIFICATION Spec
CONSTANTS
  Invoices = {i1, i2}
  Transactions = {t1, t2}
  Workers = {w1}
  Hooks = {h1, h2}
  None = none
  GivenByHand = {"paid", "cancelled"}
  Monnify = FALSE
  MaxRetries = 2
  MaxFaults = 1
INVARIANTS
  TypeOK
  PaidWasCharged
PROPERTIES
  PaidStays
  ChargeIsRecorded
CHECK_DEADLOCK FALSE

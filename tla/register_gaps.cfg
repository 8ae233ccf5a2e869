SPECIFICATION Spec
CONSTANTS
  Profiles <- Shipped
  MaxGap = 5
INVARIANTS
  ReadableIsPolled
CHECK_DEADLOCK FALSE

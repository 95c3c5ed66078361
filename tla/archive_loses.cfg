CONSTANTS
  Writers = {"proxy"}
  OperatorArchives = FALSE
  SizeArchives = TRUE
  MaxHash = 3
  MaxArchives = 1
SPECIFICATION Spec
INVARIANTS
  AcknowledgedKept
CHECK_DEADLOCK FALSE

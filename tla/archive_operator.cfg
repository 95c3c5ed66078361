CONSTANTS
  Writers = {"proxy", "dashboard"}
  OperatorArchives = TRUE
  SizeArchives = FALSE
  MaxHash = 5
  MaxArchives = 2
SPECIFICATION Spec
INVARIANTS
  TypeOK
  AcknowledgedKept
  
  
  NeverRefusedWhileServing
CHECK_DEADLOCK FALSE

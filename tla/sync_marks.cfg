CONSTANTS
  Patient = TRUE
  MaxRecords = 3
  MaxCalls = 1
  MaxRolls = 0
  MaxCuts = 0
  MaxCrashes = 0
SPECIFICATION Spec
INVARIANTS
  MarkedAfterReceipt
CHECK_DEADLOCK FALSE

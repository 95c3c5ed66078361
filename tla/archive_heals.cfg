CONSTANTS
  Writers = {"proxy", "command"}
  OperatorArchives = FALSE
  SizeArchives = TRUE
  MaxHash = 2
  MaxArchives = 2
SPECIFICATION FairSpec
PROPERTIES
  TamperResponseHeals
CHECK_DEADLOCK FALSE

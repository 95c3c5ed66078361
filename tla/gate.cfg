CONSTANTS
  Rules = {r1, r2}
  Placeholders = FALSE
  QueueDepth = 1
  TailRecords = 2
  StaleCycles = 1
  MaxChain = 3
  MaxEdits = 1
  MaxArchives = 1
  None = None
SPECIFICATION Spec
INVARIANTS
  TypeOK
  
PROPERTIES
  
  EditSeenShutsGate
CHECK_DEADLOCK FALSE
SYMMETRY RuleSymmetry

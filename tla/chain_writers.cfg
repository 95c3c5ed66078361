CONSTANTS
  Proxies = {p}
  Dashboards = {d}
  Clis = {}
  Shells = {s}
  OwnerFileErrors = TRUE
  MaxRecords = 2
  MaxCrashes = 1
  MaxShorts = 1
  NoDir = NoDir
  Orphan = Orphan
  NoOwner = NoOwner
  DeadPid = DeadPid
SPECIFICATION Spec
INVARIANTS
  TypeOK
  MutualExclusion
  LinearChain
  CheckpointOnChain
  NoFalseAlarm
  ReleasedOnIntactPrefix
PROPERTIES
  ImplementsHashLog
CHECK_DEADLOCK FALSE

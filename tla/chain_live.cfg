CONSTANTS
  Proxies = {p}
  Dashboards = {}
  Clis = {c}
  Shells = {s}
  OwnerFileErrors = TRUE
  MaxRecords = 1
  MaxCrashes = 1
  MaxShorts = 0
  NoDir = NoDir
  Orphan = Orphan
  NoOwner = NoOwner
  DeadPid = DeadPid
SPECIFICATION FairSpec
PROPERTIES
  AppendTerminates
  StaleLockBroken
CHECK_DEADLOCK FALSE

CONSTANTS
  Patient = TRUE
  MaxRecords = 3
  MaxCalls = 3
  MaxRolls = 1
  MaxCuts = 1
  MaxCrashes = 1
  Services <- TwoServices
  WithPort = {"proxy"}
  MaxRuns = 2
  MaxDeaths = 1
  MaxExits = 2
  MaxRestarts = 2
  Window = 3
  InitialBackoff = 4
  MaxBackoff = 10
  Threads = {t1, t2}
  Every = 2
  Deep = 3
  MaxCuttings = 1
  MaxHalts = 1
  Rules = {r1, r2}
  Placeholders = FALSE
  QueueDepth = 1
  TailRecords = 2
  StaleCycles = 2
  MaxChain = 1
  MaxEdits = 1
  MaxArchives = 1
  None = None
SPECIFICATION FairSpec
INVARIANTS
  TypeOK
  
  ConfirmedIsImported
  RemovedStaysOut
  
  
  Throttled
  DownBounded
PROPERTIES
  VerifiedAgain
  NoCallOnStaleSnapshot
  QuietHeartbeatsOpenGate
CHECK_DEADLOCK FALSE

CONSTANTS
  Plain = {p}
  Blocks = {}
  Chats = {}
  Items = {i}
  Chunks = {}
  Sockets = {}
  Ops = {push}
  PolicyAllows = {}
  Gates = {"ok", "relaxable"}
  DeveloperMode = TRUE
  CoarseClock = FALSE
  Faults = {"lost"}
  MaxFaults = 1
  MaxOperator = 2
  MaxMessages = 1
  MaxCrashes = 1
  Free = Free
SPECIFICATION FairSpec
INVARIANTS
  StoreIsCurrent
PROPERTIES
  HttpRequestEnds
  LoopIsGivenBack
CHECK_DEADLOCK FALSE

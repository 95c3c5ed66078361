CONSTANTS
  Plain = {}
  Blocks = {}
  Chats = {}
  Items = {}
  Chunks = {g}
  Sockets = {s}
  Ops = {read, push}
  PolicyAllows = {read}
  Gates = {"ok", "hard"}
  DeveloperMode = FALSE
  CoarseClock = FALSE
  Faults = {"lost"}
  MaxFaults = 1
  MaxOperator = 0
  MaxMessages = 3
  MaxCrashes = 0
  Free = Free
SPECIFICATION Spec
INVARIANTS
  DeliveredCallWasDecided
  
CHECK_DEADLOCK FALSE

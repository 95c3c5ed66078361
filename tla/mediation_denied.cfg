CONSTANTS
  Plain = {}
  Blocks = {}
  Chats = {}
  Items = {}
  Chunks = {g}
  Sockets = {}
  Ops = {read, push}
  PolicyAllows = {read}
  Gates = {"ok"}
  DeveloperMode = FALSE
  CoarseClock = FALSE
  Faults = {}
  MaxFaults = 0
  MaxOperator = 0
  MaxMessages = 1
  MaxCrashes = 0
  Free = Free
SPECIFICATION Spec
INVARIANTS
  DeniedCallWithheld
CHECK_DEADLOCK FALSE

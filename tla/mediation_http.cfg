CONSTANTS
  Plain = {p}
  Blocks = {b}
  Chats = {c}
  Items = {}
  Chunks = {}
  Sockets = {}
  Ops = {read, push}
  PolicyAllows = {read}
  Gates = {"ok"}
  DeveloperMode = FALSE
  CoarseClock = FALSE
  Faults = {"lost", "written"}
  MaxFaults = 1
  MaxOperator = 0
  MaxMessages = 1
  MaxCrashes = 1
  Free = Free
SPECIFICATION Spec
INVARIANTS
  TypeOK
  WholeAnswerDecided
  DeniedCallWithheld
  AllowedCallDelivered
  EveryExchangeRecorded
CHECK_DEADLOCK FALSE

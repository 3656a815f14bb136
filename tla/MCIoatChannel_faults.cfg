SPECIFICATION Spec
CONSTANTS
  Clients = {"c1", "c2"}
  MaxDesc = 4
  InitialDescs = 2
  MaxParts = 2
  PendingLevel = 2
  MaxCookie = 2
  MaxAllocs = 1
  MaySuspend = TRUE
  MayHalt = TRUE
  Prompt = FALSE
  MayTimeOut = TRUE
INVARIANTS ListsSound WatchdogArmed

SPECIFICATION FairSpec
CONSTANTS
  Clients = {"c1", "c2"}
  MaxDesc = 4
  InitialDescs = 2
  MaxParts = 2
  PendingLevel = 2
  MaxCookie = 2
  MaxAllocs = 1
  MaySuspend = FALSE
  MayHalt = TRUE
  Prompt = TRUE
  MayTimeOut = FALSE
PROPERTY WaitsEnd

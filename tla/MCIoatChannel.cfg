SPECIFICATION Spec
CONSTANTS
  Clients = {"c1", "c2"}
  MaxDesc = 4
  InitialDescs = 2
  MaxParts = 2
  PendingLevel = 2
  MaxCookie = 3
  MaxAllocs = 2
  MaySuspend = FALSE
  MayHalt = FALSE
  Prompt = TRUE
  MayTimeOut = FALSE
INVARIANTS ListsSound CompletedMeansCopied NoCopyAfterCompletion WatchdogArmed TimerQuietAfterFree

CONSTANTS
  NumChans = 2
  DMA_MAX_CHAN_PRIO = 2
  Clients = {p1, p2}
  MaxStarts = 2
  MaxCopies = 1
  MaxPages = 2
  Slots = 1
SPECIFICATION FairSpec
INVARIANTS GivenBack TimerSeesList
PROPERTIES HighAlone CopyEnds
CHECK_DEADLOCK FALSE

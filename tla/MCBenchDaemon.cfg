CONSTANTS
  N_CHAN = 3
  Programs = {"band", "cache", "mibench"}
  Rounds = 2
  NOps = 2
SPECIFICATION FairSpec
INVARIANTS StartTogether ThreadsCleanUp RoundsComplete
PROPERTY MainExits
CHECK_DEADLOCK FALSE

SPECIFICATION FairSpec
CONSTANTS
  PAGE_SIZE = 3
  MaxBase = 2
  MaxLen = 7
  MaxCopies = 2
  Slots = 2
  Stale = {0, 2}
INVARIANTS PiecesTile PagesMeant PinsAccounted WrittenDirty ReturnMeansCopied
PROPERTY CopyReturns
CHECK_DEADLOCK FALSE

SPECIFICATION Spec
CONSTANTS
  PAGE_SIZE = 2
  MaxBase = 1
  MaxLen = 3
  MaxCopies = 1
  Slots = 2
  Stale = {0}
INVARIANT PagesResident
CHECK_DEADLOCK FALSE

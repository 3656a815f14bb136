CONSTANTS
  Drivers = {"trace", "msg", "band", "cache"}
  MB_MINOR = 2
  BootSizes = {0, 8}
  Lens = {0, 2, 5}
  MaxLoads = 2
  MaxOps = 3
  MaxDisorder = 1
SPECIFICATION Spec
INVARIANTS Balanced FilesServed PolicyStopped PinsFollowCopies CopyInside
CHECK_DEADLOCK FALSE

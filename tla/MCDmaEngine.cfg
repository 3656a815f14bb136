SPECIFICATION Spec
CONSTANTS
  NumChans = 4
  NumCpus = 3
  ShUsers = {s1, s2, s3}
  ExUsers = {x1}
  AllocMayFail = TRUE
  MayUnload = TRUE
SYMMETRY UserSymmetry
INVARIANTS RefsBalanced DriverHeld ChannelUsable ExclusiveHeld NoneLeaked

CONSTANTS
  Progs = {"trace", "msg"}
  N_CPU = 2
  KERNEL_UNIT_BUFFER = 5
  N_UNIT = 3
  Reads = 2
  MaxEvents = 5
  PAGE_SIZE = 4
  N_CHAR_LINE = 4
  PLUS_CHAR_LINE = 1
  INT_RANGE = 1024
  MaxSize = 5
  BUFF_MEASURE = 3
  ShortWrites = TRUE
SPECIFICATION Spec
INVARIANTS RecordComplete OldDiscarded TextFits CleanUp
CHECK_DEADLOCK FALSE

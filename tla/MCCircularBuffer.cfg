CONSTANTS
  Size = 4
  Readers = {r1}
  ReadSizes <- MCReadSizes
  SingleReads = TRUE
  MaxEvents = 9
SPECIFICATION Spec
INVARIANTS AccessesApart DeliveredInOrder EventsAccounted
PROPERTY RefinesLog

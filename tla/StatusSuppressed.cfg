SPECIFICATION Spec
CONSTANTS
  CpuCount = 1
  MaxRecords = 1
  RingSlots = 1
  MaxTries = 2
INVARIANT UndisturbedStatusHolds
CHECK_DEADLOCK FALSE

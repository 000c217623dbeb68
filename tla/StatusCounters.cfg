SPECIFICATION Spec
CONSTANTS
  CpuCount = 2
  MaxRecords = 2
  RingSlots = 1
  MaxTries = 2
INVARIANTS
  TypeOK
  SubmittedIsConserved
  CollectorCountsInOrder
  RefusalHasACause
PROPERTY StatusEnds
CHECK_DEADLOCK FALSE

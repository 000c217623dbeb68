SPECIFICATION FairSpec
CONSTANT RingSlots = 2
INVARIANTS
  TypeOK
  ReportedBeforeCollecting
  CollectorLeavesOnlyLate
  OrderlyExitIsClean
PROPERTIES
  ImplementsLifecycle
  StopEndsTheRun

SPECIFICATION Spec
CONSTANTS
  Threads = {l, n}
  Leader = l
  MaxCalls = 3
  RingSlots = 2
  PendingSlots = 2
INVARIANTS
  TypeOK
  AttemptsAccounted
  NoOrphanResult
  GapOrArgv
  MissingArgvHasReason
  LostEntriesAreCounted
CHECK_DEADLOCK FALSE

SPECIFICATION Spec
CONSTANTS
  Main = main
  Other = other
  Clones = {"thread", "process"}
  Abis = {"b32", "b64"}
  Depth = 1
  Named = {0}
  MaxCalls = 4
  RingSlots = 2
INVARIANTS TypeOK PathIsTrue EarlierUnused CacheAgrees OldTablesGo
CHECK_DEADLOCK FALSE

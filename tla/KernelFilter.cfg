SPECIFICATION Spec
CONSTANTS
  Files <- MCFiles
  Calls <- MCCalls
  KernelPaths = 2
INVARIANTS TypeOK SavedIfCovered LineNamesFirstRule CoveredIsAccounted GapIsWarranted
CHECK_DEADLOCK FALSE

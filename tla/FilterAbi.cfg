SPECIFICATION Spec
CONSTANTS
  Files <- MCFiles
  Calls <- MCCalls
  KernelPaths = 2
INVARIANT AbiIsTold
CHECK_DEADLOCK FALSE

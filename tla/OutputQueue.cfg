SPECIFICATION Spec
CONSTANTS
  Initial = 5
  Max = 16
  Sizes = {1, 4, 7}
  LowDuration = 3
  Windows = {1, 3}
  MaxRecords = 7
INVARIANT TypeOK
PROPERTY ImplementsFifo

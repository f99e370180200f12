SPECIFICATION Spec
CONSTANTS
  Sizes = {0, 9, 40}
  TextSize <- MCTextSize
  maxShoeAllocation = 32
  WordBits = 2
  initialSize = 32
  Limits = {0, 57}
  MaxBlocks = 3
  MaxRestarts = 1
  RestartInterned = FALSE
INVARIANTS HeapSound CountCoversBlocks LimitHolds
PROPERTIES HeapImplementsBlocks UnlimitedNeverFails

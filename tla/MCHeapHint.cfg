SPECIFICATION Spec
CONSTANTS
  Sizes = {9, 20}
  TextSize <- MCTextSize
  maxShoeAllocation = 32
  WordBits = 2
  initialSize = 16
  Limits = {0, 50}
  MaxBlocks = 3
  MaxRestarts = 0
  RestartInterned = FALSE
PROPERTY UnlimitedNeverFails

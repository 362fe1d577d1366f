CONSTANTS
  PageSize = 12
  Base = 12
  MaxPages = 3
  Sizes = {1, 6, 9, 13}
  MaxBlocks = 3
  Data = {9, 70}
SPECIFICATION Spec
INVARIANTS ListTiles HeldIsAllocated NeverCorrupted
PROPERTIES AllocReturns
CHECK_DEADLOCK FALSE
VIEW ReadableState

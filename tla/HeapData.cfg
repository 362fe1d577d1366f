CONSTANTS
  PageSize = 12
  Base = 12
  MaxPages = 2
  Sizes = {1, 6}
  MaxBlocks = 3
  Data = {9}
SPECIFICATION Spec
INVARIANTS DataIntact
CHECK_DEADLOCK FALSE

CONSTANTS
  Places = 4
  Ready <- DrivesReady
  Identifies <- DrivesIdentified
  LastSector <- LastSectors
  Early <- EarlyRegisters
  Data <- TwoValues
  Contents <- StartContents
  MaxDisks = 2
  MaxCount = 2
  MaxTicks = 2
SPECIFICATION Spec
INVARIANTS FlushedOnReturn
CHECK_DEADLOCK FALSE

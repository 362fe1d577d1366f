CONSTANTS
  MaxTicks = 2
  MaxScancodes = 2
  Disks <- SomeDisks
SPECIFICATION Spec
INVARIANTS CallsReachHandlers FirstDiskMounted RightRing FaultsReported
PROPERTIES BootEnds KeysDelivered ContextRestored
CHECK_DEADLOCK FALSE

CONSTANTS
  PerTable = 5
  Total = 14
  TableOfTables = 1
  FirstTables <- FirstTablesOrder
  Boot <- BootPages
  Framebuffer <- FramebufferPages
  Program <- ProgramPages
  Heap <- HeapPages
SPECIFICATION Spec
INVARIANTS FramesExclusive TakenIsMapped CounterAgrees TablesAgree
PROPERTIES FramesKept
CHECK_DEADLOCK FALSE

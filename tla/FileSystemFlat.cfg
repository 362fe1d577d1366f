CONSTANTS
  root = root
  d1 = d1
  d2 = d2
  f1 = f1
  f2 = f2
  a = a
  b = b
  none = none
  u = u
  v = v
  Desc <- FlatDesc
  Root = root
  Dirs <- FlatDirs
  Names <- NamesAB
  NoName = none
  Data <- DataUV
  DiskSize = 9
  SectorSize = 2
  BitmapSectors = 3
  RootRefs = 3
  MaxFile = 2
  Careful = TRUE
  Image <- FlatImage
SPECIFICATION AuditSpec
INVARIANTS SectorsExclusive TakenIsOwned CounterAgrees ContentSurvives FullDiskLosesNothing CrashKeepsFiles
VIEW CurrentContents
SYMMETRY Interchangeable
CHECK_DEADLOCK FALSE

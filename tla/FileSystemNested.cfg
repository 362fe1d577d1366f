CONSTANTS
  root = root
  d1 = d1
  d2 = d2
  f1 = f1
  f2 = f2
  a = a
  b = b
  none = none
  u = u
  v = v
  Desc <- NestedDesc
  Root = root
  Dirs <- NestedDirs
  Names <- NamesA
  NoName = none
  Data <- DataU
  DiskSize = 8
  SectorSize = 2
  BitmapSectors = 3
  RootRefs = 3
  MaxFile = 2
  Careful = TRUE
  Image <- NestedImage
SPECIFICATION AuditSpec
INVARIANTS TreeLinked MountFindsTree
PROPERTIES BitsBeforeReferences CallsReturn
VIEW CurrentContents
CHECK_DEADLOCK FALSE

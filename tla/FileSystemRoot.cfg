CONSTANTS
  root = root
  d1 = d1
  d2 = d2
  f1 = f1
  f2 = f2
  a = a
  b = b
  none = none
  u = u
  v = v
  Desc <- FlatDesc
  Root = root
  Dirs <- FlatDirs
  Names <- NamesAB
  NoName = none
  Data <- DataU
  DiskSize = 8
  SectorSize = 2
  BitmapSectors = 3
  RootRefs = 1
  MaxFile = 1
  Careful = TRUE
  Image <- FlatImage
SPECIFICATION Spec
INVARIANTS SuperblockMountable
CHECK_DEADLOCK FALSE

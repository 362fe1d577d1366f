CONSTANTS
  s = s
  t = t
  given = given
  zero = zero
  junk = junk
  Names <- TwoNames
  Parameter = given
  Items <- TwoItems
  Default = "a"
  Terminator = zero
  Junk = junk
  BlockSize = 2
  Texts <- TextSet
  MaxSize = 4
  MaxOverwritten = 1
  MaxBuffers = 6
  Levels <- AllLevels
  Words = {"word"}
  Numerals <- NumeralSet
  Sixteenths <- SixteenthSet
  Sizes <- SizeSet
  MaxLine = 2
  SectorBytes = 20
  DiskSectors = 30
SPECIFICATION LibrarySpec
VIEW View
INVARIANTS BuffersOwned PathsResolve OutputReadable ImagesMount
PROPERTIES ArraysAreSequences
CHECK_DEADLOCK FALSE

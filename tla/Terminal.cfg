CONSTANTS
  blank = blank
  block = block
  newline = newline
  zero = zero
  a = a
  b = b
  prompt = prompt
  unknown = unknown
  used = used
  Terminator = zero
  PowerOff <- PowerOffText
  MaxCommand = 6
  Width = 3
  Height = 5
  Glyphs <- AllGlyphs
  Blank = blank
  Block = block
  NewLine = newline
  Characters <- CharactersAB
  Prompt <- PromptText
  Unknown <- UnknownText
  MemStat <- MemStatText
  Report <- ReportText
SPECIFICATION Spec
INVARIANTS CommandShown LineShown
CHECK_DEADLOCK FALSE

CONSTANTS
  QueueSize = 3
  Up = 128
  Keys <- SomeKeys
  Terminator <- ZeroByte
  PowerOff <- PowerOffText
  MaxCommand = 3
  MaxEvents = 5
SPECIFICATION ShellSpec
INVARIANTS CommandIsTyped
PROPERTIES RingIsQueue EventsTaken
CHECK_DEADLOCK FALSE

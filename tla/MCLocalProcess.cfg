SPECIFICATION LiveSpec
CONSTANTS
  Worlds <- AllWorlds
  Room = 1
  Input = 2
INVARIANTS
  NothingRunsUnseen
  CapturesAreWhole
  StreamOutlivesReader
PROPERTIES
  ProcessWorkEnds

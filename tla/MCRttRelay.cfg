SPECIFICATION LiveSpec
CONSTANTS
  Worlds <- AllWorlds
  ChannelRoom = 2
  StdoutRoom = 2
  PipeBuf = 2
  Chunk = 2
  MaxPending = 2
INVARIANTS
  
  LeavesNothingBehind
PROPERTIES
  ResultKeepsOutput
  RelayEnds
  

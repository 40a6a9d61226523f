SPECIFICATION LiveSpec
CONSTANTS
  gdb = gdb
  rtt = rtt
  tcl = tcl
  Forwards = {gdb}
  Programs <- Attaching
PROPERTIES
  OperationEnds
  ReadyIsSeen

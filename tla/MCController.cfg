SPECIFICATION Spec
CONSTANTS
  gdb = gdb
  rtt = rtt
  tcl = tcl
  Forwards = {gdb, rtt, tcl}
  Programs <- AllPrograms
INVARIANTS
  ProtocolSpeaksFirst
  RefusalIsTheLastReason
  SuccessIsEarned
PROPERTIES
  WorkMeetsALiveSession
  CtrlCStopsEffects

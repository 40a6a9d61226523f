------------------------ MODULE MCControllerSession ------------------------
\* TLC instances of ControllerSession: the programs of _runner.py.
EXTENDS ControllerSession

CONSTANTS gdb, rtt, tcl

Step(do, group) == [do |-> do, group |-> group]
Bare(do) == [do |-> do]

\* debug: GDB owns Ctrl-C; the forwards of Tcl and telnet are optional.
Debug == <<Step("required", {gdb}), Step("optional", {tcl}), Bare("check"),
           Bare("interactive client"), Bare("look")>>

\* rtt: a batch GDB, then a client of a second required forward.
Rtt == <<Step("required", {gdb}), Bare("check"), Bare("batch client"),
         Step("relax", {gdb}), Step("required", {rtt}), Bare("check"),
         Bare("batch client")>>

\* debugserver and flash wait for OpenOCD.
DebugServer == <<Step("required", {gdb, rtt}), Bare("check"), Bare("wait")>>

Flash == <<Bare("wait")>>

\* One step of each blocking kind, for the liveness run.
Attach == <<Step("required", {gdb}), Bare("batch client"), Bare("wait")>>

Operation(steps, live, log, stuck) ==
  [steps |-> steps, live |-> live, log |-> log, stuck |-> stuck]

AllPrograms ==
  {Operation(Debug, TRUE, FALSE, {"forward"}),
   Operation(Rtt, TRUE, FALSE, {}),
   Operation(DebugServer, TRUE, FALSE, {"ssh", "forward", "reader"}),
   Operation(Flash, FALSE, TRUE, {"ssh", "reader"})}

Attaching == {Operation(Attach, TRUE, FALSE, {})}
============================================================================

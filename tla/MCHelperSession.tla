-------------------------- MODULE MCHelperSession --------------------------
(***************************************************************************)
(* TLC instances of HelperSession.  One instance checks several worlds, so *)
(* that each question meets the failures it is about and not the product   *)
(* of all of them.                                                         *)
(***************************************************************************)
EXTENDS HelperSession

\* A live server that must publish one piece of readiness evidence.
LiveServer == [policy |-> "live_server", required |-> {"listening"}, log |-> FALSE]

\* A one-shot operation (flash), and one that records the OpenOCD log.
OneShot     == [policy |-> "process_exit", required |-> {}, log |-> FALSE]
LoggingShot == [policy |-> "process_exit", required |-> {}, log |-> TRUE]

Calm(request) ==
  [request |-> request, streams |-> {}, output |-> 0, written |-> 0,
   faulty |-> {}, faults |-> {}, signals |-> FALSE]

SignalledServer == [Calm(LiveServer) EXCEPT !.signals = TRUE]

EscapingLog == [Calm(LoggingShot) EXCEPT !.written = 3, !.faults = {"escape"}]

FailingSystem ==
  [Calm(LiveServer) EXCEPT
     !.streams = {"stdout"}, !.faulty = {"exit"},
     !.faults = {"startup", "spawn", "artifact", "lease", "remove", "stuck"}]

StalledClient ==
  [Calm(OneShot) EXCEPT !.streams = {"stdout"}, !.output = 1,
                        !.faulty = {"writer", "control"}, !.faults = {"backlog"}]

\* For the liveness properties.
StuckServer == [Calm(LiveServer) EXCEPT !.streams = {"stdout"}, !.faults = {"stuck"}]

FailingLog == [Calm(LoggingShot) EXCEPT !.faulty = {"log"}, !.faults = {"escape"}]

ChildWorlds      == {SignalledServer, EscapingLog}
FailureWorlds    == {FailingSystem, StalledClient}
EndingWorlds     == {StuckServer, FailingLog}
UnansweredWorlds == {[Calm(LoggingShot) EXCEPT !.signals = TRUE]}

\* START fails before the log channel is made, and then the lease cannot be closed.
UnopenedWorlds == {[Calm(LoggingShot) EXCEPT !.faults = {"startup", "lease"}]}

============================================================================

--------------------------- MODULE ManagedProcess ---------------------------
(***************************************************************************)
(* The SSH transport of a helper connection: its acquisition and rollback  *)
(* (SshCommand.popen, ManagedSshProcess, controller/_ssh.py), the thread   *)
(* that drains its stderr (StderrDrain), and the cleanup by the connection *)
(* (controller/helper_connection.py), whose own thread reads its stdout.   *)
(* A stream is closed only by a thread that has seen its reader stop.      *)
(***************************************************************************)
EXTENDS LocalProcess

VARIABLES
  drain,      \* the stderr thread: none, waiting, reading, finished
  stopping,   \* the drain was asked to stop, and woken
  noise,      \* its pipe holds output
  outsider,   \* a connection-sharing master holds the pipe's other end
  reader,     \* the event thread: none, waiting, handling, final, finished
  adopted,    \* the connection owns the transport
  closing     \* stop_process may close the data streams, too

threadVars == <<drain, stopping, noise, outsider, reader>>
managedVars == <<threadVars, adopted, closing>>

ManagedInit ==
  /\ drain = "none" /\ stopping = FALSE /\ noise = FALSE /\ outsider = FALSE
  /\ reader = "none" /\ adopted = FALSE /\ closing = FALSE

Streams == {"in", "out", "err"}

DrainRuns == drain \in {"waiting", "reading"}
ReaderRuns == reader \in {"waiting", "handling", "final"}

----------------------------------------------------------------------------
\* Acquisition: SshCommand.popen and HelperConnection._acquire

\* No child, or one that was reaped because it could not execute the launcher;
\* a child at whose construction the owner failed; or a child.
Spawn ==
  /\ step = "spawn"
  /\ \/ step' = "raised" /\ UNCHANGED <<proc, open, outsider>>
     \/ step' = "raised" /\ proc' = "reaped" /\ UNCHANGED <<open, outsider>>
     \/ /\ step' \in IF world.faulty THEN {"start drain", "roll back"} ELSE {"start drain"}
        /\ proc' = "live" /\ open' = Streams /\ outsider' \in BOOLEAN
  /\ UNCHANGED <<world, signals, ending, reported,
                 drain, stopping, noise, reader, adopted, closing>>

\* A start that fails may leave the thread running or not.
StartDrain ==
  /\ step = "start drain"
  /\ \/ step' = "adopt" /\ drain' = "waiting"
     \/ world.faulty /\ step' = "roll back" /\ drain' \in {"none", "waiting"}
  /\ UNCHANGED <<world, proc, signals, ending, open, reported,
                 stopping, noise, outsider, reader, adopted, closing>>

\* The signal mask is restored, then on_acquired runs inside the rollback.
Adopt ==
  /\ step = "adopt"
  /\ \/ /\ step' = "start reader" /\ adopted' = TRUE
        /\ open' = open \cup {"completion"}
     \/ world.faulty /\ step' = "roll back" /\ adopted' \in BOOLEAN /\ UNCHANGED open
  /\ UNCHANGED <<world, proc, signals, ending, reported, threadVars, closing>>

RollBack ==
  /\ step = "roll back" /\ step' = "stop"
  /\ ending' = "poll" /\ closing' = TRUE
  /\ UNCHANGED <<world, proc, signals, open, reported, threadVars, adopted>>

StartReader ==
  /\ step = "start reader"
  /\ \/ step' = "use" /\ reader' = "waiting"
     \/ world.faulty /\ step' = "close" /\ reader' \in {"waiting", "finished"}
  /\ UNCHANGED <<world, proc, signals, ending, open, reported,
                 drain, stopping, noise, outsider, adopted, closing>>

Use ==
  /\ step = "use" /\ step' = "close"
  /\ UNCHANGED <<world, proc, signals, ending, open, reported, managedVars>>

----------------------------------------------------------------------------
\* HelperConnection.close: _request_shutdown, _cleanup_control_process

\* A connection whose reader was not yet started starts it now, and it fails
\* on a stream that the rollback has closed.
RequestShutdown ==
  /\ step = "close" /\ step' = "wait"
  /\ reader' = IF reader # "none" THEN reader
               ELSE IF "out" \in open THEN "waiting" ELSE "finished"
  /\ open' = open \ {"in"}
  /\ UNCHANGED <<world, proc, signals, ending, reported,
                 drain, stopping, noise, outsider, adopted, closing>>

\* HELPER_STOP_TIMEOUT for the helper to end by itself.
AwaitHelper ==
  /\ step = "wait" /\ step' = "join"
  /\ \/ Gone /\ proc' = "reaped" /\ UNCHANGED reported
     \/ reported' = TRUE /\ UNCHANGED proc
  /\ UNCHANGED <<world, signals, ending, open, managedVars>>

\* Mutant: the streams are closed whether or not the reader has stopped.
JoinReaderAnyway ==
  /\ step = "join" /\ step' = "stop"
  /\ ending' = "poll" /\ closing' = TRUE
  /\ UNCHANGED <<world, proc, signals, open, reported, threadVars, adopted>>

\* Two seconds for the reader to stop: only then are its streams closed.
JoinReader ==
  /\ step = "join" /\ step' = "stop"
  /\ ending' = "poll" /\ closing' = ~ReaderRuns
  /\ UNCHANGED <<world, proc, signals, open, reported, threadVars, adopted>>

Stopped ==
  /\ step = "stop" /\ ending = "done"
  /\ step' = "close err" /\ ending' = "idle"
  /\ UNCHANGED <<world, proc, signals, open, reported, managedVars>>

\* StderrDrain.close: a second for the end of the stream, then the drain is
\* asked to stop without it.
CloseErr ==
  /\ step = "close err"
  /\ IF DrainRuns
     THEN step' = "stop drain" /\ stopping' = TRUE /\ UNCHANGED open
     ELSE step' = "close streams" /\ open' = open \ {"err"} /\ UNCHANGED stopping
  /\ UNCHANGED <<world, proc, signals, ending, reported,
                 drain, noise, outsider, reader, adopted, closing>>

\* A drain that has not stopped within another second retains its stream.
StopDrain ==
  /\ step = "stop drain" /\ step' = "close streams"
  /\ IF DrainRuns
     THEN reported' = TRUE /\ UNCHANGED open
     ELSE open' = open \ {"err"} /\ UNCHANGED reported
  /\ UNCHANGED <<world, proc, signals, ending, managedVars>>

RollingBack == reader = "none"

CloseStreams ==
  /\ step = "close streams"
  /\ open' = IF closing THEN open \ {"in", "out"} ELSE open
  /\ step' = IF ~RollingBack THEN "join again" ELSE IF adopted THEN "close" ELSE "raised"
  /\ UNCHANGED <<world, proc, signals, ending, reported, managedVars>>

\* A reader that stopped late, as the end of the helper lets it, has its
\* streams closed by a second stop_process; one that did not retains them.
\* Here the cleanup has returned.  close() then hands the stderr tail to the
\* caller's output handler (_emit_diagnostic), which may stall: not modelled.
JoinAgain ==
  /\ step = "join again"
  /\ \/ /\ closing
        /\ step' = "returned" /\ open' = open \ {"completion"}
        /\ UNCHANGED <<ending, reported, closing>>
     \/ /\ ~closing /\ ReaderRuns
        /\ step' = "returned" /\ reported' = TRUE
        /\ UNCHANGED <<ending, open, closing>>
     \/ /\ ~closing /\ ~ReaderRuns
        /\ step' = "stop" /\ ending' = "poll" /\ closing' = TRUE
        /\ UNCHANGED <<open, reported>>
  /\ UNCHANGED <<world, proc, signals, threadVars, adopted>>

----------------------------------------------------------------------------
\* The two threads

\* A wait on the pipe and the stop request, then a raw read; a failure ends
\* the drain.
DrainStep ==
  /\ \/ /\ drain = "waiting" /\ (noise \/ (Gone /\ ~outsider))
        /\ drain' = "reading" /\ UNCHANGED noise
     \/ /\ drain = "waiting" /\ stopping
        /\ ~noise /\ ~(Gone /\ ~outsider)
        /\ drain' = "finished" /\ UNCHANGED noise
     \/ /\ drain = "reading"
        /\ drain' = IF noise /\ ~stopping THEN "waiting" ELSE "finished"
        /\ noise' = FALSE
  /\ UNCHANGED <<localVars, stopping, outsider, reader, adopted, closing>>

DrainFails ==
  /\ world.faulty /\ drain = "waiting" /\ drain' = "finished"
  /\ UNCHANGED <<localVars, stopping, noise, outsider, reader, adopted, closing>>

\* The reader hands what it reads to handlers of the caller, which may write to
\* a consumer that stalls.  The end of the helper, which it observes by the
\* completion descriptor and never reaps, gives it one last look at the stream;
\* the end of the stream may come first.
ReaderStep ==
  /\ \/ reader = "waiting" /\ ~Gone /\ reader' = "handling"
     \/ reader = "waiting" /\ reader' = "final"
     \/ reader = "handling" /\ ~world.stalls /\ reader' = "waiting"
     \/ reader = "final" /\ ~world.stalls /\ reader' = "finished"
  /\ UNCHANGED <<localVars, drain, stopping, noise, outsider, adopted, closing>>

HandlerRecovers ==
  /\ world.stalls
  /\ \/ reader = "handling" /\ reader' = "waiting"
     \/ reader = "final" /\ reader' = "finished"
  /\ UNCHANGED <<localVars, drain, stopping, noise, outsider, adopted, closing>>

\* SSH and whoever shares its stderr; SSH ends at the end of its input, or
\* with the connection.
Environment ==
  \/ /\ proc = "live" \/ outsider
     /\ "err" \in open /\ ~noise /\ noise' = TRUE
     /\ UNCHANGED <<localVars, drain, stopping, outsider, reader, adopted, closing>>
  \/ /\ proc = "live" /\ proc' = "dead"
     /\ UNCHANGED <<world, step, signals, ending, open, reported, managedVars>>
  \/ /\ outsider /\ ~world.lingers /\ outsider' = FALSE
     /\ UNCHANGED <<localVars, drain, stopping, noise, reader, adopted, closing>>

----------------------------------------------------------------------------
Coordinator ==
  \/ Spawn \/ StartDrain \/ Adopt \/ RollBack \/ StartReader \/ Use
  \/ RequestShutdown \/ AwaitHelper \/ JoinReader \/ Stopped \/ CloseErr
  \/ StopDrain \/ CloseStreams \/ JoinAgain
  \/ TerminateProcess /\ UNCHANGED managedVars

ManagedNext ==
  \/ Coordinator \/ DrainStep \/ DrainFails \/ ReaderStep \/ HandlerRecovers
  \/ Environment
  \/ DieOfSignal /\ UNCHANGED managedVars

----------------------------------------------------------------------------
\* No stream is closed under the thread that waits on it or reads it: not the
\* stderr pipe under its drain, nor stdout and the completion descriptor under
\* the event reader, whatever timed out before.  A descriptor closed under a
\* thread can come to name another file.
StreamOutlivesReader ==
  /\ DrainRuns => "err" \in open
  /\ ReaderRuns => "out" \in open
  /\ ReaderRuns /\ adopted /\ reader # "none" => "completion" \in open
=============================================================================

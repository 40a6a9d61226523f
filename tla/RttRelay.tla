------------------------------ MODULE RttRelay ------------------------------
(***************************************************************************)
(* The RTT client (controller/_rtt.py): it connects to the local end of    *)
(* the forwarded RTT channel, puts the terminal in raw mode, and relays    *)
(* both directions from one thread until the session has a result.         *)
(*                                                                         *)
(* Bytes are numbered in the order in which the target or the typist made  *)
(* them.  The reader thread of the session prints OpenOCD's output to the  *)
(* same standard output (_runner.py, the output handler), a pipe of which  *)
(* only the fill matters: it gives what was written in the order written.  *)
(***************************************************************************)
EXTENDS Naturals, Sequences

CONSTANTS
  Worlds,      \* the worlds a client may run in, see World
  ChannelRoom, \* capacity of the channel, per direction
  StdoutRoom,  \* capacity of the pipe behind standard output
  PipeBuf,     \* PIPE_BUF
  Chunk,       \* _INPUT_CHUNK_SIZE, also the first read
  MaxPending   \* _MAX_PENDING_INPUT

\* What a client meets: how many bytes the target, the typist and the printer
\* make (bounds), who goes on receiving, and what may end it.
World ==
  [output : Nat, typed : Nat, printed : Nat,
   receives : SUBSET {"consumer", "target"},
   ends : SUBSET {"result", "raises", "press", "hangup"}]

ASSUME RelayConstants ==
  /\ \A w \in Worlds : w \in World
  /\ ChannelRoom \in Nat \ {0} /\ MaxPending \in Nat \ {0}
  /\ PipeBuf \in Nat \ {0} /\ StdoutRoom \in Nat /\ StdoutRoom >= PipeBuf
  /\ Chunk \in 1 .. PipeBuf

VARIABLES
  at,       \* the client's next step
  outcome,  \* how it ends: none, result or error
  socket,   \* RttConnection.socket: none, open, or stuck if it cannot be closed
  expired,  \* whether startup_timeout has passed
  tty,      \* the terminal: cooked, raw, or broken if it cannot be restored
  relay,    \* RttRelay: input_open, pending_input, pending_output, initial
  ready,    \* the descriptors the last wait reported
  session,  \* what poll_operation does: none, result or raises
  pressed,  \* whether Ctrl-C was pressed
  channel,  \* the forwarded channel: bytes on their way, and if the far end is up
  stdin,    \* typed bytes not read yet, and whether stdin is at its end
  stdout,   \* how many bytes are in the pipe
  history,  \* bytes made and bytes delivered, per origin
  world     \* the World the client runs in, which never changes

vars == <<at, outcome, socket, expired, tty, relay, ready, session, pressed,
          channel, stdin, stdout, history, world>>

local == <<at, outcome, socket, expired, tty, relay, ready>>
outside == <<session, pressed, channel, stdin, stdout, history>>

\* Each connection to the forward opens a channel of its own.
Fresh == [up |-> TRUE, to |-> << >>, from |-> << >>]

Connecting == {"connect", "connecting", "failed", "delay"}

Init ==
  /\ world \in Worlds
  /\ at = "connect" /\ outcome = "none" /\ socket = "none" /\ expired = FALSE
  /\ tty = "cooked" /\ ready = {}
  /\ relay = [open |-> TRUE, in |-> << >>, out |-> << >>, initial |-> << >>]
  /\ session = "none" /\ pressed = FALSE
  /\ channel = Fresh
  /\ stdin = [bytes |-> << >>, ended |-> FALSE] /\ stdout = 0
  /\ history = [output |-> 0, typed |-> 0, printed |-> 0,
                shown |-> << >>, heard |-> << >>]

Take(n, s) == SubSeq(s, 1, n)
Drop(n, s) == SubSeq(s, n + 1, Len(s))

Least(a, b) == IF a < b THEN a ELSE b

Writable == StdoutRoom - stdout >= PipeBuf

Fails(step) == at' = step /\ outcome' = "error"

\* wait_for raises a recorded cancellation before it reports anything.
Cancelled(step) == pressed /\ Fails(step)

----------------------------------------------------------------------------
\* RttConnection.acquire

Connect ==
  /\ at = "connect"
  /\ socket' = "open" /\ at' = "connecting"
  /\ UNCHANGED <<outcome, expired, tty, relay, ready, outside, world>>

\* connect_ex, and the wait for it: the forward refuses, the deadline passes,
\* or the forward accepts, whatever the far end does with the channel.
Connected ==
  /\ at = "connecting"
  /\ \/ Cancelled("close")
     \/ ~pressed /\ at' \in {"failed", "grace"} /\ UNCHANGED outcome
  /\ UNCHANGED <<socket, expired, tty, relay, ready, outside, world>>

\* The wait for initial output, up to _INITIAL_OUTPUT_GRACE.  An end-of-file
\* means that the far end could not open the channel, which is not retried;
\* a reset is.
InitialOutput ==
  /\ at = "grace"
  /\ \/ Cancelled("close") /\ UNCHANGED <<relay, channel>>
     \/ /\ ~pressed
        /\ IF channel.from # << >>
           THEN \E n \in 1 .. Least(Chunk, Len(channel.from)) :
                  /\ relay' = [relay EXCEPT !.initial = Take(n, channel.from)]
                  /\ channel' = [channel EXCEPT !.from = Drop(n, @)]
                  /\ at' = "terminal" /\ UNCHANGED outcome
           ELSE IF channel.up
           THEN at' = "terminal" /\ UNCHANGED <<outcome, relay, channel>>
           ELSE \/ Fails("close") /\ UNCHANGED <<relay, channel>>
                \/ at' = "failed" /\ channel' = Fresh /\ UNCHANGED <<outcome, relay>>
  /\ UNCHANGED <<socket, expired, tty, ready, session, pressed, stdin, stdout,
                 history, world>>

\* A failed attempt is retried only once its socket is closed.
ReleaseAttempt ==
  /\ at = "failed"
  /\ \/ socket' = "none" /\ at' = "delay" /\ UNCHANGED outcome
     \/ socket' = "stuck" /\ Fails("close")
  /\ UNCHANGED <<expired, tty, relay, ready, outside, world>>

Retry ==
  /\ at = "delay"
  /\ IF pressed \/ expired THEN Fails("close") ELSE at' = "connect" /\ UNCHANGED outcome
  /\ UNCHANGED <<socket, expired, tty, relay, ready, outside, world>>

StartupExpires ==
  /\ ~expired /\ at \in Connecting \cup {"grace"}
  /\ expired' = TRUE
  /\ UNCHANGED <<at, outcome, socket, tty, relay, ready, outside, world>>

----------------------------------------------------------------------------
\* RttRelay.run

\* Mutant: raw mode is entered before anything undertakes to leave it.
EnterTerminalUnowned ==
  /\ at = "terminal"
  /\ tty' \in {"cooked", "raw"}
  /\ \/ at' = "poll" /\ UNCHANGED outcome
     \/ Fails("close")
  /\ relay' = [relay EXCEPT !.out = @ \o relay.initial, !.initial = << >>]
  /\ UNCHANGED <<socket, expired, ready, outside, world>>

\* _terminal_mode: stdin may be no terminal, and setting it may fail.
EnterTerminal ==
  /\ at = "terminal"
  /\ tty' \in {"cooked", "raw"}
  /\ \/ at' = "poll" /\ UNCHANGED outcome
     \/ Fails("restore")
  /\ relay' = [relay EXCEPT !.out = @ \o relay.initial, !.initial = << >>]
  /\ UNCHANGED <<socket, expired, ready, outside, world>>

\* Mutant: the result does not give pending output its chance.
PollSessionReturns ==
  /\ at = "poll"
  /\ CASE session = "none"   -> at' = "wait" /\ UNCHANGED outcome
       [] session = "result" -> at' = "restore" /\ outcome' = "result"
       [] session = "raises" -> Fails("restore")
  /\ UNCHANGED <<socket, expired, tty, relay, ready, outside, world>>

PollSession ==
  /\ at = "poll"
  /\ CASE session = "none"   -> at' = "wait" /\ UNCHANGED outcome
       [] session = "result" -> at' = "finish" /\ outcome' = "result"
       [] session = "raises" -> Fails("restore")
  /\ UNCHANGED <<socket, expired, tty, relay, ready, outside, world>>

\* Mutants: input is left out while output is pending, and the channel is
\* read whatever is pending.
SelectedHalfDuplex ==
  (IF relay.open /\ Len(relay.in) < MaxPending /\ relay.out = << >> THEN {"stdin"} ELSE {})
    \cup (IF relay.out = << >> THEN {"recv"} ELSE {"stdout"})
    \cup (IF relay.in # << >> /\ relay.out = << >> THEN {"send"} ELSE {})

\* What the loop waits for.  The side that fills a buffer is left out while it
\* is full, and the channel is read only once earlier output was delivered.
Selected ==
  (IF relay.open /\ Len(relay.in) < MaxPending THEN {"stdin"} ELSE {})
    \cup (IF relay.out = << >> THEN {"recv"} ELSE {"stdout"})
    \cup (IF relay.in # << >> THEN {"send"} ELSE {})

IsReady(d) ==
  CASE d = "stdin"  -> stdin.bytes # << >> \/ stdin.ended
    [] d = "recv"   -> channel.from # << >> \/ ~channel.up
    [] d = "send"   -> Len(channel.to) < ChannelRoom \/ ~channel.up
    [] d = "stdout" -> Writable

\* The handlers follow in the code's order, each if its descriptor is ready.
Handlers == <<"stdin", "send", "stdout", "recv">>

Following(i, ds) ==
  LET later == {j \in i + 1 .. Len(Handlers) : Handlers[j] \in ds} IN
  IF later = {} THEN "poll" ELSE Handlers[CHOOSE j \in later : \A k \in later : j <= k]

Wait ==
  /\ at = "wait"
  /\ \/ Cancelled("restore") /\ UNCHANGED ready
     \/ /\ ~pressed
        /\ session # "none" \/ \E d \in Selected : IsReady(d)
        /\ ready' = {d \in Selected : IsReady(d)}
        /\ at' = Following(0, ready') /\ UNCHANGED outcome
  /\ UNCHANGED <<socket, expired, tty, relay, outside, world>>

ReadInput ==
  /\ at = "stdin"
  /\ LET n == Least(Least(Chunk, MaxPending - Len(relay.in)), Len(stdin.bytes)) IN
       /\ relay' = IF n = 0 THEN [relay EXCEPT !.open = FALSE]
                   ELSE [relay EXCEPT !.in = @ \o Take(n, stdin.bytes)]
       /\ stdin' = [stdin EXCEPT !.bytes = Drop(n, @)]
  /\ at' = Following(1, ready)
  /\ UNCHANGED <<outcome, socket, expired, tty, ready, session, pressed, channel,
                 stdout, history, world>>

\* Mutant: what a partial write left is forgotten.
SendPendingInputOnce ==
  /\ at = "send"
  /\ \/ \E n \in 1 .. Least(Len(relay.in), ChannelRoom - Len(channel.to)) :
          /\ channel' = [channel EXCEPT !.to = @ \o Take(n, relay.in)]
          /\ relay' = [relay EXCEPT !.in = << >>]
          /\ at' = Following(2, ready) /\ UNCHANGED outcome
     \/ ~channel.up /\ Fails("restore") /\ UNCHANGED <<channel, relay>>
  /\ UNCHANGED <<socket, expired, tty, ready, session, pressed, stdin, stdout,
                 history, world>>

\* A write may be partial; a channel whose far end is gone may refuse it.
SendPendingInput ==
  /\ at = "send"
  /\ \/ \E n \in 1 .. Least(Len(relay.in), ChannelRoom - Len(channel.to)) :
          /\ channel' = [channel EXCEPT !.to = @ \o Take(n, relay.in)]
          /\ relay' = [relay EXCEPT !.in = Drop(n, @)]
          /\ at' = Following(2, ready) /\ UNCHANGED outcome
     \/ ~channel.up /\ Fails("restore") /\ UNCHANGED <<channel, relay>>
  /\ UNCHANGED <<socket, expired, tty, ready, session, pressed, stdin, stdout,
                 history, world>>

\* _deliver_output.  The write is enabled once it fits: until then the thread
\* is blocked in it, which happens when the printer took the room that the
\* wait reported.
Deliver ==
  LET n == Least(PipeBuf, Len(relay.out)) IN
  /\ StdoutRoom - stdout >= n
  /\ stdout' = stdout + n
  /\ history' = [history EXCEPT !.shown = @ \o Take(n, relay.out)]
  /\ relay' = [relay EXCEPT !.out = Drop(n, @)]

DeliverOutput ==
  /\ at = "stdout"
  /\ Deliver
  /\ at' = Following(3, ready)
  /\ UNCHANGED <<outcome, socket, expired, tty, ready, session, pressed, channel,
                 stdin, world>>

\* At the end of the channel a recorded session result comes first, but not
\* where the channel is reset: what was on its way is lost with it.
ReceiveOutput ==
  /\ at = "recv"
  /\ \/ \E n \in 1 .. Least(Chunk, Len(channel.from)) :
          /\ relay' = [relay EXCEPT !.out = @ \o Take(n, channel.from)]
          /\ channel' = [channel EXCEPT !.from = Drop(n, @)]
          /\ at' = "poll" /\ UNCHANGED outcome
     \/ /\ channel.from = << >> /\ session = "result"
        /\ at' = "restore" /\ outcome' = "result" /\ UNCHANGED <<relay, channel>>
     \/ /\ channel.from = << >> /\ session # "result"
        /\ Fails("restore") /\ UNCHANGED <<relay, channel>>
     \/ ~channel.up /\ Fails("restore") /\ UNCHANGED <<relay, channel>>
  /\ UNCHANGED <<socket, expired, tty, ready, session, pressed, stdin, stdout,
                 history, world>>

\* Mutant: the result waits for the consumer.
FinishOutputWaits ==
  /\ at = "finish"
  /\ relay.out # << >> => Deliver
  /\ relay.out = << >> => UNCHANGED <<relay, stdout, history>>
  /\ at' = "restore"
  /\ UNCHANGED <<outcome, socket, expired, tty, ready, session, pressed, channel,
                 stdin, world>>

\* _finish_output: one chance for output that was already received, and a wait
\* that can report a cancellation in its place.
FinishOutput ==
  /\ at = "finish"
  /\ \/ relay.out # << >> /\ Cancelled("restore") /\ UNCHANGED <<relay, stdout>>
     \/ /\ ~pressed /\ Writable /\ relay.out # << >>
        /\ at' = "last write" /\ UNCHANGED <<outcome, relay, stdout>>
     \/ /\ relay.out = << >> \/ (~pressed /\ ~Writable)
        /\ at' = "restore" /\ UNCHANGED <<outcome, relay, stdout>>
  /\ UNCHANGED <<socket, expired, tty, ready, session, pressed, channel, stdin,
                 history, world>>

LastWrite ==
  /\ at = "last write"
  /\ Deliver
  /\ at' = "restore"
  /\ UNCHANGED <<outcome, socket, expired, tty, ready, session, pressed, channel,
                 stdin, world>>

----------------------------------------------------------------------------
\* The ends of _terminal_mode and run_rtt_client, on every path.

RestoreTerminal ==
  /\ at = "restore"
  /\ \/ tty' = "cooked" /\ UNCHANGED outcome
     \/ tty = "raw" /\ tty' = "broken" /\ outcome' = "error"
  /\ at' = "close"
  /\ UNCHANGED <<socket, expired, relay, ready, outside, world>>

CloseSocket ==
  /\ at = "close"
  /\ \/ socket' = "none" /\ UNCHANGED outcome
     \/ socket # "none" /\ socket' = "stuck" /\ outcome' = "error"
  /\ at' = "done"
  /\ UNCHANGED <<expired, tty, relay, ready, outside, world>>

----------------------------------------------------------------------------
\* The target, the typist, the consumer, the printer and the session

TargetWrites ==
  /\ at \notin Connecting /\ channel.up /\ Len(channel.from) < ChannelRoom /\ history.output < world.output
  /\ channel' = [channel EXCEPT !.from = Append(@, history.output + 1)]
  /\ history' = [history EXCEPT !.output = @ + 1]
  /\ UNCHANGED <<local, session, pressed, stdin, stdout, world>>

TargetReads ==
  /\ channel.to # << >>
  /\ channel' = [channel EXCEPT !.to = Tail(@)]
  /\ history' = [history EXCEPT !.heard = Append(@, Head(channel.to))]
  /\ UNCHANGED <<local, session, pressed, stdin, stdout, world>>

ChannelCloses ==
  /\ at \notin Connecting /\ channel.up /\ "hangup" \in world.ends
  /\ channel' = [channel EXCEPT !.up = FALSE]
  /\ UNCHANGED <<local, session, pressed, stdin, stdout, history, world>>

Type ==
  /\ ~stdin.ended /\ history.typed < world.typed
  /\ stdin' = [stdin EXCEPT !.bytes = Append(@, history.typed + 1)]
  /\ history' = [history EXCEPT !.typed = @ + 1]
  /\ UNCHANGED <<local, session, pressed, channel, stdout, world>>

TypingEnds ==
  /\ ~stdin.ended
  /\ stdin' = [stdin EXCEPT !.ended = TRUE]
  /\ UNCHANGED <<local, session, pressed, channel, stdout, history, world>>

ConsumerTakes ==
  /\ stdout > 0
  /\ stdout' = stdout - 1
  /\ UNCHANGED <<local, session, pressed, channel, stdin, history, world>>

Prints ==
  /\ history.printed < world.printed
  /\ stdout < StdoutRoom
  /\ stdout' = stdout + 1
  /\ history' = [history EXCEPT !.printed = @ + 1]
  /\ UNCHANGED <<local, session, pressed, channel, stdin, world>>

SessionEnds ==
  /\ session = "none"
  /\ session' \in {"result", "raises"} \cap world.ends
  /\ UNCHANGED <<local, pressed, channel, stdin, stdout, history, world>>

CtrlC ==
  /\ ~pressed /\ "press" \in world.ends
  /\ pressed' = TRUE
  /\ UNCHANGED <<local, session, channel, stdin, stdout, history, world>>

----------------------------------------------------------------------------
Client ==
  \/ Connect \/ Connected \/ InitialOutput \/ ReleaseAttempt \/ Retry
  \/ EnterTerminal \/ PollSession \/ Wait
  \/ ReadInput \/ SendPendingInput \/ DeliverOutput \/ ReceiveOutput
  \/ FinishOutput \/ LastWrite \/ RestoreTerminal \/ CloseSocket

\* What happens after the client is done is left out.
Outside ==
  /\ at # "done"
  /\ \/ TargetWrites \/ TargetReads \/ ChannelCloses \/ Type \/ TypingEnds
     \/ ConsumerTakes \/ Prints \/ SessionEnds \/ CtrlC

Done == at = "done" /\ UNCHANGED vars

Next == Client \/ StartupExpires \/ Outside \/ Done

Spec == Init /\ [][Next]_vars

\* The client's thread runs, and its startup deadline passes; only the parties
\* of the world keep going.
Fairness ==
  /\ WF_vars(Client) /\ WF_vars(StartupExpires)
  /\ WF_vars("consumer" \in world.receives /\ ConsumerTakes)
  /\ WF_vars("target" \in world.receives /\ TargetReads)

LiveSpec == Spec /\ Fairness

----------------------------------------------------------------------------
Numbers(n) == [i \in 1 .. n |-> i]

Steps == Connecting \cup {Handlers[i] : i \in 1 .. Len(Handlers)} \cup
         {"grace", "terminal", "poll", "wait", "finish", "last write", "restore",
          "close", "done"}

Relaying == at \in Steps \ {"restore", "close", "done"}

\* The values of the variables.
RelayTypeOK ==
  /\ at \in Steps /\ outcome \in {"none", "result", "error"}
  /\ socket \in {"none", "open", "stuck"} /\ tty \in {"cooked", "raw", "broken"}
  /\ ready \subseteq {"stdin", "recv", "send", "stdout"}
  /\ session \in {"none", "result", "raises"}
  /\ stdout \in 0 .. StdoutRoom

\* Whatever was written in part, read in pieces or stalled, no byte of either
\* direction is lost, doubled or out of order while the relay runs, and what
\* was delivered by its end is the beginning of what was sent; for all that the
\* relay holds at most _MAX_PENDING_INPUT of input, and one chunk of output.
StreamsAreWhole ==
  /\ Len(relay.in) <= MaxPending /\ Len(relay.out \o relay.initial) <= Chunk
  /\ IF Relaying
     THEN history.shown \o relay.out \o relay.initial \o channel.from
            = Numbers(history.output)
     ELSE \E n \in 0 .. history.output : history.shown = Numbers(n)
  /\ history.heard \o channel.to \o relay.in \o stdin.bytes = Numbers(history.typed)

\* A session's result leaves behind none of the output the client received,
\* unless the consumer has no room for it (_finish_output).
ResultKeepsOutput ==
  [][at # "restore" /\ at' = "restore" /\ outcome' = "result" =>
       relay'.out = << >> \/ ~Writable]_vars

\* On every way out the terminal is as it was and the socket is closed; what
\* could not be is an error of the client, never its result.
LeavesNothingBehind ==
  at = "done" =>
    /\ tty # "raw" /\ socket # "open"
    /\ tty = "broken" \/ socket = "stuck" => outcome = "error"

\* The client ends after the session's end or Ctrl-C, also when nobody takes
\* its output.  Only a printer that took the room between the wait and the
\* write can hold it in the write, until the consumer makes room again.
RelayEnds ==
  (session # "none" \/ pressed) /\ (world.printed = 0 \/ "consumer" \in world.receives)
    ~> at = "done"

\* Each direction flows while its own receiver does, though the other is
\* stalled with its buffer full: no byte that was there stays on the way.
DirectionsAreIndependent ==
  /\ "consumer" \in world.receives /\ Len(history.shown) < history.output
       ~> at = "done" \/ Len(history.shown) = history.output
  /\ "target" \in world.receives /\ Len(history.heard) < history.typed
       ~> at = "done" \/ Len(history.heard) = history.typed
=============================================================================

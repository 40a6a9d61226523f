------------------------------ MODULE LogRelay ------------------------------
(***************************************************************************)
(* The helper's owner of the OpenOCD log channel (helper/_log_relay.py) as *)
(* operators on a relay record.  Bytes are whatever elements the caller    *)
(* puts in a chunk.  HelperSession.tla drives them as part of the session. *)
(*                                                                         *)
(* `incomplete' is the code of the recorded cause, "none" for Python's     *)
(* None; `decision' is the LogReport's completeness, "none" before it.     *)
(***************************************************************************)
EXTENDS Naturals, Sequences

CONSTANT BufferLimit    \* LOG_RELAY_BUFFER_BYTES, in the model's bytes

Decisions == {"none", "complete", "incomplete"}

Opened ==
  [buffer |-> << >>, admitted |-> 0, lost |-> FALSE, eof |-> FALSE,
   reading |-> TRUE, final |-> FALSE, disposed |-> FALSE,
   incomplete |-> "none", decision |-> "none"]

\* The first cause stands, and none is recorded after the decision.
RecordIncomplete(r, cause) ==
  IF r.incomplete = "none" /\ r.decision = "none"
  THEN [r EXCEPT !.incomplete = cause] ELSE r

LoseContinuity(r) == [r EXCEPT !.lost = TRUE, !.buffer = << >>]

AcceptEOF(r) == [r EXCEPT !.eof = TRUE, !.reading = FALSE, !.final = TRUE]

\* Mutant of Accept: an overflow loses bytes without a recorded cause.
AcceptSilently(r, chunk) ==
  LET room == BufferLimit - Len(r.buffer) IN
  IF r.lost \/ r.decision # "none" THEN r
  ELSE [r EXCEPT !.buffer = @ \o SubSeq(chunk, 1, IF Len(chunk) > room THEN room
                                                  ELSE Len(chunk))]

\* The part of an overflowing chunk that fits is kept: it is contiguous.
Accept(r, chunk) ==
  LET room == BufferLimit - Len(r.buffer) IN
  IF r.lost \/ r.decision # "none" THEN r
  ELSE IF Len(chunk) > room
  THEN RecordIncomplete([r EXCEPT !.buffer = @ \o SubSeq(chunk, 1, room),
                                  !.lost = TRUE], "LOG_RELAY_OVERFLOW")
  ELSE [r EXCEPT !.buffer = @ \o chunk]

\* Mutant of Admit: the offset of the next LOG_DATA does not advance.
AdmitUncounted(r, n) == [r EXCEPT !.buffer = SubSeq(@, n + 1, Len(@))]

\* One turn of pump()'s loop that admits the first n buffered bytes ...
Admit(r, n) ==
  [r EXCEPT !.buffer = SubSeq(@, n + 1, Len(@)), !.admitted = @ + n]

\* ... or whose admission raises.
AdmissionFails(r) == RecordIncomplete(LoseContinuity(r), "LOG_DATA_ADMISSION")

ConfirmDisposal(r) == [r EXCEPT !.disposed = TRUE, !.final = TRUE]

Cut(r) ==
  RecordIncomplete([r EXCEPT !.reading = FALSE, !.final = TRUE],
                   "LOG_DISPOSAL_UNCONFIRMED")

ReadFailed(r) == RecordIncomplete([r EXCEPT !.reading = FALSE], "LOG_READ_FAILURE")

ReadyToDecide(r) ==
  r.decision = "none" /\ r.final /\ ~r.reading /\ r.buffer = << >>

Decide(r, deadline, childAcquired) ==
  LET late    == IF deadline /\ (r.buffer # << >> \/ r.reading)
                 THEN RecordIncomplete(r, "LOG_DRAIN_DEADLINE") ELSE r
      settled == IF childAcquired /\ ~(r.eof /\ r.disposed)
                 THEN RecordIncomplete(late, "LOG_RELAY_UNSETTLED") ELSE late
  IN  IF r.decision # "none" THEN r
      ELSE [LoseContinuity(settled) EXCEPT
              !.decision = IF settled.incomplete = "none" THEN "complete"
                           ELSE "incomplete"]

\* What _log_progress does after it has pumped.
DecideIfReady(r) == IF ReadyToDecide(r) THEN Decide(r, FALSE, TRUE) ELSE r

\* report(): completeness of the terminal LogReport.
Report(r, childDisposalConfirmed) ==
  LET decided == Decide(r, FALSE, TRUE) IN
  IF decided.decision = "complete" /\ childDisposalConfirmed
  THEN "complete" ELSE "incomplete"
=============================================================================

-------------------------- MODULE SessionAuthority --------------------------
(***************************************************************************)
(* The local authority between the reader thread, which reports what the   *)
(* helper says, and the coordinator, which does the dependent work         *)
(* (controller/authority.py), with its launch gate                         *)
(* (controller/admission.py), as operators on one record.  Its lock makes  *)
(* each of them one step.                                                  *)
(*                                                                         *)
(* A failure is known by its code; OPERATION_FAILUREs by their error:      *)
(* CANCELLED (OperationCancelled), ENDING (SessionEndingError), CLOSED     *)
(* (SessionClosedError) and EFFECT (any other).  `woken' is the pending    *)
(* hint of the coordinator's notifier.                                     *)
(***************************************************************************)
EXTENDS Sequences, Functions

Codes == {"TERMINAL_FAILURE", "READER_FAILURE", "CONTROL_ENDED",
          "CONTROL_PROCESS_FAILURE", "FORWARD_FAILURE", "HELPER_WAIT_FAILURE",
          "HELPER_CLEANUP_FAILURE", "MISSING_TERMINAL", "SESSION_CLEANUP_FAILURE",
          "CANCELLED", "ENDING", "CLOSED", "EFFECT"}

\* What a terminal snapshot means under the operation's policy: a failure, a
\* natural exit with 0, or an end the client asked for.
Outcomes == {"failed", "exited", "released"}

Authority ==
  [failures : Seq(Codes), terminal : Outcomes \cup {"none"}, log : BOOLEAN,
   deferred : BOOLEAN, closing : BOOLEAN, created : BOOLEAN, ready : BOOLEAN,
   ended : BOOLEAN, pending : BOOLEAN, woken : BOOLEAN,
   phase : {"opening", "active", "cancelling", "ended"}]

NewAuthority ==
  [failures |-> << >>, terminal |-> "none", log |-> FALSE,
   deferred |-> FALSE, closing |-> FALSE, created |-> FALSE, ready |-> FALSE,
   ended |-> FALSE, pending |-> FALSE, woken |-> FALSE, phase |-> "opening"]

Notify(a) == [a EXCEPT !.woken = TRUE]

Failed(a) == a.failures # << >>

Primary(a) == Head(a.failures)

RecordCreated(a) == Notify([a EXCEPT !.created = TRUE])

\* Mutant of RecordReady: the state is published without a wakeup.
RecordReadyQuietly(a) == [a EXCEPT !.ready = TRUE]

RecordReady(a) == Notify([a EXCEPT !.ready = TRUE])

\* Mutant of RecordFailure: a refusal during the final observation is
\* recorded like any failure.
RecordFailureAtOnce(a, code) ==
  IF code \in Range(a.failures) THEN a
  ELSE Notify([a EXCEPT !.failures = Append(@, code),
                        !.phase = IF @ = "ended" THEN @ ELSE "cancelling"])

\* A refusal that only says that the session is ending waits for what the
\* final observation finds.
RecordFailure(a, code) ==
  IF code \in Range(a.failures) THEN a
  ELSE IF a.pending /\ code = "ENDING" THEN [a EXCEPT !.deferred = TRUE]
  ELSE Notify([a EXCEPT !.failures = Append(@, code),
                        !.phase = IF @ = "ended" THEN @ ELSE "cancelling"])

\* Mutant of RecordTerminal: the state is published without a wakeup.
RecordTerminalQuietly(a, outcome, logIncomplete) ==
  LET seen == [a EXCEPT !.terminal = outcome, !.log = @ \/ logIncomplete]
      told == IF outcome = "failed" THEN RecordFailure(seen, "TERMINAL_FAILURE") ELSE seen
  IN  [told EXCEPT !.phase = "ended"]

\* record_terminal; an incomplete log is no fatal fact.
RecordTerminal(a, outcome, logIncomplete) ==
  LET seen == [a EXCEPT !.terminal = outcome, !.log = @ \/ logIncomplete]
      told == IF outcome = "failed" THEN RecordFailure(seen, "TERMINAL_FAILURE") ELSE seen
  IN  Notify([told EXCEPT !.phase = "ended"])

Cancel(a) ==
  Notify([a EXCEPT !.closing = TRUE, !.phase = IF @ = "ended" THEN @ ELSE "cancelling"])

BeginControlExit(a) == Notify([a EXCEPT !.ended = TRUE, !.pending = TRUE])

\* Mutant of FinishControlExit: it forgets the refusals it deferred.
FinishControlExitOnly(a) ==
  LET told == IF a.terminal = "none" THEN RecordFailure(a, "CONTROL_ENDED") ELSE a
  IN  Notify([told EXCEPT !.pending = FALSE])

FinishControlExit(a) ==
  LET told  == IF a.terminal = "none" THEN RecordFailure(a, "CONTROL_ENDED") ELSE a
      known == [told EXCEPT !.pending = FALSE, !.deferred = FALSE]
  IN  Notify(IF a.deferred THEN RecordFailure(known, "ENDING") ELSE known)

\* operation_status of a session that has not failed: is there a result?
HasResult(a) == ~a.pending /\ a.terminal # "none"

\* No further event is to come.
Over(a) == a.ended \/ a.terminal # "none"

\* admit_helper_effect: why staging or START is refused, "none" if it is not.
\* The caller's Ctrl-C is the last condition.
EffectRefusal(a, cancelled) ==
  IF Failed(a) THEN Primary(a)
  ELSE IF a.pending THEN "ENDING"
  ELSE IF Over(a) THEN "EFFECT"
  ELSE IF cancelled THEN "CANCELLED" ELSE "none"

\* Mutant of WorkRefusal: the gate's phase is taken for the session's state.
WorkRefusalByGate(a, required, forwarded, cancelled) ==
  IF Failed(a) THEN Primary(a)
  ELSE IF a.phase \in {"cancelling", "ended"} THEN "CLOSED"
  ELSE IF cancelled THEN "CANCELLED"
  ELSE IF a.ready /\ required \subseteq forwarded THEN "none" ELSE "EFFECT"

\* admit_work, with the gate's prepare (LaunchDenied) and enter.
WorkRefusal(a, required, forwarded, cancelled) ==
  IF Failed(a) THEN Primary(a)
  ELSE IF a.closing THEN "CLOSED"
  ELSE IF a.pending THEN "ENDING"
  ELSE IF Over(a) THEN "CLOSED"
  ELSE IF a.phase \in {"cancelling", "ended"} THEN "EFFECT"
  ELSE IF cancelled THEN "CANCELLED"
  ELSE IF a.ready /\ required \subseteq forwarded THEN "none" ELSE "EFFECT"

Enter(a) == [a EXCEPT !.phase = "active"]

\* project_result: a log fact fails only an operation that nothing else failed.
ProjectResult(a) ==
  IF Failed(a) THEN Primary(a) ELSE IF a.log THEN "LOG" ELSE "success"
=============================================================================

----------------------------- MODULE EventOrder -----------------------------
(***************************************************************************)
(* The client's check of the helper's event stream (EventOrder in          *)
(* protocol/wire.py), as operators on its record.  `fault' names the       *)
(* ProtocolError of the first event refused; an event after it is not      *)
(* looked at, since the reader stops.                                      *)
(***************************************************************************)
EXTENDS Naturals

NoEvents ==
  [policy |-> "live_server", logRequested |-> FALSE, created |-> FALSE,
   attempted |-> FALSE, ready |-> FALSE, output |-> FALSE, bytes |-> 0,
   ended |-> FALSE, fault |-> "none"]

\* HelperConnection sets these before it writes START.
Expect(o, policy, logRequested) ==
  [o EXCEPT !.policy = policy, !.logRequested = logRequested]

\* The common test of accept(): created decides which kinds may come first.
InSession(o, kind) ==
  ~o.ended /\ (o.created \/ kind \in {"SESSION_CREATED", "SESSION_ENDED"})

Judge(o, kind, accepted, complaint, next) ==
  CASE o.fault # "none"   -> o
    [] ~InSession(o, kind) -> [o EXCEPT !.fault = "outside session lifetime"]
    [] ~accepted           -> [o EXCEPT !.fault = complaint]
    [] OTHER               -> next

SessionCreated(o) ==
  Judge(o, "SESSION_CREATED", ~o.created, "duplicate creation",
        [o EXCEPT !.created = TRUE])

AttemptMade(o) ==
  Judge(o, "ATTEMPT", ~o.attempted, "attempt sequence",
        [o EXCEPT !.attempted = TRUE])

ReadyReported(o) ==
  Judge(o, "READY", o.policy = "live_server" /\ ~o.ready /\ o.attempted,
        "readiness admission", [o EXCEPT !.ready = TRUE])

ChildOutputRelayed(o) ==
  Judge(o, "CHILD_OUTPUT", o.attempted, "output without attempt",
        [o EXCEPT !.output = TRUE])

LogDataRelayed(o, offset, size) ==
  Judge(o, "LOG_DATA", o.attempted /\ o.logRequested /\ offset = o.bytes,
        "log data", [o EXCEPT !.bytes = @ + size, !.output = TRUE])

\* hasResult, child, workspace, log and byteCount are the fields of the
\* terminal snapshot that accept() relates to the history.
TerminalComplaint(o, hasResult, child, workspace, log, byteCount) ==
  CASE hasResult /\ ~o.attempted                -> "result without attempt"
    [] (log # "none") # o.logRequested          -> "log report disagrees with START"
    [] log # "none" /\ byteCount # o.bytes      -> "log byte count"
    [] o.created /\ workspace = "not_created"   -> "workspace not created"
    [] (o.ready \/ o.output) /\ child = "not_acquired" -> "child not acquired"
    [] OTHER                                    -> "none"

SessionEnded(o, hasResult, child, workspace, log, byteCount) ==
  LET complaint == TerminalComplaint(o, hasResult, child, workspace, log, byteCount) IN
  Judge(o, "SESSION_ENDED", complaint = "none", complaint,
        [o EXCEPT !.ended = TRUE])
=============================================================================

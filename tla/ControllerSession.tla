-------------------------- MODULE ControllerSession --------------------------
(***************************************************************************)
(* One operation on the client's side: the coordinator (_runner.py,        *)
(* controller/session.py, helper_connection.py, _forwarding.py), the       *)
(* thread that reads the helper's events, Ctrl-C (cancellation.py), and    *)
(* the waits that join them (waiting.py).                                  *)
(*                                                                         *)
(* The helper appears as the frames it may send and as an SSH process that *)
(* may end at any time; HelperSession.tla is its model.                    *)
(***************************************************************************)
EXTENDS SessionAuthority, Naturals, FiniteSets

CONSTANTS
  Forwards,     \* SSH forwards the plan names
  Programs      \* the operations: what each does once START was answered

Steps ==
  [do : {"required", "optional", "relax"}, group : SUBSET Forwards]
    \cup [do : {"check", "look", "wait", "batch client", "interactive client"}]

\* live: the policy, a live server answers START with READY; log: the
\* operation writes a local log; stuck: what may refuse to stop under it.
ASSUME ControllerConstants ==
  Programs \subseteq [steps : Seq(Steps), live : BOOLEAN, log : BOOLEAN,
                     stuck : SUBSET {"ssh", "forward", "reader"}]

VARIABLES
  auth,     \* the SessionAuthority
  at,       \* the coordinator's place
  program,  \* the operation's member of Programs
  todo,     \* the steps of it that are left
  blocked,  \* its wait_for: "no", "yes", or "write" while the pipe is full
  expired,  \* the deadline of its wait has passed
  raised,   \* the error on its way to the authority, "none" if there is none
  reader,   \* the reader thread's place
  helper,   \* the SSH process, and what the helper received and said
  stream,   \* frames in transit
  fwd,      \* per forward: its owner set, its process, and whether poll() saw it end
  required, \* the forwards that dependent work needs
  sigint,   \* the OperationCancellation
  result    \* what the user sees; "none" until then

vars == <<program, auth, at, todo, blocked, expired, raised, reader, helper, stream, fwd,
          required, sigint, result>>

Frames == [type : {"SESSION_CREATED", "READY", "garbled"}]
            \cup [type : {"SESSION_ENDED"}, outcome : Outcomes, log : BOOLEAN]

Init ==
  /\ program \in Programs /\ todo = program.steps
  /\ auth = NewAuthority /\ at = "connect"
  /\ blocked = "no" /\ expired = FALSE /\ raised = "none" /\ reader = "none"
  /\ helper = [ssh |-> "none", status |-> 0, open |-> FALSE, said |-> "nothing",
               started |-> FALSE, released |-> FALSE, eof |-> FALSE]
  /\ stream = << >>
  /\ fwd = [f \in Forwards |-> [own |-> "none", runs |-> FALSE, seen |-> FALSE]]
  /\ required = {}
  /\ sigint = [requested |-> FALSE, closing |-> FALSE, owned |-> FALSE]
  /\ result = "none"

\* What dispatch() raises on.
Cancelled == sigint.requested /\ ~sigint.closing

Committed == {f \in Forwards : fwd[f].own = "committed"}

Pending == {f \in Forwards : fwd[f].own = "pending"}

\* The coordinator goes on at p with the authority a.
Go(a, p) ==
  /\ auth' = a /\ at' = p
  /\ blocked' = "no" /\ expired' = FALSE /\ raised' = "none"

\* An error leaves the operation's body.  It is decided under the authority's
\* lock and recorded under another hold of it.
Raise(a, code) ==
  /\ auth' = a /\ at' = "raising" /\ raised' = code
  /\ blocked' = "no" /\ expired' = FALSE

\* Calls of wait_for dispatch a recorded Ctrl-C before they block.
Block(a, kind) ==
  IF Cancelled THEN Raise(a, "CANCELLED")
  ELSE auth' = a /\ blocked' = kind /\ UNCHANGED <<at, expired, raised>>

\* Mutant of ObserveStatus: the exit status is taken as soon as it is there.
ObserveStatusEarly(a) ==
  IF helper.ssh = "exited" /\ helper.status # 0
  THEN RecordFailure(a, "CONTROL_PROCESS_FAILURE") ELSE a

\* The transport's status counts only after the reader's last word.
ObserveStatus(a) ==
  IF reader = "done" /\ helper.ssh = "exited" /\ helper.status # 0
  THEN RecordFailure(a, "CONTROL_PROCESS_FAILURE") ELSE a

\* An exit that poll() has not told yet.
Exited(f) == ~fwd[f].runs /\ ~fwd[f].seen

\* _observe_health: the transport, then every forward (check_health).
ObserveHealth(a) ==
  LET s == ObserveStatus(a) IN
  IF \E f \in required \cap Committed : Exited(f)
  THEN RecordFailure(s, "FORWARD_FAILURE") ELSE s

ForwardsPolled ==
  fwd' = [f \in Forwards |-> IF f \in Committed THEN [fwd[f] EXCEPT !.seen = ~fwd[f].runs]
                             ELSE fwd[f]]

Outside == <<program, reader, helper, stream, sigint, result>>

----------------------------------------------------------------------------
\* wait_for, blocked: notified, a forward's exit (only poll_operation's wait
\* names them), or Ctrl-C; then the hint is drained and Ctrl-C dispatched.
Wake ==
  /\ \/ blocked # "no" /\ (auth.woken \/ Cancelled)
     \/ blocked = "write"
     \/ blocked = "yes" /\ at = "waiting" /\ \E f \in Committed : Exited(f)
  /\ LET a == [auth EXCEPT !.woken = FALSE] IN
     IF Cancelled THEN Raise(a, "CANCELLED")
     ELSE auth' = a /\ blocked' = "no" /\ UNCHANGED <<at, expired, raised>>
  /\ UNCHANGED <<todo, fwd, required, Outside>>

\* The wait for SESSION_CREATED has a deadline, the one for READY has none.
Expire ==
  /\ blocked = "yes" /\ at = "created"
  /\ IF Cancelled THEN Raise(auth, "CANCELLED")
     ELSE blocked' = "no" /\ expired' = TRUE /\ UNCHANGED <<auth, at, raised>>
  /\ UNCHANGED <<todo, fwd, required, Outside>>

\* _await: recorded failures come first, expiry last.
Await(here, seen(_), then(_), next) ==
  /\ at = here /\ blocked = "no"
  /\ LET a == ObserveStatus(auth) IN
     IF Failed(a) THEN Raise(a, Primary(a))
     ELSE IF ~a.pending /\ a.ended THEN Raise(a, "EFFECT")
     ELSE IF ~a.pending /\ seen(a) THEN Go(then(a), next)
     ELSE IF (~a.pending /\ a.terminal # "none") \/ expired THEN Raise(a, "EFFECT")
     ELSE Block(a, "yes")
  /\ UNCHANGED <<todo, fwd, required, Outside>>

\* The control SSH process, and the reader for its events.
Connect ==
  /\ at = "connect"
  /\ \/ /\ Cancelled /\ Raise(auth, "CANCELLED")
        /\ UNCHANGED <<reader, helper>>
     \/ /\ ~Cancelled /\ Raise(auth, "EFFECT")
        /\ UNCHANGED <<reader, helper>>
     \/ /\ ~Cancelled /\ Go(auth, "created")
        /\ reader' = "reading"
        /\ helper' = [helper EXCEPT !.ssh = "running", !.open = TRUE]
  /\ UNCHANGED <<program, todo, fwd, required, stream, sigint, result>>

AwaitCreated == Await("created", LAMBDA a : a.created, LAMBDA a : a, "stage")

\* admit_helper_effect for staging and for START.
AdmitEffect(here, next) ==
  /\ at = here
  /\ LET refusal == EffectRefusal(auth, Cancelled) IN
     IF refusal = "none" THEN Go(auth, next) ELSE Raise(auth, refusal)
  /\ UNCHANGED <<todo, fwd, required, Outside>>

\* run_finite ends with the stage process's answer, its timeout, or Ctrl-C.
RunStage ==
  /\ at = "staging"
  /\ \/ Go(auth, "start")
     \/ Raise(auth, "EFFECT")
     \/ Cancelled /\ Raise(auth, "CANCELLED")
  /\ UNCHANGED <<todo, fwd, required, Outside>>

\* One turn of _write_control.  While the final observation is pending, or
\* once the pipe is broken, only a notification can tell what happened.
WriteStart ==
  /\ at = "writing" /\ blocked = "no"
  /\ LET a == ObserveStatus(auth) IN
     \/ /\ Failed(a) /\ Raise(a, Primary(a))
        /\ UNCHANGED helper
     \/ /\ ~Failed(a) /\ (a.pending \/ (~Over(a) /\ helper.ssh = "exited"))
        /\ Block(a, "yes")
        /\ UNCHANGED helper
     \/ /\ ~Failed(a) /\ ~a.pending /\ Over(a) /\ Raise(a, "EFFECT")
        /\ UNCHANGED helper
     \/ /\ ~Failed(a) /\ ~a.pending /\ ~Over(a) /\ helper.ssh = "running"
        /\ \/ Block(a, "write") /\ UNCHANGED helper
           \/ /\ helper' = [helper EXCEPT !.started = TRUE]
              /\ Go(a, IF program.live THEN "ready" ELSE "next")
  /\ UNCHANGED <<program, todo, fwd, required, reader, stream, sigint, result>>

\* The coordinator records READY once more.
AwaitReady == Await("ready", LAMBDA a : a.ready, RecordReady, "next")

----------------------------------------------------------------------------
\* The steps of the program.

Doing(what) == at = "next" /\ todo # << >> /\ Head(todo).do \in what

\* The step is done.
Done(a) == Go(a, "next") /\ todo' = Tail(todo)

Finished ==
  /\ at = "next" /\ todo = << >>
  /\ Go(auth, "closing")
  /\ UNCHANGED <<todo, fwd, required, Outside>>

AdmitForwards ==
  /\ Doing({"required", "optional"})
  /\ LET refusal == WorkRefusal(auth, required, Committed, Cancelled) IN
     IF refusal = "none" THEN Go(Enter(auth), "spawning") ELSE Raise(auth, refusal)
  /\ UNCHANGED <<todo, fwd, required, Outside>>

\* Mutant of SpawnForward: popen does not look at Ctrl-C.
SpawnForwardAnyway ==
  /\ at = "spawning" /\ Head(todo).group \ Pending # {}
  /\ \E f \in Head(todo).group \ Pending :
       /\ fwd' = [fwd EXCEPT ![f] = [own |-> "pending", runs |-> TRUE, seen |-> FALSE]]
       /\ Go(auth, "connecting")
  /\ UNCHANGED <<todo, required, Outside>>

\* popen: refused after Ctrl-C, or failing, it leaves nothing behind.
SpawnForward ==
  /\ at = "spawning" /\ Head(todo).group \ Pending # {}
  /\ \/ /\ ~Cancelled
        /\ \E f \in Head(todo).group \ Pending :
             fwd' = [fwd EXCEPT ![f] = [own |-> "pending", runs |-> TRUE, seen |-> FALSE]]
        /\ Go(auth, "connecting")
     \/ ~Cancelled /\ Go(auth, "rollback") /\ UNCHANGED fwd
     \/ Cancelled /\ Go(auth, "cancelled") /\ UNCHANGED fwd
  /\ UNCHANGED <<todo, required, Outside>>

\* await_ready and the look at the process after it, the last one started; an
\* earlier one of the call may have died meanwhile.
ForwardConnects ==
  /\ at = "connecting"
  /\ \/ (\E f \in Pending : fwd[f].runs) /\ Go(auth, "spawning")
     \/ Go(auth, "rollback")
     \/ Cancelled /\ Go(auth, "cancelled")
  /\ UNCHANGED <<todo, fwd, required, Outside>>

\* All forwards of the call are published at once.
CommitForwards ==
  /\ at = "spawning" /\ Head(todo).group \subseteq Pending
  /\ fwd' = [f \in Forwards |-> IF f \in Pending THEN [fwd[f] EXCEPT !.own = "committed"]
                                ELSE fwd[f]]
  /\ required' = IF Head(todo).do = "required" THEN required \cup Head(todo).group
                 ELSE required
  /\ Done(auth)
  /\ UNCHANGED Outside

\* Stops the processes of a set; its ownership ends even if one does not.
Stopped(group, left) ==
  [f \in Forwards |-> IF f \in group
                      THEN [own |-> "none", runs |-> fwd[f].runs /\ f \in left, seen |-> FALSE]
                      ELSE fwd[f]]

MayStay(group) == IF "forward" \in program.stuck THEN SUBSET group ELSE {{}}

\* Only an optional forward that left nothing behind is given up quietly.
RollbackForwards ==
  /\ at \in {"rollback", "cancelled"}
  /\ \E left \in MayStay(Pending) :
       /\ fwd' = Stopped(Pending, left)
       /\ IF /\ at = "rollback" /\ Head(todo).do = "optional" /\ ~Failed(auth)
             /\ \A f \in left : ~fwd[f].runs
          THEN Done(auth)
          ELSE /\ Raise(auth, IF at = "rollback" THEN "EFFECT" ELSE "CANCELLED")
               /\ UNCHANGED todo
  /\ UNCHANGED <<required, Outside>>

\* poll_operation: a result means that OpenOCD ended too early, unless the
\* client is done.
Check ==
  /\ Doing({"check", "look"})
  /\ LET a == ObserveHealth(auth) IN
     IF Failed(a) THEN Raise(a, Primary(a)) /\ UNCHANGED todo
     ELSE IF HasResult(a) /\ Head(todo).do = "check"
          THEN Raise(a, "EFFECT") /\ UNCHANGED todo ELSE Done(a)
  /\ ForwardsPolled
  /\ UNCHANGED <<required, Outside>>

\* wait_for_openocd_exit
BeginWait ==
  /\ Doing({"wait"})
  /\ Go(auth, "waiting")
  /\ UNCHANGED <<todo, fwd, required, Outside>>

AwaitExit ==
  /\ at = "waiting" /\ blocked = "no"
  /\ LET a == ObserveHealth(auth) IN
     IF Failed(a) THEN Raise(a, Primary(a)) /\ UNCHANGED todo
     ELSE IF HasResult(a) THEN Done(a)
     ELSE Block(a, "yes") /\ UNCHANGED todo
  /\ ForwardsPolled
  /\ UNCHANGED <<required, Outside>>

\* make_forwards_optional
Relax ==
  /\ Doing({"relax"})
  /\ required' = required \ Head(todo).group
  /\ Done(auth)
  /\ UNCHANGED <<fwd, Outside>>

\* interactive_client: Ctrl-C is the client's from here on; one latched
\* before refuses the launch.
BeginClient ==
  /\ Doing({"batch client", "interactive client"})
  /\ IF Head(todo).do = "interactive client"
     THEN IF Cancelled THEN Raise(auth, "CANCELLED") /\ UNCHANGED sigint
          ELSE Go(auth, "polling") /\ sigint' = [sigint EXCEPT !.owned = TRUE]
     ELSE Go(auth, "polling") /\ UNCHANGED sigint
  /\ UNCHANGED <<program, todo, fwd, required, reader, helper, stream, result>>

\* Control leaves the client interval with an error.
RaiseFromClient(a, code) ==
  Raise(a, code) /\ sigint' = [sigint EXCEPT !.owned = FALSE]

PollBeforeClient ==
  /\ at = "polling"
  /\ LET a == ObserveHealth(auth) IN
     IF Failed(a) THEN RaiseFromClient(a, Primary(a))
     ELSE IF HasResult(a) THEN RaiseFromClient(a, "EFFECT")
     ELSE Go(a, "admitting") /\ UNCHANGED sigint
  /\ ForwardsPolled
  /\ UNCHANGED <<program, todo, required, reader, helper, stream, result>>

EnterClient ==
  /\ at = "admitting"
  /\ LET refusal == WorkRefusal(auth, required, Committed, Cancelled) IN
     IF refusal = "none" THEN Go(Enter(auth), "client") /\ UNCHANGED sigint
     ELSE RaiseFromClient(auth, refusal)
  /\ UNCHANGED <<program, todo, fwd, required, reader, helper, stream, result>>

\* The client ends; Ctrl-C ends one that does not own it.
ClientEnds ==
  /\ at = "client"
  /\ \/ /\ Done(auth) /\ sigint' = [sigint EXCEPT !.owned = FALSE]
     \/ RaiseFromClient(auth, "EFFECT") /\ UNCHANGED todo
     \/ Cancelled /\ RaiseFromClient(auth, "CANCELLED") /\ UNCHANGED todo
  /\ UNCHANGED <<program, fwd, required, reader, helper, stream, result>>

----------------------------------------------------------------------------
\* finish and close.

\* resolve_effect_failure and record_operation_failure: once, whatever layer.
RecordRaised ==
  /\ at = "raising"
  /\ Go(RecordFailure(auth, raised), "closing")
  /\ UNCHANGED <<todo, fwd, required, Outside>>

\* From here on Ctrl-C is not dispatched; one already latched is accounted.
BeginClosure ==
  /\ at = "closing"
  /\ sigint' = [sigint EXCEPT !.closing = TRUE]
  /\ Go(Cancel(IF sigint.requested THEN RecordFailure(auth, "CANCELLED") ELSE auth),
        "sampling")
  /\ UNCHANGED <<program, todo, fwd, required, reader, helper, stream, result>>

\* Before disposal erases which processes had ended by themselves.
SampleHealth ==
  /\ at = "sampling"
  /\ Go(ObserveHealth(auth), "close forwards")
  /\ ForwardsPolled
  /\ UNCHANGED <<todo, required, Outside>>

CloseForwards ==
  /\ at = "close forwards"
  /\ LET owned == Committed \cup Pending IN
     \E left \in MayStay(owned) :
       /\ fwd' = Stopped(owned, left)
       /\ Go(IF \E f \in left : fwd[f].runs
             THEN RecordFailure(auth, "SESSION_CLEANUP_FAILURE") ELSE auth,
             IF helper.ssh = "none" THEN "finishing" ELSE "release")
  /\ UNCHANGED <<todo, required, Outside>>

\* _release_lease writes once, and what it writes may be lost.
ReleaseLease ==
  /\ at = "release"
  /\ \/ /\ helper.started /\ ~Over(auth) /\ helper.ssh = "running"
        /\ helper' = [helper EXCEPT !.released = TRUE]
     \/ UNCHANGED helper
  /\ Go(Cancel(auth), "half-close")
  /\ UNCHANGED <<program, todo, fwd, required, reader, stream, sigint, result>>

HalfClose ==
  /\ at = "half-close"
  /\ helper' = [helper EXCEPT !.eof = TRUE]
  /\ Go(ObserveStatus(auth), "wait helper")
  /\ UNCHANGED <<program, todo, fwd, required, reader, stream, sigint, result>>

WaitHelper ==
  /\ at = "wait helper"
  /\ \/ helper.ssh = "exited" /\ Go(auth, "join")
     \/ helper.ssh = "running" /\ Go(RecordFailure(auth, "HELPER_WAIT_FAILURE"), "join")
  /\ UNCHANGED <<todo, fwd, required, Outside>>

\* The reader is joined twice: it may need the process to be stopped.
JoinReader ==
  /\ at = "join"
  /\ Go(auth, "stop")
  /\ UNCHANGED <<todo, fwd, required, Outside>>

StopHelper ==
  /\ at = "stop"
  /\ \/ /\ helper' = [helper EXCEPT !.ssh = "exited",
                          !.status = IF helper.ssh = "exited" THEN @ ELSE 1]
        /\ Go(auth, "join again")
     \/ /\ "ssh" \in program.stuck /\ helper.ssh = "running"
        /\ Go(RecordFailure(auth, "HELPER_CLEANUP_FAILURE"), "join again")
        /\ UNCHANGED helper
  /\ UNCHANGED <<program, todo, fwd, required, reader, stream, sigint, result>>

JoinReaderAgain ==
  /\ at = "join again"
  /\ \/ reader = "done" /\ Go(auth, "resolve")
     \/ /\ reader # "done" /\ ("reader" \in program.stuck \/ helper.ssh = "running")
        /\ Go(RecordFailure(auth, "HELPER_CLEANUP_FAILURE"), "resolve")
  /\ UNCHANGED <<todo, fwd, required, Outside>>

ResolveShutdown ==
  /\ at = "resolve"
  /\ Go(ObserveStatus(IF auth.terminal = "none"
                      THEN RecordFailure(auth, "MISSING_TERMINAL") ELSE auth), "finishing")
  /\ UNCHANGED <<todo, fwd, required, Outside>>

\* project_result, and operation_scope's dispatch of a Ctrl-C that came after
\* closure had begun.
Finish ==
  /\ at = "finishing"
  /\ result' = IF ProjectResult(auth) = "success" /\ sigint.requested THEN "CANCELLED"
               ELSE ProjectResult(auth)
  /\ Go(auth, "done")
  /\ UNCHANGED <<program, todo, fwd, required, reader, helper, stream, sigint>>

----------------------------------------------------------------------------
\* The reader thread (_read_events).

Coordinator == <<program, at, todo, blocked, expired, raised, fwd, required, sigint, result>>

\* _dispatch; EventOrder or the framer raises on a garbled frame.
Dispatch(a, frame) ==
  CASE frame.type = "SESSION_CREATED" -> RecordCreated(a)
    [] frame.type = "READY"           -> RecordReady(a)
    [] frame.type = "SESSION_ENDED"   -> RecordTerminal(a, frame.outcome, frame.log)
    [] frame.type = "garbled"         -> RecordFailure(a, "READER_FAILURE")

ReadFrame ==
  /\ reader = "reading" /\ stream # << >>
  /\ auth' = Dispatch(auth, Head(stream))
  /\ stream' = Tail(stream)
  /\ reader' = IF Head(stream).type = "garbled" THEN "ending" ELSE "reading"
  /\ UNCHANGED <<helper, Coordinator>>

\* The process exited: admission is revoked before what it still wrote is read.
SeeExit ==
  /\ reader = "reading" /\ helper.ssh = "exited"
  /\ auth' = BeginControlExit(auth)
  /\ reader' = "final"
  /\ UNCHANGED <<helper, stream, Coordinator>>

\* _final_observation stops at the first garbled frame.
FinalFrame ==
  /\ reader = "final" /\ stream # << >>
  /\ auth' = Dispatch(auth, Head(stream))
  /\ stream' = IF Head(stream).type = "garbled" THEN << >> ELSE Tail(stream)
  /\ UNCHANGED <<reader, helper, Coordinator>>

FinalEnd ==
  /\ reader = "final" /\ stream = << >>
  /\ auth' = FinishControlExit(auth)
  /\ reader' = "ending"
  /\ UNCHANGED <<helper, stream, Coordinator>>

\* End-of-file without the process's exit.
SeeEOF ==
  /\ reader = "reading" /\ stream = << >> /\ ~helper.open
  /\ auth' = BeginControlExit(auth)
  /\ reader' = "eof"
  /\ UNCHANGED <<helper, stream, Coordinator>>

EOFEnd ==
  /\ reader = "eof"
  /\ auth' = FinishControlExit(IF auth.terminal = "none"
                               THEN RecordFailure(auth, "READER_FAILURE") ELSE auth)
  /\ reader' = "ending"
  /\ UNCHANGED <<helper, stream, Coordinator>>

ReaderEnds ==
  /\ reader = "ending"
  /\ reader' = "done" /\ auth' = Notify(auth)
  /\ UNCHANGED <<helper, stream, Coordinator>>

----------------------------------------------------------------------------
\* The helper and the network (external), and the user.

Says(frame, said) ==
  /\ helper.ssh = "running" /\ helper.open
  /\ stream' = Append(stream, frame)
  /\ helper' = [helper EXCEPT !.said = said]
  /\ UNCHANGED <<auth, reader, Coordinator>>

HelperCreates == helper.said = "nothing" /\ Says([type |-> "SESSION_CREATED"], "created")

HelperIsReady ==
  helper.said = "created" /\ helper.started /\ program.live /\ Says([type |-> "READY"], "ready")

\* A session ends with 0 only after START, "released" only after RELEASE.
HelperEnds ==
  /\ helper.said \in {"created", "ready"}
  /\ \E outcome \in Outcomes, log \in {FALSE, program.log} :
       /\ outcome = "exited" => helper.started
       /\ outcome = "released" => helper.released
       /\ Says([type |-> "SESSION_ENDED", outcome |-> outcome, log |-> log], "ended")

HelperGarbles == helper.said # "garbled" /\ Says([type |-> "garbled"], "garbled")

HelperClosesOutput ==
  /\ helper.ssh = "running" /\ helper.open
  /\ helper' = [helper EXCEPT !.open = FALSE]
  /\ UNCHANGED <<auth, reader, stream, Coordinator>>

SshExits ==
  /\ helper.ssh = "running"
  /\ \E status \in {0, 1} :
       helper' = [helper EXCEPT !.ssh = "exited", !.status = status, !.open = FALSE]
  /\ UNCHANGED <<auth, reader, stream, Coordinator>>

ForwardDies ==
  /\ \E f \in Committed \cup Pending :
       fwd[f].runs /\ fwd' = [fwd EXCEPT ![f].runs = FALSE]
  /\ UNCHANGED <<auth, at, todo, blocked, expired, raised, required, Outside>>

CtrlC ==
  /\ result = "none" /\ ~sigint.owned /\ ~sigint.requested
  /\ sigint' = [sigint EXCEPT !.requested = TRUE]
  /\ UNCHANGED <<program, auth, at, todo, blocked, expired, raised, fwd, required, reader,
                 helper, stream, result>>

Coordinate ==
  \/ Wake \/ Connect \/ AwaitCreated \/ AdmitEffect("stage", "staging") \/ RunStage
  \/ AdmitEffect("start", "writing") \/ WriteStart \/ AwaitReady
  \/ Finished \/ AdmitForwards \/ SpawnForward \/ ForwardConnects \/ CommitForwards
  \/ RollbackForwards \/ Check \/ BeginWait \/ AwaitExit \/ Relax
  \/ BeginClient \/ PollBeforeClient \/ EnterClient \/ ClientEnds
  \/ RecordRaised \/ BeginClosure \/ SampleHealth \/ CloseForwards
  \/ ReleaseLease \/ HalfClose \/ WaitHelper \/ JoinReader \/ StopHelper
  \/ JoinReaderAgain \/ ResolveShutdown \/ Finish

Read ==
  \/ ReadFrame \/ SeeExit \/ FinalFrame \/ FinalEnd \/ SeeEOF \/ EOFEnd \/ ReaderEnds

HelperAnswers == HelperIsReady \/ HelperEnds \/ SshExits

Helper == HelperCreates \/ HelperGarbles \/ HelperClosesOutput \/ HelperAnswers

Stays == result # "none" /\ UNCHANGED vars

Next == Coordinate \/ Expire \/ Read \/ Helper \/ ForwardDies \/ CtrlC \/ Stays

Spec == Init /\ [][Next]_vars

\* Both threads run; deadlines pass; the user's client ends; and a helper that
\* got START answers it or dies (HelperSession: StartIsDecided).
Fairness ==
  /\ WF_vars(Coordinate) /\ WF_vars(Expire) /\ WF_vars(Read)
  /\ WF_vars(helper.started /\ helper.said = "created" /\ HelperAnswers)

LiveSpec == Spec /\ Fairness

----------------------------------------------------------------------------
\* Types; and the launch gate is closed to an operation that failed, was
\* closed or whose session ended (authority.py cancels and ends its gate).
ControllerTypeOK ==
  /\ auth \in Authority /\ program \in Programs
  /\ Failed(auth) \/ auth.closing => auth.phase \in {"cancelling", "ended"}
  /\ auth.terminal # "none" <=> auth.phase = "ended"
  /\ blocked \in {"no", "yes", "write"} /\ expired \in BOOLEAN
  /\ raised \in Codes \cup {"none"}
  /\ reader \in {"none", "reading", "final", "eof", "ending", "done"}
  /\ stream \in Seq(Frames) /\ todo \in Seq(Steps)
  /\ helper \in [ssh : {"none", "running", "exited"}, status : {0, 1}, open : BOOLEAN,
       said : {"nothing", "created", "ready", "ended", "garbled"},
       started : BOOLEAN, released : BOOLEAN, eof : BOOLEAN]
  /\ fwd \in [Forwards -> [own : {"none", "pending", "committed"},
                         runs : BOOLEAN, seen : BOOLEAN]]
  /\ required \subseteq Forwards
  /\ sigint \in [requested : BOOLEAN, closing : BOOLEAN, owned : BOOLEAN]
  /\ result \in Codes \cup {"none", "LOG", "success"}

Position(code) == CHOOSE i \in DOMAIN auth.failures : auth.failures[i] = code

\* What the transport's exit status says never comes before what the helper
\* itself said: the reader has then had its last word (observe_status).
ProtocolSpeaksFirst ==
  LET told == Range(auth.failures) IN
  "CONTROL_PROCESS_FAILURE" \in told =>
    /\ reader = "done"
    /\ \A code \in {"TERMINAL_FAILURE", "READER_FAILURE", "CONTROL_ENDED"} \cap told :
         Position(code) < Position("CONTROL_PROCESS_FAILURE")

\* That the session was ending is the reason of a failure only if nothing
\* else is: the helper then reported an end without failure.
RefusalIsTheLastReason ==
  Failed(auth) /\ Primary(auth) = "ENDING" =>
    auth.terminal \in {"exited", "released"} /\ reader \in {"ending", "done"}

\* An operation succeeds only if its program ran to the end, the helper
\* reported an end without failure and its transport succeeded, no reader and
\* no forward it started is left, and no Ctrl-C came at any time.
SuccessIsEarned ==
  result \in {"success", "LOG"} =>
    /\ todo = << >> /\ auth.terminal \in {"exited", "released"}
    /\ reader = "done" /\ helper.ssh = "exited" /\ helper.status = 0
    /\ \A f \in Forwards : ~fwd[f].runs
    /\ result = "success" => ~sigint.requested /\ ~auth.log

\* Local work begins only in a session that is READY, not ended, not failed,
\* whatever the reader recorded since the coordinator last looked, and while
\* its required forwards are owned.
WorkMeetsALiveSession ==
  [][at' \in {"spawning", "client"} /\ at \in {"next", "admitting"} =>
       /\ required \subseteq Committed
       /\ auth.ready /\ ~Over(auth) /\ ~Failed(auth)]_vars

\* After a Ctrl-C nothing new begins: no connection, staging, START, forward
\* or client, wherever in the coordinator's work it fell.
CtrlCStopsEffects ==
  [][Cancelled =>
       /\ at' \in {"staging", "writing", "client"} => at' = at
       /\ {f \in Forwards : fwd'[f].runs} \subseteq {f \in Forwards : fwd[f].runs}
       /\ helper'.ssh = "running" => helper.ssh = "running"]_vars

\* Ctrl-C ends the operation, whatever the coordinator waits for, and so does
\* the end of the session: no wakeup is lost.
OperationEnds == sigint.requested \/ Over(auth) ~> result # "none"

\* START is answered.
ReadyIsSeen == at = "ready" ~> at # "ready"
=============================================================================

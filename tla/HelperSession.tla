--------------------------- MODULE HelperSession ---------------------------
(***************************************************************************)
(* One helper session (helper/_session.py): a coordinator that owns every  *)
(* decision, observer tasks that publish facts to its bounded queue, the   *)
(* OpenOCD process group it owns, and the client's check of the events it  *)
(* emits.                                                                  *)
(*                                                                         *)
(* The tasks share one asyncio loop, so an observer runs only while the    *)
(* coordinator awaits (Awaiting).  Signals and the child do not wait for   *)
(* that: the synchronous handlers are split wherever a signal or an exit   *)
(* between two of their statements can matter.                             *)
(***************************************************************************)
EXTENDS Lifecycle, FiniteSets, Functions

CONSTANTS
  Worlds,       \* the worlds a session may run in, see World
  Streams,      \* child output streams (stdout, stderr)
  QueueBound,   \* MAX_PENDING_OBSERVATIONS, reduced
  LogBuffer     \* LOG_RELAY_BUFFER_BYTES, in the model's bytes

FaultKinds == {"startup", "spawn", "artifact", "backlog", "lease", "remove",
               "stuck", "escape"}

SessionTasks == {"control", "signal", "log", "credit", "log deadline"}
ChildTasks   == Streams \cup {"exit", "readiness", "cleanup", "drain"}
Tasks        == {"writer"} \cup SessionTasks \cup ChildTasks

\* The tasks whose observation can raise; the others sleep, wait for another
\* task, or catch every error themselves (_dispose_group).
FallibleTasks == {"writer", "control", "log", "exit"} \cup Streams

\* What one session meets: the request of its START, the streams, output
\* chunks and log bytes of its child (bounds), the observer tasks whose
\* observation may raise, the operating-system failures that may happen, and
\* whether SIGINT or SIGTERM may arrive.
World ==
  [request : [policy : Policies, required : SUBSET Evidence, log : BOOLEAN],
   streams : SUBSET Streams, output : Nat, written : Nat,
   faulty : SUBSET FallibleTasks, faults : SUBSET FaultKinds, signals : BOOLEAN]

\* The diagnostics of a session, by their codes.
SessionFailures ==
  {"REMOTE_SIGNAL", "CONTROLLER_LEASE_LOST", "OBSERVER_FAILURE", "STARTUP_FAILURE",
   "SPAWN_FAILURE", "STARTUP_EXIT", "READINESS_TIMEOUT", "READINESS_ARTIFACT_FAILURE",
   "CLEANUP_FAILURE", "SESSION_CREATED_ADMISSION", "ATTEMPT_ADMISSION",
   "READY_ADMISSION", "CHILD_OUTPUT_ADMISSION", "TERMINAL_DELIVERY"}

ASSUME SessionConstants ==
  /\ SessionFailures \subseteq Failures
  /\ \A w \in Worlds : w \in World
  /\ IsFiniteSet(Streams)
  /\ Streams \cap ({"writer", "exit", "readiness", "cleanup", "drain"} \cup SessionTasks) = {}
  /\ QueueBound \in Nat \ {0} /\ LogBuffer \in Nat

VARIABLES
  ses,      \* the HelperSession object, the client's EventOrder in ses.order
  coord,    \* where the coordinator is
  queue,    \* _events: observations [src, kind]
  task,     \* per task: off, on, done, or the observation it waits to put
  control,  \* the control stream: none, sending (a START), then as the helper
            \* has read it: start, release, closed or, if it ended between
            \* START and RELEASE, lost
  proc,     \* the process group, and SupervisedProcess's view of it
  world     \* the World the session runs in, which never changes

vars == <<ses, coord, queue, task, control, proc, world>>

\* The request the client puts in its START.
want == world.request

\* What may happen where the fault f is possible.
May(f) == IF f \in world.faults THEN BOOLEAN ELSE {FALSE}

Relay == INSTANCE LogRelay WITH BufferLimit <- LogBuffer
Order == INSTANCE EventOrder

----------------------------------------------------------------------------
Kinds == {"START", "EOF", "SIGNAL", "FAIL", "OUT", "OUTEOF", "EXIT", "POLL",
          "DEADLINE", "CLEANED", "DRAIN", "LOG", "LOGEOF", "LOGSTOPPED",
          "LOGCREDIT", "LOGDEADLINE"}

\* Observers that go on after publishing such an observation.
Continues == {"START", "OUT", "POLL", "LOG", "LOGCREDIT"}

NoProcess ==
  [state |-> "none", rc |-> 0, members |-> FALSE, escaped |-> FALSE,
   observed |-> FALSE, requested |-> FALSE, signalled |-> FALSE,
   raced |-> FALSE, disposed |-> FALSE, artifact |-> {}, output |-> 0, written |-> 0,
   taken |-> 0, stage |-> "idle"]

NewSession ==
  [lc |-> Created, order |-> Order!NoEvents,
   relay |-> Relay!Opened, logOpen |-> FALSE, logInFlight |-> FALSE,
   creditBack |-> FALSE, drainStarted |-> FALSE,
   failures |-> << >>, writerFailed |-> FALSE, outputAvailable |-> TRUE,
   sigPending |-> FALSE, sigAccounted |-> FALSE,
   leaseLost |-> FALSE, leaseAccounted |-> FALSE, started |-> FALSE,
   child |-> FALSE, acquired |-> FALSE, acquisition |-> "none",
   settlement |-> "none", address |-> FALSE, cleanup |-> "none",
   finished |-> {}, attemptFinished |-> FALSE, stagingClosed |-> FALSE,
   readiness |-> FALSE, workspace |-> TRUE, marker |-> FALSE, status |-> -1]

Init ==
  /\ world \in Worlds
  /\ ses = NewSession
  /\ coord = "boot" /\ queue = << >> /\ control = "none" /\ proc = NoProcess
  /\ task = [t \in Tasks |-> IF t \in {"writer", "control", "signal"} THEN "on" ELSE "off"]

\* The coordinator is suspended, so that other tasks may run.
Awaiting == coord \in {"yielded", "waiting", "settling", "closing", "draining"}

Over == coord \in {"exited", "crashed"}

----------------------------------------------------------------------------
\* Session methods, from a session record to the next one.  `admits' is
\* whether the protocol writer admits an event emitted in this step.

Admissions == IF ses.writerFailed THEN {FALSE}
              ELSE {~refused : refused \in May("backlog")}

Stop(s, trigger, failure) == [s EXCEPT !.lc = Terminate(@, trigger, failure)]

CleanupFails(s) == Stop(s, "helper_failure", "CLEANUP_FAILURE")

\* LOG_CREDIT_BYTES is one LOG_DATA here, and a buffer fits in one.
LogProgress(s, admits) ==
  LET size   == Len(s.relay.buffer)
      pumped ==
        IF size = 0 \/ s.logInFlight THEN s
        ELSE IF admits
        THEN [s EXCEPT !.relay = Relay!Admit(@, size), !.logInFlight = TRUE,
                       !.order = Order!LogDataRelayed(@, s.relay.admitted, size)]
        ELSE [s EXCEPT !.relay = Relay!AdmissionFails(@)]
  IN  IF s.logOpen THEN [pumped EXCEPT !.relay = Relay!DecideIfReady(@)] ELSE s

LogDisposal(s, confirmed, admits) ==
  IF ~s.logOpen \/ s.relay.decision # "none" THEN s
  ELSE LogProgress([s EXCEPT !.relay = IF confirmed THEN Relay!ConfirmDisposal(@)
                                       ELSE Relay!Cut(@)], admits)

FailureTrigger(t) == CASE t = "control" -> "protocol_failure"
                       [] t = "writer"  -> "output_failure"
                       [] OTHER         -> "helper_failure"

\* The sequence s without t.
Without(s, t) ==
  LET kept[n \in 0 .. Len(s)] ==
        IF n = 0 THEN << >>
        ELSE IF s[n] = t THEN kept[n - 1] ELSE Append(kept[n - 1], s[n])
  IN  kept[Len(s)]

\* Mutant: a session that is ending already drops a further failure.
ObservationFailedEarly(s, t, admits) ==
  LET dropped == [s EXCEPT !.failures = Without(@, t)] IN
  IF s.lc.phase = "Terminating" \/ t \notin Range(s.failures) THEN dropped
  ELSE Stop(dropped, FailureTrigger(t), "OBSERVER_FAILURE")

\* _observation_failed: a failure already accounted is not accounted again.
ObservationFailed(s, t, admits) ==
  LET dropped == [s EXCEPT !.failures = Without(@, t)]
      ended   == [dropped EXCEPT !.finished = @ \cup ({t} \cap Streams)]
      read    == IF t = "log" /\ s.logOpen
                 THEN LogProgress([ended EXCEPT !.relay = Relay!ReadFailed(@)], admits)
                 ELSE ended
  IN  IF t \notin Range(s.failures) THEN s
      ELSE IF t \in ChildTasks /\ ~s.child THEN dropped
      ELSE Stop(read, FailureTrigger(t), "OBSERVER_FAILURE")

\* Mutant: the pending signal waits for its observation.
AccountNoSignal(s) == s

AccountSignal(s) ==
  IF s.sigPending /\ ~s.sigAccounted
  THEN Stop([s EXCEPT !.sigAccounted = TRUE], "signal", "REMOTE_SIGNAL") ELSE s

AccountLease(s) ==
  IF s.leaseLost /\ ~s.leaseAccounted
  THEN Stop([s EXCEPT !.leaseAccounted = TRUE], "controller_eof", "CONTROLLER_LEASE_LOST")
  ELSE s

\* The failures of these tasks that s has recorded are heard, in order.
Hear(s, tasks, admits) ==
  LET heard[n \in 0 .. Len(s.failures)] ==
        IF n = 0 THEN s
        ELSE IF s.failures[n] \in tasks
        THEN ObservationFailed(heard[n - 1], s.failures[n], admits)
        ELSE heard[n - 1]
  IN  heard[Len(s.failures)]

\* account_recorded_failures
Account(s, admits) == Hear(AccountLease(AccountSignal(s)), Tasks, admits)

\* _record_exit, with the child's observed status in p.
RecordExit(s, p) ==
  LET told == IF p.requested THEN [s EXCEPT !.lc = RecordChildTermination(@)] ELSE s
      seen == [told EXCEPT !.lc = ObserveChildExit(@, p.rc)]
  IN  IF seen # told /\ seen.lc.phase = "Starting" /\ seen.lc.policy = "live_server"
      THEN Stop(seen, "startup_failure", "STARTUP_EXIT") ELSE seen

\* Mutant: only a settled child can be left over, not one that leaked.
ChildDisposedUnlessOwned(s) == s.acquisition # "child" \/ s.settlement = "confirmed"

ChildDisposed(s) ==
  \/ s.acquisition \in {"none", "no process", "rolled back"}
  \/ s.settlement = "confirmed"

\* Mutants: the child owned now instead of the child ever acquired, and the
\* address lease left out.
CleanupReportOwned(s) ==
  [child     |-> IF ~ChildDisposed(s) \/ s.address THEN "unconfirmed"
                 ELSE IF s.child THEN "confirmed" ELSE "not_acquired",
   workspace |-> IF s.workspace THEN "unconfirmed" ELSE "confirmed"]

CleanupReportLeaseless(s) ==
  [child     |-> IF ~ChildDisposed(s) THEN "unconfirmed"
                 ELSE IF s.acquired THEN "confirmed" ELSE "not_acquired",
   workspace |-> IF s.workspace THEN "unconfirmed" ELSE "confirmed"]

CleanupReport(s) ==
  [child     |-> IF ~ChildDisposed(s) \/ s.address THEN "unconfirmed"
                 ELSE IF s.acquired THEN "confirmed" ELSE "not_acquired",
   workspace |-> IF s.workspace THEN "unconfirmed" ELSE "confirmed"]

LogReport(s, cleanup) ==
  IF ~s.started \/ ~want.log THEN "none"
  ELSE IF ~s.logOpen THEN "complete"
  ELSE Relay!Report(s.relay, cleanup.child # "unconfirmed")

----------------------------------------------------------------------------
\* Publication.  put() waits while the queue is full.

After(kind) == IF kind \in Continues THEN "on" ELSE "done"

Report(t, kind) ==
  IF Len(queue) < QueueBound
  THEN /\ queue' = Append(queue, [src |-> t, kind |-> kind])
       /\ task' = [task EXCEPT ![t] = After(kind)]
  ELSE /\ task' = [task EXCEPT ![t] = kind]
       /\ UNCHANGED queue

FinishPut(t) ==
  /\ Awaiting /\ task[t] \in Kinds /\ Len(queue) < QueueBound
  /\ Report(t, task[t])
  /\ UNCHANGED <<ses, coord, control, proc, world>>

\* A task that can make an observation now.
Runs(t) == Awaiting /\ task[t] = "on"

InQueue(kind) == \E i \in DOMAIN queue : queue[i].kind = kind

----------------------------------------------------------------------------
\* The client (HelperConnection._start_process) tells its EventOrder what it
\* will ask for, and then writes START.
ClientStarts ==
  /\ control = "none" /\ ses.order.created
  /\ control' = "sending"
  /\ ses' = [ses EXCEPT !.order = Order!Expect(@, want.policy, want.log)]
  /\ UNCHANGED <<coord, queue, task, proc, world>>

----------------------------------------------------------------------------
\* Observer tasks

ReadStart ==
  /\ Runs("control") /\ control = "sending"
  /\ control' = "start"
  /\ Report("control", "START")
  /\ UNCHANGED <<ses, coord, proc, world>>

ReadRelease ==
  /\ Runs("control") /\ control = "start"
  /\ control' = "release"
  /\ UNCHANGED <<ses, coord, queue, task, proc, world>>

\* Lease loss is recorded before the publication that may wait.
ReadEOF ==
  /\ Runs("control")
  /\ control' = IF control = "start" THEN "lost" ELSE "closed"
  /\ ses' = [ses EXCEPT !.leaseLost = control = "start"]
  /\ Report("control", "EOF")
  /\ UNCHANGED <<coord, proc, world>>

ObserveSignal ==
  /\ Runs("signal") /\ ses.sigPending
  /\ Report("signal", "SIGNAL")
  /\ UNCHANGED <<ses, coord, control, proc, world>>

\* _guard: an observation raises.  The log reader's failure after disposal is
\* not fatal: the relay keeps it.
ObserverFails(t) ==
  /\ t \in world.faulty /\ Runs(t)
  /\ IF t = "log" /\ ses.relay.disposed
     THEN /\ ses' = [ses EXCEPT !.relay = Relay!ReadFailed(@)]
          /\ Report(t, "LOGSTOPPED")
     ELSE /\ ses' = [ses EXCEPT !.failures = Append(@, t),
                                !.writerFailed = @ \/ t = "writer"]
          /\ Report(t, "FAIL")
  /\ UNCHANGED <<coord, control, proc, world>>

ReadOutput(t) ==
  /\ Runs(t) /\ proc.output < world.output
  /\ proc' = [proc EXCEPT !.output = @ + 1]
  /\ Report(t, "OUT")
  /\ UNCHANGED <<ses, coord, control, world>>

\* A child may close its output before it exits; a pipe held by a descendant
\* that left the group may never reach its end.
ReadOutputEOF(t) ==
  /\ Runs(t)
  /\ Report(t, "OUTEOF")
  /\ UNCHANGED <<ses, coord, control, proc, world>>

ObserveExit ==
  /\ Runs("exit") /\ proc.state # "running"
  /\ proc' = [proc EXCEPT !.observed = TRUE]
  /\ Report("exit", "EXIT")
  /\ UNCHANGED <<ses, coord, control, world>>

\* Ticks beyond the first pending one repeat it and are left out.
PollReadiness ==
  /\ Runs("readiness") /\ ~InQueue("POLL")
  /\ Report("readiness", "POLL")
  /\ UNCHANGED <<ses, coord, control, proc, world>>

ReadinessExpires ==
  /\ Runs("readiness")
  /\ Report("readiness", "DEADLINE")
  /\ UNCHANGED <<ses, coord, control, proc, world>>

DrainExpires ==
  /\ Runs("drain")
  /\ Report("drain", "DRAIN")
  /\ UNCHANGED <<ses, coord, control, proc, world>>

ReadLog ==
  /\ Runs("log") /\ proc.taken < proc.written
  /\ proc' = [proc EXCEPT !.taken = @ + 1]
  /\ Report("log", "LOG")
  /\ UNCHANGED <<ses, coord, control, world>>

\* End-of-file needs every write end closed: the helper's keep-open writer,
\* the group's, and those of a descendant that left the group.
ReadLogEOF ==
  /\ Runs("log") /\ proc.taken = proc.written
  /\ ses.relay.disposed
  /\ proc.state # "running" /\ ~proc.members /\ ~proc.escaped
  /\ Report("log", "LOGEOF")
  /\ UNCHANGED <<ses, coord, control, proc, world>>

\* The writer finishes a LOG_DATA frame and sets the coalescing latch; the
\* credit task does what may wait.
WriteLogFrame ==
  /\ Runs("writer") /\ ses.logInFlight
  /\ ses' = [ses EXCEPT !.logInFlight = FALSE, !.creditBack = TRUE]
  /\ UNCHANGED <<coord, queue, task, control, proc, world>>

ReturnCredit ==
  /\ Runs("credit") /\ ses.creditBack
  /\ ses' = [ses EXCEPT !.creditBack = FALSE]
  /\ Report("credit", "LOGCREDIT")
  /\ UNCHANGED <<coord, control, proc, world>>

LogDrainExpires ==
  /\ Runs("log deadline")
  /\ Report("log deadline", "LOGDEADLINE")
  /\ UNCHANGED <<ses, coord, control, proc, world>>

----------------------------------------------------------------------------
\* SupervisedProcess.terminate(), run by the cleanup task.

CleanupStage(stage) == Runs("cleanup") /\ proc.stage = stage

\* Mutant: any TERM makes the exit requested, even one that came too late.
SignalledAlways(p, gone, rc) ==
  LET seen == p.observed \/ p.state # "running" IN
  [p EXCEPT !.observed  = seen,
            !.requested = TRUE,
            !.signalled = @ \/ (~seen /\ ~gone),
            !.raced     = @ \/ (~seen /\ gone /\ ~p.signalled),
            !.state     = IF gone THEN "exited" ELSE @,
            !.rc        = IF gone THEN rc ELSE @]

\* poll() and then killpg(): a signal sent before the leader's exit was seen
\* makes that exit requested, even if the leader is gone in between.
Signalled(p, gone, rc) ==
  LET seen == p.observed \/ p.state # "running" IN
  [p EXCEPT !.observed  = seen,
            !.requested = @ \/ ~seen,
            !.signalled = @ \/ (~seen /\ ~gone),
            !.raced     = @ \/ (~seen /\ gone /\ ~p.signalled),
            !.state     = IF gone THEN "exited" ELSE @,
            !.rc        = IF gone THEN rc ELSE @]

MayExit == IF proc.state = "running" THEN BOOLEAN ELSE {FALSE}

SendTerm ==
  /\ CleanupStage("term")
  /\ \E gone \in MayExit, rc \in ReturnCodes :
       proc' = [Signalled(proc, gone, rc) EXCEPT !.stage = "await"]
  /\ UNCHANGED <<ses, coord, queue, task, control, world>>

\* The leader exited, or CHILD_TERM_TIMEOUT passed.
LeaderWaitEnds ==
  /\ CleanupStage("await")
  /\ proc' = [proc EXCEPT !.observed = @ \/ proc.state # "running", !.stage = "kill"]
  /\ UNCHANGED <<ses, coord, queue, task, control, world>>

\* SIGKILL and the bounded reap.  The leader is not reaped before, so that the
\* group is still there to be signalled; a process may be stuck in the kernel.
SendKill ==
  /\ CleanupStage("kill")
  /\ \E gone \in MayExit, stuck \in May("stuck"), rc \in ReturnCodes :
       LET p == Signalled(proc, gone, rc) IN
       /\ gone \/ rc # 0
       /\ proc' = IF p.state = "running" /\ stuck
                  THEN [p EXCEPT !.stage = "vanish"]
                  ELSE [p EXCEPT !.state = "reaped", !.observed = TRUE,
                                 !.stage = "vanish",
                                 !.rc = IF p.state = "running" THEN rc ELSE @,
                                 !.members = @ /\ stuck]
  /\ UNCHANGED <<ses, coord, queue, task, control, world>>

\* The group disappeared, or CHILD_GROUP_EXIT_TIMEOUT passed.
GroupWaitEnds ==
  /\ CleanupStage("vanish")
  /\ proc' = [proc EXCEPT !.stage = "idle",
                          !.disposed = proc.state = "reaped" /\ ~proc.members]
  /\ Report("cleanup", "CLEANED")
  /\ UNCHANGED <<ses, coord, control, world>>

----------------------------------------------------------------------------
\* The child and the operating system

SignalArrives ==
  /\ world.signals /\ ~ses.sigPending /\ ~Over
  /\ ses' = [ses EXCEPT !.sigPending = TRUE]
  /\ UNCHANGED <<coord, queue, task, control, proc, world>>

ChildExits ==
  /\ proc.state = "running"
  /\ \E rc \in ReturnCodes : proc' = [proc EXCEPT !.state = "exited", !.rc = rc]
  /\ UNCHANGED <<ses, coord, queue, task, control, world>>

ChildPublishes ==
  /\ proc.state = "running"
  /\ \E name \in want.required \ proc.artifact :
       proc' = [proc EXCEPT !.artifact = @ \cup {name}]
  /\ UNCHANGED <<ses, coord, queue, task, control, world>>

ChildLogs ==
  /\ want.log /\ proc.state = "running" /\ proc.written < world.written
  /\ proc' = [proc EXCEPT !.written = @ + 1]
  /\ UNCHANGED <<ses, coord, queue, task, control, world>>

----------------------------------------------------------------------------
\* The coordinator.  Goto takes the step to `next' with session s.

Goto(s, next) == ses' = s /\ coord' = next

Cancelled(ts) == [t \in Tasks |-> IF t \in ts THEN "done" ELSE task[t]]

Started(ts) == [t \in Tasks |-> IF t \in ts THEN "on" ELSE task[t]]

Announce ==
  /\ coord = "boot"
  /\ \E admitted \in Admissions :
       IF admitted
       THEN Goto([ses EXCEPT !.order = Order!SessionCreated(@)], "loop")
       ELSE Goto(Stop(ses, "output_failure", "SESSION_CREATED_ADMISSION"), "loop")
  /\ UNCHANGED <<queue, task, control, proc, world>>

\* Mutant: termination does not anchor the log drain deadline.
LoopHeadNoDrain(s) ==
  [s EXCEPT !.readiness = @ /\ s.lc.phase = "Starting",
            !.stagingClosed = @ \/ s.lc.phase = "Terminating"]

\* The head of _coordinate's loop up to the point where it takes the next
\* observation, finishes the attempt, or returns.
LoopHead(s) ==
  LET ending == s.lc.phase = "Terminating" IN
  [s EXCEPT !.readiness = @ /\ s.lc.phase = "Starting",
            !.drainStarted = @ \/ (ending /\ s.logOpen /\ s.relay.decision = "none"),
            !.stagingClosed = @ \/ ending]

NeedsCleanup(s) ==
  /\ s.child /\ s.cleanup = "none" /\ ~s.attemptFinished
  /\ \/ s.lc.phase = "Terminating"
     \/ s.lc.phase = "Starting" /\ s.lc.attempt.stage = "owned" /\ s.lc.attempt.result.seen

AttemptOver(s) == s.lc.phase = "Terminating" /\ (~s.child \/ s.attemptFinished)

LogDecided(s) == ~s.logOpen \/ s.relay.decision # "none" \/ ~s.acquired

CanFinish(s) ==
  s.cleanup = "cleaned" /\ s.child /\ ~s.attemptFinished /\ s.finished = world.streams

Coordinate ==
  /\ coord \in {"loop", "yielded"}
  /\ \E admits \in Admissions :
       LET s     == LoopHead(Account(ses, admits))
           armed == IF s.drainStarted /\ ~ses.drainStarted
                    THEN Started({"log deadline"}) ELSE task
       IN  IF AttemptOver(s) /\ LogDecided(s)
           THEN /\ Goto([s EXCEPT !.relay = IF s.logOpen
                                            THEN Relay!Decide(@, FALSE, s.acquired)
                                            ELSE @], "ending")
                /\ task' = armed
                /\ queue' = << >>       \* nothing takes from _events again
                /\ UNCHANGED proc
           ELSE IF NeedsCleanup(s)
           THEN /\ UNCHANGED queue
                /\ Goto([s EXCEPT !.cleanup = "running"],
                        IF queue = << >> THEN "waiting" ELSE "take")
                /\ task' = [armed EXCEPT !["cleanup"] = "on", !["readiness"] = "done"]
                /\ proc' = [proc EXCEPT !.stage = "term"]
           ELSE /\ IF CanFinish(s)
                   THEN Goto(s, "settling") /\ task' = [t \in Tasks |->
                          IF t \in ChildTasks THEN "done" ELSE armed[t]]
                   ELSE /\ Goto(s, IF queue = << >> THEN "waiting" ELSE "take")
                        /\ task' = armed
                /\ UNCHANGED <<queue, proc>>
  /\ UNCHANGED <<control, world>>

\* The coordinator takes the next observation, of this kind.
Take(kind) ==
  /\ coord \in {"take", "waiting"} /\ queue # << >>
  /\ Head(queue).kind = kind
  /\ queue' = Tail(queue)

HandleStart ==
  /\ Take("START")
  /\ \E admits \in Admissions, refused, invalid \in May("startup") :
       LET s == Account(ses, admits)
           b == [s EXCEPT !.started = TRUE,
                          !.lc = Start(@, want.policy, want.required),
                          !.address = ~refused]
       IN  IF s.lc.phase # "Created" THEN Goto(s, "yielded")
           ELSE IF refused \/ invalid
           THEN Goto(Stop(b, "startup_failure", "STARTUP_FAILURE"), "yielded")
           ELSE Goto(b, "entries")
  /\ UNCHANGED <<task, control, proc, world>>

\* The second half of _start_attempt: workspace entries, ATTEMPT, entry.
CreateEntries ==
  /\ coord = "entries"
  /\ \E admits \in Admissions, fails \in May("startup"), admitted \in Admissions :
       LET s == [ses EXCEPT !.readiness = want.policy = "live_server",
                            !.logOpen = want.log /\ ~fails]
           a == Account(s, admits)
       IN  /\ task' = IF s.logOpen THEN Started({"log", "credit"}) ELSE task
           /\ IF fails
              THEN Goto(Stop(s, "startup_failure", "STARTUP_FAILURE"), "yielded")
              ELSE IF a.lc.phase # "Starting" THEN Goto(a, "yielded")
              ELSE IF ~admitted
              THEN Goto(Stop(a, "output_failure", "ATTEMPT_ADMISSION"), "yielded")
              ELSE Goto([a EXCEPT !.order = Order!AttemptMade(@),
                                  !.lc = EnterAttempt(@, TRUE)], "spawn")
  /\ UNCHANGED <<queue, control, proc, world>>

SpawnChild ==
  /\ coord = "spawn"
  /\ \E members \in May("stuck"), escaped \in May("escape") :
       proc' = [NoProcess EXCEPT !.state = "running", !.members = members,
                                 !.escaped = escaped]
  /\ LET s == [ses EXCEPT !.marker = TRUE, !.acquisition = "child",
                          !.acquired = TRUE, !.child = TRUE, !.lc = AdoptAttempt(@)]
         waits == s.lc.phase = "Starting"
     IN  /\ Goto(s, IF waits THEN "ready" ELSE "yielded")
         /\ task' = Started(world.streams \cup {"exit"} \cup IF waits THEN {"readiness"} ELSE {})
  /\ UNCHANGED <<queue, control, world>>

\* spawn_child raised: no process, a process rolled back, or one whose
\* rollback could not be confirmed (not reaped, or its group lingers).
SpawnFails ==
  /\ coord = "spawn" /\ "spawn" \in world.faults
  /\ \E result \in {"no process", "rolled back", "leaked"}, rc \in ReturnCodes,
        requested, reaped \in BOOLEAN, admits \in Admissions :
       LET failed == Stop([ses EXCEPT !.marker = TRUE, !.acquisition = result,
                                      !.acquired = result # "no process"],
                          "startup_failure", "SPAWN_FAILURE")
           told   == IF requested THEN [failed EXCEPT !.lc = RecordChildTermination(@)]
                     ELSE failed
           exited == IF result # "no process" /\ reaped
                     THEN [told EXCEPT !.lc = ObserveChildExit(@, rc)] ELSE failed
       IN  /\ result = "rolled back" => reaped
           /\ result = "no process" => ~requested /\ ~reaped
           /\ ~reaped => rc = 0
           /\ Goto(LogDisposal(exited, result # "leaked", admits), "yielded")
           /\ task' = IF result = "leaked" THEN Cancelled({"log"}) ELSE task
           /\ proc' = IF result = "no process" THEN proc
                      ELSE [NoProcess EXCEPT
                              !.state = IF reaped THEN "reaped" ELSE "running",
                              !.rc = rc, !.requested = requested,
                              !.signalled = requested,
                              !.members = result = "leaked"]
  /\ UNCHANGED <<queue, control, world>>

----------------------------------------------------------------------------
\* _ready, in two steps: up to the child poll, and the signal-masked commit.
\* It runs after the spawn, on a tick, and before the deadline is decided.

\* Mutant: the deadline only looks once more.
AfterReadyUndecided(s) == s

\* What follows _ready: the deadline handler decides READINESS_TIMEOUT.
AfterReady(s) ==
  IF coord \in {"ready deadline", "commit deadline"} /\ AwaitsReadiness(s.lc)
  THEN Stop(s, "startup_failure", "READINESS_TIMEOUT") ELSE s

\* observe_evidence for every name that the artifact holds.
ReadEvidence(s) ==
  IF AwaitsReadiness(s.lc)
  THEN [s EXCEPT !.lc.evidence = @ \cup (s.lc.required \cap proc.artifact)] ELSE s

CheckReady ==
  /\ coord \in {"ready", "ready deadline"}
  /\ \E admits \in Admissions, unreadable \in May("artifact") :
       LET a == Account(ses, admits)
           e == ReadEvidence(a)
       IN  IF a.lc.phase # "Starting" \/ ~a.child
           THEN Goto(AfterReady(a), "yielded") /\ UNCHANGED proc
           ELSE IF unreadable /\ a.lc.required # {}
           THEN /\ Goto(AfterReady(Stop(a, "helper_failure", "READINESS_ARTIFACT_FAILURE")),
                        "yielded")
                /\ UNCHANGED proc
           ELSE IF ~AwaitsReadiness(e.lc) \/ ~(e.lc.required \subseteq e.lc.evidence)
           THEN Goto(AfterReady(e), "yielded") /\ UNCHANGED proc
           ELSE IF proc.state # "running"
           THEN /\ Goto(AfterReady(RecordExit(e, proc)), "yielded")
                /\ proc' = [proc EXCEPT !.observed = TRUE]
           ELSE /\ Goto(e, IF coord = "ready" THEN "commit" ELSE "commit deadline")
                /\ UNCHANGED proc
  /\ UNCHANGED <<queue, task, control, world>>

CommitReady ==
  /\ coord \in {"commit", "commit deadline"}
  /\ \E admits \in Admissions, admitted \in Admissions :
       LET a == Account(ses, admits) IN
       IF a.lc.phase # "Starting" THEN Goto(AfterReady(a), "yielded") /\ UNCHANGED task
       ELSE IF ~admitted
       THEN /\ Goto(AfterReady(Stop(a, "output_failure", "READY_ADMISSION")), "yielded")
            /\ UNCHANGED task
       ELSE /\ Goto([a EXCEPT !.order = Order!ReadyReported(@),
                              !.lc = Ready(@, TRUE, TRUE)], "yielded")
            /\ task' = Cancelled({"readiness"})
  /\ UNCHANGED <<queue, control, proc, world>>

HandleReadiness ==
  /\ \/ Take("POLL") /\ coord' = IF ses.child THEN "ready" ELSE "yielded"
     \/ /\ Take("DEADLINE")
        /\ coord' = IF ses.child /\ ses.lc.phase = "Starting"
                    THEN "ready deadline" ELSE "yielded"
  /\ UNCHANGED <<ses, task, control, proc, world>>

----------------------------------------------------------------------------
\* The other observations

HandleEOF ==
  /\ Take("EOF")
  /\ \E admits \in Admissions :
       Goto(Stop(Account(ses, admits), "controller_eof", NoFailure), "yielded")
  /\ UNCHANGED <<task, control, proc, world>>

HandleSignal ==
  /\ Take("SIGNAL")
  /\ \E admits \in Admissions : Goto(Account(ses, admits), "yielded")
  /\ UNCHANGED <<task, control, proc, world>>

HandleFailure ==
  /\ Take("FAIL")
  /\ \E admits \in Admissions :
       Goto(ObservationFailed(ses, Head(queue).src, admits), "yielded")
  /\ UNCHANGED <<task, control, proc, world>>

\* A chunk may complete no line; end-of-file may flush the last one.
HandleOutput ==
  /\ \/ Take("OUT") \/ Take("OUTEOF")
  /\ \E fragment \in BOOLEAN, admitted \in Admissions :
       LET s == IF ~fragment \/ ~ses.outputAvailable THEN ses
                ELSE IF admitted
                THEN [ses EXCEPT !.order = Order!ChildOutputRelayed(@)]
                ELSE Stop([ses EXCEPT !.outputAvailable = FALSE],
                          "output_failure", "CHILD_OUTPUT_ADMISSION")
           ended == {Head(queue).src} \cap
                    (IF Head(queue).kind = "OUTEOF" THEN Streams ELSE {})
       IN  Goto(IF ses.child THEN [s EXCEPT !.finished = @ \cup ended] ELSE ses,
                "yielded")
  /\ UNCHANGED <<task, control, proc, world>>

HandleLog ==
  /\ \/ Take("LOG") \/ Take("LOGEOF") \/ Take("LOGCREDIT") \/ Take("LOGSTOPPED")
  /\ \E admits \in Admissions :
       LET taken == [ses EXCEPT !.relay =
                       CASE Head(queue).kind = "LOG"    -> Relay!Accept(@, <<"b">>)
                         [] Head(queue).kind = "LOGEOF" -> Relay!AcceptEOF(@)
                         [] OTHER                       -> @]
       IN  Goto(LogProgress(taken, admits), "yielded")
  /\ UNCHANGED <<task, control, proc, world>>

HandleLogDeadline ==
  /\ Take("LOGDEADLINE")
  /\ Goto([ses EXCEPT !.relay = Relay!Decide(@, TRUE, TRUE)], "yielded")
  /\ UNCHANGED <<task, control, proc, world>>

HandleExit ==
  /\ Take("EXIT")
  /\ Goto(IF ses.child THEN RecordExit(ses, proc) ELSE ses, "yielded")
  /\ UNCHANGED <<task, control, proc, world>>

\* The cleanup task failed exactly if it could not dispose of the group.
HandleCleaned ==
  /\ Take("CLEANED")
  /\ \E admits \in Admissions :
       LET stored == [ses EXCEPT !.cleanup = "cleaned"]
           failed == IF proc.disposed THEN stored ELSE CleanupFails(stored)
       IN  Goto(LogDisposal(failed, proc.disposed, admits), "yielded")
  /\ task' = [t \in Tasks |->
                IF t = "drain" /\ ses.finished # world.streams THEN "on"
                ELSE IF t = "log" /\ ~proc.disposed /\ ses.relay.decision = "none"
                THEN "done" ELSE task[t]]
  /\ UNCHANGED <<control, proc, world>>

HandleDrain ==
  /\ Take("DRAIN")
  /\ Goto(IF ses.child /\ ses.finished # world.streams
          THEN [CleanupFails(ses) EXCEPT !.finished = world.streams] ELSE ses, "yielded")
  /\ UNCHANGED <<task, control, proc, world>>

----------------------------------------------------------------------------
\* _finish_attempt after its tasks were cancelled (Coordinate did that).
SettleAttemptStep ==
  /\ coord = "settling"
  /\ \E admits \in Admissions, stillOpen \in May("lease") :
       LET heard  == Hear(ses, ChildTasks, admits)
           exited == IF proc.observed \/ proc.state = "reaped"
                     THEN RecordExit(heard, proc) ELSE heard
           closed == IF exited.address /\ stillOpen THEN CleanupFails(exited)
                     ELSE [exited EXCEPT !.address = FALSE]
           told   == Account([closed EXCEPT !.settlement = IF proc.disposed
                                              THEN "confirmed" ELSE "unconfirmed"], admits)
           ended  == IF told.lc.phase = "Starting"
                     THEN Stop(told, "startup_failure", "STARTUP_EXIT") ELSE told
           done   == [ended EXCEPT !.attemptFinished = TRUE]
       IN  IF proc.disposed /\ ~done.address
           THEN /\ Goto([done EXCEPT !.lc = SettleAttempt(@, TRUE, TRUE),
                                     !.child = FALSE], "loop")
                /\ UNCHANGED task
           ELSE /\ Goto(LogDisposal(CleanupFails(done), FALSE, admits), "loop")
                /\ task' = IF done.relay.decision = "none" THEN Cancelled({"log"}) ELSE task
  /\ UNCHANGED <<queue, control, proc, world>>

\* _run_session_tasks after _coordinate returned: cancel, then release.
CancelSessionTasks ==
  /\ coord = "ending"
  /\ \E admits \in Admissions : Goto(Hear(ses, SessionTasks, admits), "closing")
  /\ task' = Cancelled(SessionTasks)
  /\ UNCHANGED <<queue, control, proc, world>>

ReleaseWorkspace ==
  /\ coord = "closing"
  /\ \E stillOpen \in May("lease"), stays \in May("remove") :
       LET s == IF ses.address /\ stillOpen THEN CleanupFails(ses)
                ELSE [ses EXCEPT !.address = FALSE]
           r == [s EXCEPT !.readiness = FALSE, !.stagingClosed = TRUE]
       IN  IF ~ChildDisposed(r) \/ r.address THEN Goto(CleanupFails(r), "freezing")
           ELSE IF stays
           THEN Goto(CleanupFails([r EXCEPT !.marker = FALSE]), "freezing")
           ELSE Goto([r EXCEPT !.marker = FALSE, !.workspace = FALSE], "freezing")
  /\ UNCHANGED <<queue, task, control, proc, world>>

\* _cleanup_report and the masked commit of the snapshot.  freeze() raising
\* leaves the client without SESSION_ENDED.
FreezeSnapshot ==
  /\ coord = "freezing"
  /\ \E admits \in Admissions :
       LET cleanup == CleanupReport(ses)
           settled == IF ChildDisposed(ses) /\ ~ses.address /\ ses.acquisition # "none"
                      THEN [ses EXCEPT !.lc = SettleAttempt(@, TRUE, TRUE)] ELSE ses
           s       == Account(settled, admits)
           log     == LogReport(s, cleanup)
       IN  IF CanFreeze(s.lc, cleanup, log)
           THEN Goto([s EXCEPT !.lc = Freeze(@, cleanup, log)], "delivering")
           ELSE Goto([s EXCEPT !.status = 1], "crashed")
  /\ UNCHANGED <<queue, task, control, proc, world>>

EmitTerminal ==
  /\ coord = "delivering"
  /\ \E admitted \in Admissions :
       IF ~admitted
       THEN Goto(Stop(ses, "output_failure", "TERMINAL_DELIVERY"), "exiting")
       ELSE LET l == ses.lc IN
            Goto([ses EXCEPT !.order =
                    Order!SessionEnded(@, l.outcome.result.seen, l.cleanup.child,
                                       l.cleanup.workspace, l.log,
                                       IF ses.logOpen THEN ses.relay.admitted ELSE 0)],
                 "draining")
  /\ UNCHANGED <<queue, task, control, proc, world>>

DrainOutput ==
  /\ coord = "draining"
  /\ \E late \in May("backlog") :
       Goto(IF late \/ ses.writerFailed
            THEN Stop(ses, "output_failure", "TERMINAL_DELIVERY") ELSE ses, "exiting")
  /\ UNCHANGED <<queue, task, control, proc, world>>

\* The last accounting, and run_async's exit status.
Exit ==
  /\ coord = "exiting"
  /\ LET s == Account(ses, FALSE)
         policy == IF s.started THEN want.policy ELSE "live_server"
     IN  Goto([s EXCEPT !.status =
                 IF s.lc.local # << >> \/ SnapshotFailed(s.lc, policy) THEN 1 ELSE 0],
              "exited")
  /\ task' = Cancelled(Tasks)
  /\ UNCHANGED <<queue, control, proc, world>>

----------------------------------------------------------------------------
Observe ==
  \/ \E t \in Tasks : FinishPut(t) \/ ObserverFails(t)
  \/ \E t \in Streams : ReadOutput(t) \/ ReadOutputEOF(t)
  \/ ReadStart \/ ReadRelease \/ ReadEOF \/ ObserveSignal \/ ObserveExit
  \/ PollReadiness \/ ReadinessExpires \/ DrainExpires
  \/ ReadLog \/ ReadLogEOF \/ WriteLogFrame \/ ReturnCredit \/ LogDrainExpires
  \/ SendTerm \/ LeaderWaitEnds \/ SendKill \/ GroupWaitEnds

Handle ==
  \/ HandleStart \/ HandleReadiness \/ HandleEOF \/ HandleSignal \/ HandleFailure
  \/ HandleOutput \/ HandleLog \/ HandleLogDeadline \/ HandleExit
  \/ HandleCleaned \/ HandleDrain

Coordinator ==
  \/ Announce \/ Coordinate \/ Handle
  \/ CreateEntries \/ SpawnChild \/ SpawnFails \/ CheckReady \/ CommitReady
  \/ SettleAttemptStep \/ CancelSessionTasks \/ ReleaseWorkspace
  \/ FreezeSnapshot \/ EmitTerminal \/ DrainOutput \/ Exit

Environment == ClientStarts \/ SignalArrives \/ ChildExits \/ ChildPublishes \/ ChildLogs

Finished == Over /\ UNCHANGED vars

Next == Observe \/ Coordinator \/ Environment \/ Finished

Spec == Init /\ [][Next]_vars

\* The event loop runs every ready task and expires every timer, and the
\* kernel delivers an exit.  Nothing obliges the client to write or hang up,
\* the child to exit by itself, to write, or to close its output or its log.
Fairness ==
  /\ WF_vars(Coordinator)
  /\ \A t \in Tasks : WF_vars(FinishPut(t))
  /\ WF_vars(ObserveExit)
  /\ WF_vars(SendTerm) /\ WF_vars(LeaderWaitEnds)
  /\ WF_vars(SendKill) /\ WF_vars(GroupWaitEnds)
  /\ WF_vars(DrainExpires) /\ WF_vars(LogDrainExpires)
  /\ SF_vars(ReadinessExpires)

LiveSpec == Spec /\ Fairness

----------------------------------------------------------------------------
SessionTypeOK ==
  /\ ses.lc.phase \in Phases
  /\ Len(queue) <= QueueBound
  /\ \A i \in DOMAIN queue : queue[i] \in [src : Tasks, kind : Kinds]
  /\ task \in [Tasks -> {"off", "on", "done"} \cup Kinds]
  /\ control \in {"none", "sending", "start", "release", "closed", "lost"}
  /\ proc.state \in {"none", "running", "exited", "reaped"}
  /\ proc.artifact \subseteq want.required
  /\ ses.finished \subseteq Streams
  /\ ses.relay.decision \in Relay!Decisions

\* No process of the attempt's group is left.
Gone == proc.state \in {"none", "reaped"} /\ ~proc.members

Frozen == ses.lc.phase = "Closed"

\* The diagnostics the session's outcome carries.
Told(l) == {l.outcome.primary} \cup Range(l.outcome.diagnostics)

\* READY reaches the client only for a child whose evidence is all there, and
\* never after a signal, a lost lease or an observer's failure that the helper
\* already knows of, even one that came during the check (_ready, commit).
ReadyOnlyWhileWanted ==
  [][~ses.order.ready /\ ses'.order.ready =>
       /\ ~ses.sigPending /\ control # "lost" /\ ses.failures = << >>
       /\ want.required \subseteq proc.artifact /\ ~proc.observed]_vars

\* The client that hung up without RELEASE and the signal are in the snapshot
\* if they came before it was frozen, although their publications may still
\* wait for the full queue or never be taken (FreezeSnapshot's accounting).
FatalFactsReachTheSnapshot ==
  [][~Frozen /\ Frozen' =>
       /\ control = "lost" => "CONTROLLER_LEASE_LOST" \in Told(ses'.lc)
       /\ ses.sigPending => "REMOTE_SIGNAL" \in Told(ses'.lc)]_vars

TellsIn(codes) == Cardinality({i \in DOMAIN codes : codes[i] = "OBSERVER_FAILURE"})

\* How many observer failures the outcome and the helper's own status tell.
ObserverFailures(l) ==
  TellsIn(<<l.outcome.primary>>) + TellsIn(l.outcome.diagnostics) + TellsIn(l.local)

\* An observer's failure that was recorded is told, exactly once: no step
\* forgets a record, and none tells it a second time, whether the record, its
\* publication, the cancellation of its task or the end of its child comes
\* first.  What is recorded before the snapshot is frozen is told in it, and
\* what is recorded before the exit in the exit status (_observation_failed,
\* account_recorded_failures).
ObserverFailuresAreTold ==
  [][/\ ObserverFailures(ses'.lc) =
          ObserverFailures(ses.lc) + Cardinality(Range(ses.failures) \ Range(ses'.failures))
     /\ (~Frozen /\ Frozen') \/ (~Over /\ Over') => ses'.failures = << >>]_vars

\* The helper exits with 0 only after a session nothing ended by force, whose
\* child is gone, whose workspace is removed and whose terminal event was
\* handed to the client (run_async's SystemExit).
ExitStatusIsHonest ==
  ses.status = 0 =>
    /\ control # "lost" /\ ~ses.sigPending
    /\ ses.lc.outcome.primary = NoFailure /\ ses.lc.local = << >>
    /\ Gone /\ ~ses.address /\ ~ses.workspace
    /\ ses.order.ended \/ ses.order.fault # "none"

\* While any process of the group may live the workspace is there and marked,
\* so that another helper's reclaim_stale would keep it should this helper die
\* at this very step (spawn_child's marker, release_workspace).
MarkerCoversLiveChild == Gone \/ (ses.marker /\ ses.workspace)

\* Every session ends with SESSION_ENDED "for success and failure alike"
\* (docs/architecture/protocol.md), so freeze() never raises.
FreezeNeverRaises == coord # "crashed"

\* freeze() refuses the snapshot in one case only, see FreezeNeverRaises: the log
\* was asked for and never opened, which _log_report calls complete, and the
\* address lease is still there.  In every other way a session can end the
\* cleanup report, the outcome, the log and the attempt agree.
FreezeRefusesUnopenedLog ==
  coord = "crashed" => want.log /\ ~ses.logOpen /\ ses.address /\ ~ses.acquired

\* The client accepts every event in the order the helper admits it.  The one
\* exception is the log report of a START the helper never accepted; see
\* LogReportFollowsStart.
ClientFollowsEvents ==
  ses.order.fault \in {"none", "log report disagrees with START"}

\* LogReport is "Null exactly when START did not request the log channel"
\* (_log_report's docstring), for a START that the helper has read and a client
\* that is still there.
LogReportFollowsStart ==
  Frozen /\ control \in {"start", "release"} => (ses.lc.log = "none") = ~want.log

\* The child's result is attributed to the helper exactly if a signal of the
\* helper was sent before the leader exited, whichever of the exit, its
\* observation, TERM and KILL came first.  Only an exit that falls between the
\* poll and the signal is attributed to the helper without being its doing.
RequestedIffSignalled ==
  ses.lc.attempt.result.seen /\ ~proc.raced =>
    ses.lc.attempt.result.requested = proc.signalled

\* What the terminal event calls confirmed is so: the group and the address
\* are gone and no task watches the child; and so is the workspace.
ConfirmedCleanupIsReal ==
  Frozen =>
    /\ ses.lc.cleanup.child # "unconfirmed" =>
         Gone /\ ~ses.address /\ \A t \in ChildTasks : task[t] \notin {"on"} \cup Kinds
    /\ ses.lc.cleanup.workspace = "confirmed" => ~ses.workspace

\* A log reported complete holds every byte the child ever wrote to it, and no
\* process can still write to it.
CompleteLogIsWhole ==
  Frozen /\ ses.logOpen /\ ses.lc.log = "complete" =>
    ses.order.bytes = proc.written /\ Gone /\ ~proc.escaped

\* A session that began to end, lost its client's lease, even while the
\* publication of that waits for the queue, or lost its child, ends: no stuck
\* process, descendant that holds a pipe or the log open, or silent client can
\* keep the helper from exiting.
SessionEnds ==
  ses.lc.phase = "Terminating" \/ control = "lost" \/ proc.state = "exited"
    ~> coord = "exited"

\* A START is decided: READY, or the end of the session, within the timeout.
StartIsDecided == ses.lc.phase = "Starting" ~> ses.lc.phase # "Starting"
============================================================================

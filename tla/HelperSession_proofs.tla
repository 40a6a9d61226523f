------------------------ MODULE HelperSession_proofs ------------------------
(***************************************************************************)
(* Proofs of what HelperSession.tla states, for any worlds: any request,   *)
(* any faults, any streams, any bound of the queue and of the log's        *)
(* buffer, and any order of the observers, of the client's writes, of the  *)
(* signals and of what the child does.                                     *)
(*                                                                         *)
(* The inductive invariant is SessionInv.  Most of what the coordinator    *)
(* does between two waits is bookkeeping (Noted): it accounts failures,    *)
(* relays the log and tells the client, and owns and gives up nothing.     *)
(* Each action is shown to be bookkeeping after at most one real change,   *)
(* the start, the spawn, the exit, the settlement, the release or the      *)
(* snapshot, and bookkeeping to keep the invariant.  The same proofs show  *)
(* that no step but the commit of READY tells it (Steady).                 *)
(*                                                                         *)
(* The last section counts: what is told and what is recorded of failed    *)
(* observers is known, and no step loses or repeats any of it (Balanced).  *)
(***************************************************************************)
EXTENDS HelperSession, FiniteSetTheorems, WellFoundedInduction, TLAPS

----------------------------------------------------------------------------
\* The records a session is made of.

Results  == [seen : BOOLEAN, returncode : Int, requested : BOOLEAN]
Attempts == [stage : Stages, requested : BOOLEAN, result : Results]
Outcomes == [trigger : Triggers \cup {"none"}, primary : Failures \cup {NoFailure},
             diagnostics : Seq(Failures), result : Results]
Lifecycles ==
  [phase : Phases, policy : Policies \cup {"none"}, required : SUBSET Evidence,
   evidence : SUBSET Evidence, attempt : Attempts, outcome : Outcomes,
   cleanup : Cleanups, log : Logs, local : Seq(Failures)]

Processes ==
  [state : {"none", "running", "exited", "reaped"}, rc : Int, members : BOOLEAN,
   escaped : BOOLEAN, observed : BOOLEAN, requested : BOOLEAN, signalled : BOOLEAN,
   raced : BOOLEAN, disposed : BOOLEAN, artifact : SUBSET Evidence, output : Nat,
   written : Nat, taken : Nat, stage : {"idle", "term", "await", "kill", "vanish"}]

\* What the coordinator keeps of a session.
SessionFields ==
  {"lc", "order", "relay", "logOpen", "logInFlight", "creditBack", "drainStarted",
   "failures", "writerFailed", "outputAvailable", "sigPending", "sigAccounted",
   "leaseLost", "leaseAccounted", "started", "child", "acquired", "acquisition",
   "settlement", "address", "cleanup", "finished", "attemptFinished",
   "stagingClosed", "readiness", "workspace", "marker", "status"}

EventFields ==
  {"policy", "logRequested", "created", "attempted", "ready", "output", "bytes",
   "ended", "fault"}

\* What an observer puts into the queue, and the states of its task.
Observations == [src : Tasks, kind : Kinds]
TaskStates   == {"off", "on", "done"} \cup Kinds

----------------------------------------------------------------------------
\* The lifecycle record.

\* The session is ending or over.
Ended(l) == l.phase \in {"Terminating", "Closed"}

\* The diagnostics that l carries, in its outcome or added after the snapshot.
Codes(l) == (Told(l) \cup Range(l.local)) \ {NoFailure}

LcSound(l) ==
  /\ l \in Lifecycles
  /\ l.local # << >> => l.phase = "Closed"
  /\ ~Ended(l) => l.outcome = NoOutcome
  /\ Ended(l) => l.outcome.result = l.attempt.result /\ l.evidence = {}
  /\ l.outcome.primary = NoFailure /\ l.outcome.diagnostics # << >> =>
       NaturalFailure(l.outcome.result)

\* m is l after any number of terminations.
Later(l, m) ==
  /\ LcSound(m)
  /\ m.attempt = l.attempt /\ m.cleanup = l.cleanup /\ m.log = l.log
  /\ Codes(l) \subseteq Codes(m) /\ (l.local # << >> => m.local # << >>)
  /\ l.phase = "Closed" => m.phase = "Closed" /\ m.outcome = l.outcome
  /\ l.phase = "Terminating" => m.phase = "Terminating"
  /\ ~Ended(l) => m = l \/ m.phase = "Terminating"

----------------------------------------------------------------------------
\* The session record.

Formed(s) ==
  /\ DOMAIN s = SessionFields /\ DOMAIN s.order = EventFields
  /\ s.failures \in Seq(Tasks) /\ s.finished \subseteq Streams
  /\ LcSound(s.lc)

\* The client has seen the terminal event, or had refused an event before it.
Delivered(o) == o.ended \/ o.fault # "none"

\* What the session holds is the same in s and t.
SameHoldings(s, t) ==
  /\ t.logOpen = s.logOpen /\ t.started = s.started
  /\ t.child = s.child /\ t.acquired = s.acquired /\ t.acquisition = s.acquisition
  /\ t.settlement = s.settlement /\ t.address = s.address /\ t.cleanup = s.cleanup
  /\ t.attemptFinished = s.attemptFinished
  /\ t.workspace = s.workspace /\ t.marker = s.marker /\ t.status = s.status

\* t is s after bookkeeping: failures are accounted, the log relay and the
\* event stream may go on, and nothing that is owned changes.
Noted(s, t) ==
  /\ Formed(t) /\ Later(s.lc, t.lc)
  /\ t.order.ready = s.order.ready /\ (Delivered(s.order) => Delivered(t.order))
  /\ Range(t.failures) \subseteq Range(s.failures)
  /\ t.sigAccounted => s.sigAccounted \/ "REMOTE_SIGNAL" \in Codes(t.lc)
  /\ t.leaseAccounted => s.leaseAccounted \/ "CONTROLLER_LEASE_LOST" \in Codes(t.lc)
  /\ t.sigPending = s.sigPending /\ t.leaseLost = s.leaseLost /\ SameHoldings(s, t)

----------------------------------------------------------------------------
\* The inductive invariant

Accounted(s) ==
  /\ s.sigAccounted => "REMOTE_SIGNAL" \in Codes(s.lc)
  /\ s.leaseAccounted => "CONTROLLER_LEASE_LOST" \in Codes(s.lc)

\* How far the attempt is, by what the spawn acquired.
Staged(s, w) ==
  /\ s.acquisition \in {"none", "child", "no process", "rolled back", "leaked"}
  /\ s.acquisition # "none" => s.lc.phase # "Created" /\ (w.request.log => s.logOpen)
  /\ s.acquisition = "child" => s.acquired
  /\ s.acquisition = "none" =>
       /\ s.lc.attempt.stage \in {"none", "authorized", "producing"}
       /\ s.lc.evidence = {} /\ ~s.acquired
  /\ s.acquisition # "child" =>
       ~s.child /\ s.cleanup = "none" /\ ~s.attemptFinished /\ s.settlement = "none"
  /\ s.acquisition \notin {"none", "child"} => Ended(s.lc)
  /\ s.settlement = "confirmed" => s.attemptFinished
  /\ s.child /\ s.lc.phase # "Closed" => s.lc.attempt.stage = "owned"
  /\ s.lc.attempt.result.seen => s.acquired

Owned(s) ==
  /\ ChildDisposed(s) \/ (s.marker /\ s.workspace)
  /\ ~s.workspace => ChildDisposed(s) /\ ~s.address

\* The places of the coordinator.
Working == {"boot", "loop", "yielded", "waiting", "take", "entries", "spawn", "ready",
            "ready deadline", "commit", "commit deadline", "settling"}
Ending  == {"ending", "closing", "freezing", "crashed"}
Late    == {"delivering", "draining", "exiting", "exited"}

Placed(s, p, w, c) ==
  /\ c \in Working \cup Ending \cup Late
  /\ c \in Working => s.lc.phase # "Closed"
  /\ c \in Working \cup {"ending", "closing"} => s.workspace
  /\ c \in Ending => s.lc.phase = "Terminating"
  /\ c \in Late => s.lc.phase = "Closed" /\ s.lc.cleanup = CleanupReport(s)
  /\ c = "entries" =>
       /\ s.lc.phase = "Starting" /\ s.lc.attempt.stage = "authorized"
       /\ s.acquisition = "none"
  /\ c = "spawn" =>
       /\ s.lc.phase = "Starting" /\ s.lc.attempt.stage = "producing"
       /\ s.acquisition = "none" /\ (w.request.log => s.logOpen)
  /\ s.lc.attempt.stage = "producing" /\ s.acquisition = "none" => c = "spawn"
  /\ c \in {"commit", "commit deadline"} =>
       s.child /\ ~p.observed /\ s.lc.required \subseteq s.lc.evidence
  /\ c = "settling" => s.child /\ ~s.attemptFinished
  /\ c = "freezing" /\ s.workspace => Codes(s.lc) # {}
  /\ c = "crashed" => w.request.log /\ ~s.logOpen /\ s.address /\ ~s.acquired
  /\ c = "draining" => Delivered(s.order)
  /\ c \in {"exiting", "exited"} => s.lc.local # << >> \/ Delivered(s.order)
  /\ s.status = 0 => c = "exited"

\* Nothing of the group is left.
Quiet(p) == p.state \in {"none", "reaped"} /\ ~p.members

\* The helper's view of the group and of its exit.
Supervised(s, p, w) ==
  /\ p \in Processes
  /\ p.requested = (p.signalled \/ p.raced)
  /\ p.observed => p.state # "running"
  /\ s.lc.attempt.requested => s.lc.attempt.result.seen
  /\ s.lc.attempt.result.seen =>
       p.state # "running" /\ s.lc.attempt.result.requested = p.requested
  /\ p.requested => Ended(s.lc) \/ s.lc.attempt.result.seen
  /\ s.cleanup # "none" => Ended(s.lc) \/ s.lc.attempt.result.seen
  /\ p.stage # "idle" => s.cleanup # "none"
  /\ p.disposed => Quiet(p)
  /\ ChildDisposed(s) => Quiet(p)
  /\ s.lc.phase = "Starting" =>
       s.lc.required = w.request.required /\ s.lc.evidence \subseteq p.artifact

\* The child's observers run only while the child is owned and not settled,
\* an EXIT is published only for an exit, and CLEANED once.
Settled(s, c) == s.attemptFinished \/ c = "settling"

Watched(s, p, c, tk, q) ==
  /\ tk \in [Tasks -> TaskStates] /\ q \in Seq(Observations)
  /\ \A i \in 1 .. Len(q) :
       /\ q[i].kind = "EXIT" => s.acquisition = "child" /\ p.state # "running"
       /\ q[i].kind = "CLEANED" =>
            /\ s.cleanup = "running" /\ tk["cleanup"] = "done"
            /\ \A j \in 1 .. Len(q) : q[j].kind = "CLEANED" => j = i
  /\ \A t \in Tasks :
       /\ tk[t] = "EXIT" => s.acquisition = "child" /\ p.state # "running"
       /\ tk[t] = "CLEANED" => t = "cleanup"
  /\ tk["cleanup"] \notin {"off", "done"} => s.cleanup = "running"
  /\ s.acquisition # "child" \/ Settled(s, c) =>
       \A t \in ChildTasks : tk[t] \in {"off", "done"}
  /\ Settled(s, c) => s.cleanup = "cleaned"

\* A lost lease is recorded, and the control stream is not read again.
Heard(s, tk, ctl) ==
  ctl = "lost" => s.leaseLost /\ tk["control"] \notin {"on"} \cup Continues

Core(s, w) == Formed(s) /\ Accounted(s) /\ Staged(s, w) /\ Owned(s)

SessionInv ==
  /\ world \in Worlds
  /\ Core(ses, world)
  /\ Placed(ses, proc, world, coord)
  /\ Supervised(ses, proc, world)
  /\ Watched(ses, proc, coord, task, queue)
  /\ Heard(ses, task, control)
  /\ ExitStatusIsHonest

\* A step that keeps the invariant and does not commit READY.
Steady == SessionInv' /\ ses'.order.ready = ses.order.ready

----------------------------------------------------------------------------
\* Append keeps a sequence one of its set, and adds its element to the range.
LEMMA Appended ==
  ASSUME NEW S, NEW q \in Seq(S), NEW x \in S
  PROVE  /\ Append(q, x) \in Seq(S) /\ Append(q, x) # << >>
         /\ Range(Append(q, x)) = Range(q) \cup {x}
<1> DEFINE r == Append(q, x)
<1>1. r \in Seq(S) /\ Len(r) = Len(q) + 1 /\ Len(q) \in Nat
  OBVIOUS
<1>2. /\ DOMAIN q = 1 .. Len(q) /\ DOMAIN r = 1 .. Len(q) + 1
      /\ \A i \in 1 .. Len(q) : r[i] = q[i]
      /\ r[Len(q) + 1] = x
  OBVIOUS
<1> HIDE DEF r
<1>3. Range(r) \subseteq Range(q) \cup {x}
  BY <1>2 DEF Range
<1>4. Range(q) \cup {x} \subseteq Range(r)
  BY <1>2 DEF Range
<1>5. r # << >>
  BY <1>1
<1>6. QED  BY <1>1, <1>3, <1>4, <1>5 DEF r

\* A sequence that is not empty has an element in its range.
LEMMA NonEmpty ==
  ASSUME NEW S, NEW q \in Seq(S), q # << >>
  PROVE  \E x \in S : x \in Range(q)
<1>1. 1 \in DOMAIN q /\ q[1] \in S
  OBVIOUS
<1>2. QED  BY <1>1 DEF Range

\* _retain_failure adds one failure to the outcome, as the primary one or as a
\* diagnostic, and loses none of those it had.
LEMMA FailureAdded ==
  ASSUME NEW o \in Outcomes, NEW failure \in Failures,
         o.primary = NoFailure /\ o.diagnostics # << >> => NaturalFailure(o.result)
  PROVE  LET out == WithFailure(o, failure) IN
         /\ out \in Outcomes /\ out.result = o.result
         /\ out.primary = NoFailure /\ out.diagnostics # << >> => NaturalFailure(out.result)
         /\ {out.primary} \cup Range(out.diagnostics) \cup {NoFailure} =
              {o.primary} \cup Range(o.diagnostics) \cup {failure, NoFailure}
<1> DEFINE out == WithFailure(o, failure)
<1>1. CASE o.primary = NoFailure /\ ~ChildFailureIsPrimary(o)
  <2>1. out = [o EXCEPT !.primary = failure]
    BY <1>1 DEF WithFailure
  <2>2. out \in Outcomes
    BY <2>1 DEF Outcomes
  <2>3. out.primary = failure /\ out.diagnostics = o.diagnostics /\ out.result = o.result
    BY <2>1 DEF Outcomes
  <2>4. failure # NoFailure
    BY LifecycleConstants
  <2>5. QED  BY <1>1, <2>2, <2>3, <2>4
<1>2. CASE ~(o.primary = NoFailure /\ ~ChildFailureIsPrimary(o))
  <2>1. out = [o EXCEPT !.diagnostics = Append(@, failure)]
    BY <1>2 DEF WithFailure
  <2>2. o.diagnostics \in Seq(Failures)
    BY DEF Outcomes
  <2>3. /\ Append(o.diagnostics, failure) \in Seq(Failures)
        /\ Range(Append(o.diagnostics, failure)) = Range(o.diagnostics) \cup {failure}
    BY <2>2, Appended
  <2>4. out \in Outcomes
    BY <2>1, <2>3 DEF Outcomes
  <2>5. /\ out.primary = o.primary /\ out.result = o.result
        /\ out.diagnostics = Append(o.diagnostics, failure)
    BY <2>1 DEF Outcomes
  <2>6. out.primary = NoFailure => NaturalFailure(out.result)
    BY <1>2, <2>5 DEF ChildFailureIsPrimary
  <2>7. QED  BY <2>3, <2>4, <2>5, <2>6
<1>3. QED  BY <1>1, <1>2

\* terminate() keeps every failure the lifecycle had, carries the new one, and
\* leaves the lifecycle terminating or, when it was closed, closed as it was.
LEMMA Terminates ==
  ASSUME NEW l, LcSound(l), NEW trigger \in Triggers,
         NEW failure \in Failures \cup {NoFailure}
  PROVE  /\ Later(l, Terminate(l, trigger, failure))
         /\ Ended(Terminate(l, trigger, failure))
         /\ failure = NoFailure \/ failure \in Codes(Terminate(l, trigger, failure))
<1> DEFINE m == Terminate(l, trigger, failure)
<1>0. l \in Lifecycles /\ l.outcome \in Outcomes /\ l.attempt.result \in Results
  BY DEF LcSound, Lifecycles, Attempts
<1>1. CASE l.phase = "Closed" /\ failure # NoFailure
  <2>1. m = [l EXCEPT !.local = Append(l.local, failure)]
    BY <1>1 DEF Terminate
  <2>2. m \in Lifecycles
    <3>1. Append(l.local, failure) \in Seq(Failures)
      BY <1>0, <1>1, Appended DEF Lifecycles
    <3>2. QED  BY <2>1, <3>1, <1>0 DEF Lifecycles
  <2>3. /\ m.attempt = l.attempt /\ m.cleanup = l.cleanup /\ m.log = l.log
        /\ m.phase = l.phase /\ m.evidence = l.evidence /\ m.outcome = l.outcome
        /\ m.local = Append(l.local, failure) /\ l.local \in Seq(Failures)
    BY <2>1, <1>0 DEF Lifecycles
  <2>4. LcSound(m) /\ Ended(m)
    BY <1>1, <2>2, <2>3 DEF LcSound, Ended
  <2>5. Codes(m) = Codes(l) \cup {failure} /\ m.local # << >>
    <3>1. /\ failure \in Failures /\ Range(m.local) = Range(l.local) \cup {failure}
          /\ m.local # << >>
      BY <1>1, <2>3, Appended
    <3>2. QED  BY <1>1, <2>3, <3>1 DEF Codes, Told
  <2>6. QED  BY <1>1, <2>3, <2>4, <2>5 DEF Later, Ended
<1>2. CASE l.phase = "Terminating" /\ failure # NoFailure
  <2> DEFINE out == WithFailure(l.outcome, failure)
  <2>1. m = [l EXCEPT !.outcome = out]
    BY <1>2 DEF Terminate
  <2>2. /\ out \in Outcomes /\ out.result = l.outcome.result
        /\ out.primary = NoFailure /\ out.diagnostics # << >> => NaturalFailure(out.result)
        /\ {out.primary} \cup Range(out.diagnostics) \cup {NoFailure} =
             {l.outcome.primary} \cup Range(l.outcome.diagnostics) \cup {failure, NoFailure}
    BY <1>0, <1>2, FailureAdded DEF LcSound
  <2> HIDE DEF out
  <2>5. m \in Lifecycles
    BY <2>1, <2>2, <1>0 DEF Lifecycles
  <2>6. /\ m.attempt = l.attempt /\ m.cleanup = l.cleanup /\ m.log = l.log
        /\ m.phase = l.phase /\ m.evidence = l.evidence /\ m.outcome = out
        /\ m.local = l.local
    BY <2>1, <1>0 DEF Lifecycles
  <2>7. LcSound(m) /\ Ended(m)
    BY <1>2, <2>2, <2>5, <2>6 DEF LcSound, Ended
  <2>8. Codes(l) \subseteq Codes(m) /\ failure \in Codes(m)
    BY <1>2, <2>2, <2>6 DEF Codes, Told
  <2>9. QED  BY <1>2, <2>6, <2>7, <2>8 DEF Later, Ended
<1>3. CASE l.phase \notin {"Closed", "Terminating"}
  <2>1. m = [l EXCEPT !.phase = "Terminating", !.policy = "none", !.required = {},
                      !.evidence = {},
                      !.outcome = [trigger |-> trigger, primary |-> failure,
                                   diagnostics |-> << >>, result |-> l.attempt.result]]
    BY <1>3 DEF Terminate
  <2>2. l \in Lifecycles /\ l.attempt.result \in Results
    BY DEF LcSound, Lifecycles, Attempts
  <2>3. m \in Lifecycles
    <3>1. m.outcome \in Outcomes
      BY <2>1, <2>2 DEF Lifecycles, Outcomes
    <3>2. QED  BY <2>1, <2>2, <3>1 DEF Lifecycles, Phases
  <2>4. /\ m.attempt = l.attempt /\ m.cleanup = l.cleanup /\ m.log = l.log
        /\ m.local = l.local /\ m.phase = "Terminating" /\ m.evidence = {}
        /\ m.outcome.primary = failure /\ m.outcome.diagnostics = << >>
        /\ m.outcome.result = l.attempt.result
    BY <2>1, <2>2 DEF Lifecycles
  <2>5. LcSound(m) /\ Ended(m)
    BY <1>3, <2>3, <2>4 DEF LcSound, Ended
  <2>6. Codes(l) \subseteq Codes(m)
    BY <1>3, <2>4 DEF LcSound, Ended, Codes, Told, NoOutcome, Range
  <2>7. failure = NoFailure \/ failure \in Codes(m)
    BY <2>4 DEF Codes, Told
  <2>8. QED  BY <1>3, <2>4, <2>5, <2>6, <2>7 DEF Later, Ended
<1>4. CASE Ended(l) /\ failure = NoFailure
  BY <1>4 DEF Terminate, Later, Ended
<1>5. QED  BY <1>1, <1>2, <1>3, <1>4 DEF Ended

\* Terminations in a row are terminations.
LEMMA LaterTransitive ==
  ASSUME NEW l, NEW m, NEW n, Later(l, m), Later(m, n)
  PROVE  Later(l, n)
  BY DEF Later, Ended

\* No termination at all is one of their sequences.
LEMMA LaterReflexive ==
  ASSUME NEW l, LcSound(l)
  PROVE  Later(l, l)
  BY DEF Later, Ended

\* Bookkeeping may do nothing.
LEMMA NotedReflexive ==
  ASSUME NEW s, Formed(s)
  PROVE  Noted(s, s)
  BY LaterReflexive DEF Noted, Formed, SameHoldings

\* Bookkeeping in a row is bookkeeping.
LEMMA NotedTransitive ==
  ASSUME NEW s, NEW t, NEW u, Noted(s, t), Noted(t, u)
  PROVE  Noted(s, u)
<1>1. Later(s.lc, u.lc)
  BY LaterTransitive DEF Noted
<1>2. Codes(t.lc) \subseteq Codes(u.lc)
  BY DEF Noted, Later
<1>3. QED  BY <1>1, <1>2 DEF Noted, SameHoldings

\* _stop terminates the lifecycle and touches nothing else that matters.
LEMMA Stops ==
  ASSUME NEW s, Formed(s), NEW trigger \in Triggers,
         NEW failure \in Failures \cup {NoFailure}
  PROVE  LET t == Stop(s, trigger, failure) IN
         /\ Noted(s, t) /\ Ended(t.lc) /\ t.failures = s.failures
         /\ failure = NoFailure \/ failure \in Codes(t.lc)
<1> DEFINE t == Stop(s, trigger, failure)
<1>1. t.lc = Terminate(s.lc, trigger, failure)
  BY DEF Stop, Formed, SessionFields
<1>2. LcSound(s.lc)
  BY DEF Formed
<1>3. /\ Later(s.lc, t.lc) /\ Ended(t.lc)
      /\ failure = NoFailure \/ failure \in Codes(t.lc)
  BY <1>1, <1>2, Terminates
<1>4. DOMAIN t = DOMAIN s /\ \A f \in SessionFields \ {"lc"} : t[f] = s[f]
  BY DEF Stop, Formed
<1>5. /\ t.order = s.order /\ t.failures = s.failures /\ t.finished = s.finished
      /\ t.sigAccounted = s.sigAccounted /\ t.leaseAccounted = s.leaseAccounted
  BY <1>4 DEF SessionFields
<1>6. /\ SameHoldings(s, t)
      /\ t.sigPending = s.sigPending /\ t.leaseLost = s.leaseLost
  BY <1>4 DEF SessionFields, SameHoldings
<1>7. Formed(t)
  BY <1>3, <1>4, <1>5 DEF Formed, Later
<1>8. Noted(s, t)
  BY <1>3, <1>5, <1>6, <1>7 DEF Noted
<1>9. QED  BY <1>3, <1>5, <1>8

\* A step of the log relay alone is bookkeeping.
LEMMA RelayTurns ==
  ASSUME NEW s, Formed(s), NEW t, NEW relay,
         t = [s EXCEPT !.relay = relay]
  PROVE  Noted(s, t) /\ t.failures = s.failures
<1>1. /\ DOMAIN t = DOMAIN s /\ t.lc = s.lc /\ t.order = s.order
      /\ t.failures = s.failures
  BY DEF Formed, SessionFields
<1>2. /\ SameHoldings(s, t)
      /\ t.sigPending = s.sigPending /\ t.leaseLost = s.leaseLost
      /\ t.sigAccounted = s.sigAccounted /\ t.leaseAccounted = s.leaseAccounted
  BY DEF Formed, SessionFields, SameHoldings
<1>3. Formed(t) /\ Later(s.lc, t.lc)
  BY <1>1, LaterReflexive DEF Formed
<1>4. QED  BY <1>1, <1>2, <1>3 DEF Noted

\* So is one that also sends the client log data.
LEMMA Pumps ==
  ASSUME NEW s, Formed(s), NEW t, NEW relay, NEW flight, NEW order,
         t = [s EXCEPT !.relay = relay, !.logInFlight = flight, !.order = order],
         DOMAIN order = EventFields, order.ready = s.order.ready,
         Delivered(s.order) => Delivered(order)
  PROVE  Noted(s, t) /\ t.failures = s.failures
<1>1. DOMAIN t = DOMAIN s /\ t.lc = s.lc /\ t.order = order /\ t.failures = s.failures
  BY DEF Formed, SessionFields
<1>2. /\ SameHoldings(s, t)
      /\ t.sigPending = s.sigPending /\ t.leaseLost = s.leaseLost
      /\ t.sigAccounted = s.sigAccounted /\ t.leaseAccounted = s.leaseAccounted
  BY DEF Formed, SessionFields, SameHoldings
<1>3. Formed(t) /\ Later(s.lc, t.lc)
  BY <1>1, LaterReflexive DEF Formed
<1>4. QED  BY <1>1, <1>2, <1>3 DEF Noted

\* Log data is neither READY nor the end of the client's event stream.
LEMMA LogDataKeeps ==
  ASSUME NEW o, DOMAIN o = EventFields, NEW offset, NEW size
  PROVE  LET n == Order!LogDataRelayed(o, offset, size) IN
         /\ DOMAIN n = EventFields /\ n.ready = o.ready
         /\ Delivered(o) => Delivered(n)
  BY DEF Order!LogDataRelayed, Order!Judge, EventFields, Delivered

\* _log_progress relays what the log has, and ends the stream after its last byte.
LEMMA LogProgresses ==
  ASSUME NEW s, Formed(s), NEW admits
  PROVE  LET t == LogProgress(s, admits) IN
         Noted(s, t) /\ t.failures = s.failures
<1>0. DOMAIN s = SessionFields /\ DOMAIN s.order = EventFields
  BY DEF Formed
<1> DEFINE size   == Len(s.relay.buffer)
           pumped ==
             IF size = 0 \/ s.logInFlight THEN s
             ELSE IF admits
             THEN [s EXCEPT !.relay = Relay!Admit(@, size), !.logInFlight = TRUE,
                            !.order = Order!LogDataRelayed(@, s.relay.admitted, size)]
             ELSE [s EXCEPT !.relay = Relay!AdmissionFails(@)]
<1>1. Noted(s, pumped) /\ pumped.failures = s.failures
  <2>1. CASE size = 0 \/ s.logInFlight
    BY <2>1, NotedReflexive
  <2>2. CASE ~(size = 0 \/ s.logInFlight) /\ admits
    <3> DEFINE order == Order!LogDataRelayed(s.order, s.relay.admitted, size)
    <3>1. /\ DOMAIN order = EventFields /\ order.ready = s.order.ready
          /\ Delivered(s.order) => Delivered(order)
      BY <1>0, LogDataKeeps
    <3>2. pumped = [s EXCEPT !.relay = Relay!Admit(s.relay, size), !.logInFlight = TRUE,
                             !.order = order]
      BY <2>2
    <3> HIDE DEF order, pumped
    <3>3. QED  BY <3>1, <3>2, Pumps
  <2>3. CASE ~(size = 0 \/ s.logInFlight) /\ ~admits
    <3>1. pumped = [s EXCEPT !.relay = Relay!AdmissionFails(s.relay)]
      BY <2>3
    <3> HIDE DEF pumped
    <3>2. QED  BY <3>1, RelayTurns
  <2>4. QED  BY <2>1, <2>2, <2>3
<1>2. LogProgress(s, admits) =
        IF s.logOpen THEN [pumped EXCEPT !.relay = Relay!DecideIfReady(pumped.relay)] ELSE s
  BY DEF LogProgress
<1> HIDE DEF pumped
<1>3. CASE s.logOpen
  <2> DEFINE t == [pumped EXCEPT !.relay = Relay!DecideIfReady(pumped.relay)]
  <2>1. Noted(pumped, t) /\ t.failures = pumped.failures
    BY <1>1, RelayTurns DEF Noted
  <2>2. Noted(s, t)
    BY <1>1, <2>1, NotedTransitive
  <2>3. QED  BY <1>1, <1>2, <1>3, <2>1, <2>2
<1>4. CASE ~s.logOpen
  BY <1>2, <1>4, NotedReflexive
<1>5. QED  BY <1>3, <1>4

\* _log_disposal abandons the log or goes on with its relay: bookkeeping.
LEMMA LogDisposes ==
  ASSUME NEW s, Formed(s), NEW confirmed, NEW admits
  PROVE  Noted(s, LogDisposal(s, confirmed, admits))
<1>1. CASE ~s.logOpen \/ s.relay.decision # "none"
  BY <1>1, NotedReflexive DEF LogDisposal
<1>2. CASE s.logOpen /\ s.relay.decision = "none"
  <2> DEFINE t == [s EXCEPT !.relay = IF confirmed THEN Relay!ConfirmDisposal(@)
                                      ELSE Relay!Cut(@)]
  <2>1. Noted(s, t)
    BY RelayTurns
  <2>2. LogDisposal(s, confirmed, admits) = LogProgress(t, admits)
    BY <1>2 DEF LogDisposal
  <2> HIDE DEF t
  <2>3. Noted(t, LogProgress(t, admits))
    BY <2>1, LogProgresses DEF Noted
  <2>4. QED  BY <2>1, <2>2, <2>3, NotedTransitive
<1>3. QED  BY <1>1, <1>2

----------------------------------------------------------------------------
\* Two definitions are recursive functions on 0 .. n: what they compute is
\* shown by induction, from the well-foundedness of < on Nat.

\* A set of naturals that has a member has a least one.
LEMMA Least ==
  ASSUME NEW T, T \subseteq Nat, T # {}
  PROVE  \E n \in T : \A m \in T : ~(m < n)
<1>1. PICK n \in T : \A m \in T : ~(<<m, n>> \in OpToRel(<, Nat))
  BY WFMin, NatLessThanWellFounded
<1>2. \A m \in T : m < n => <<m, n>> \in OpToRel(<, Nat)
  BY DEF OpToRel
<1>3. QED  BY <1>1, <1>2

\* Induction on the naturals, as a set of those for which something holds.
LEMMA Induction ==
  ASSUME NEW T, 0 \in T, \A n \in Nat : n \in T => n + 1 \in T
  PROVE  Nat \subseteq T
<1>1. SUFFICES ASSUME Nat \ T # {} PROVE FALSE
  OBVIOUS
<1>2. PICK n \in Nat \ T : \A m \in Nat \ T : ~(m < n)
  BY <1>1, Least
<1>3. n # 0 /\ n - 1 \in Nat /\ n - 1 < n
  BY <1>2
<1>4. n - 1 \in T
  BY <1>2, <1>3
<1>5. QED  BY <1>2, <1>3, <1>4

Keeping(kept, q, t, n) ==
  kept = [i \in 0 .. n |->
            IF i = 0 THEN << >>
            ELSE IF q[i] = t THEN kept[i - 1] ELSE Append(kept[i - 1], q[i])]

\* The function Keeping describes, which filters a queue, exists.
LEMMA KeepingExists ==
  ASSUME NEW q, NEW t, NEW n \in Nat
  PROVE  \E kept : Keeping(kept, q, t, n)
<1> DEFINE T == {k \in Nat : \E kept : Keeping(kept, q, t, k)}
<1>1. 0 \in T
  <2>1. Keeping([i \in 0 .. 0 |-> << >>], q, t, 0)
    BY DEF Keeping
  <2>2. QED  BY <2>1
<1>2. ASSUME NEW k \in Nat, k \in T PROVE k + 1 \in T
  <2>1. PICK g : Keeping(g, q, t, k)
    BY <1>2
  <2>2. PICK h : h = [i \in 0 .. k + 1 |->
                        IF i <= k THEN g[i]
                        ELSE IF q[k + 1] = t THEN g[k] ELSE Append(g[k], q[k + 1])]
    OBVIOUS
  <2>3. \A i \in 0 .. k : g[i] = IF i = 0 THEN << >>
                                ELSE IF q[i] = t THEN g[i - 1] ELSE Append(g[i - 1], q[i])
    BY <2>1 DEF Keeping
  <2>4. \A i \in 0 .. k : h[i] = g[i]
    BY <2>2
  <2>5. h[k + 1] = IF q[k + 1] = t THEN g[k] ELSE Append(g[k], q[k + 1])
    BY <2>2
  <2>6. \A i \in 0 .. k + 1 : h[i] = IF i = 0 THEN << >>
                                    ELSE IF q[i] = t THEN h[i - 1] ELSE Append(h[i - 1], q[i])
    BY <2>3, <2>4, <2>5
  <2>7. Keeping(h, q, t, k + 1)
    BY <2>2, <2>6 DEF Keeping
  <2>8. QED  BY <2>7
<1>3. Nat \subseteq T
  BY <1>1, <1>2, Induction
<1>4. QED  BY <1>3

\* Without(q, t) has the members of q other than t, so that one failure is taken
\* and no other is lost.
LEMMA WithoutDrops ==
  ASSUME NEW S, NEW q \in Seq(S), NEW t
  PROVE  Without(q, t) \in Seq(S) /\ Range(Without(q, t)) = Range(q) \ {t}
<1> DEFINE kept[n \in 0 .. Len(q)] ==
             IF n = 0 THEN << >>
             ELSE IF q[n] = t THEN kept[n - 1] ELSE Append(kept[n - 1], q[n])
           T == {k \in Nat : k <= Len(q) =>
                   /\ kept[k] \in Seq(S)
                   /\ Range(kept[k]) = {q[i] : i \in 1 .. k} \ {t}}
<1>1. kept = CHOOSE g : Keeping(g, q, t, Len(q))
  BY DEF Keeping
<1> HIDE DEF kept
<1>2. Keeping(kept, q, t, Len(q))
  <2>1. Len(q) \in Nat
    OBVIOUS
  <2>2. \E g : Keeping(g, q, t, Len(q))
    BY <2>1, KeepingExists
  <2>3. QED  BY <1>1, <2>2
<1> USE DEF kept
<1>3. Without(q, t) = kept[Len(q)]
  BY DEF Without
<1> HIDE DEF kept
<1>4. \A n \in 0 .. Len(q) :
        kept[n] = IF n = 0 THEN << >>
                  ELSE IF q[n] = t THEN kept[n - 1] ELSE Append(kept[n - 1], q[n])
  BY <1>2 DEF Keeping
<1>5. 0 \in T
  <2>1. Len(q) \in Nat /\ kept[0] = << >>
    BY <1>4
  <2>2. << >> \in Seq(S) /\ Range(<< >>) = {}
    BY DEF Range
  <2>3. {q[i] : i \in 1 .. 0} \ {t} = {}
    OBVIOUS
  <2>4. QED  BY <2>1, <2>2, <2>3
<1>6. ASSUME NEW k \in Nat, k \in T PROVE k + 1 \in T
  <2> SUFFICES ASSUME k + 1 <= Len(q)
               PROVE  /\ kept[k + 1] \in Seq(S)
                      /\ Range(kept[k + 1]) = {q[i] : i \in 1 .. k + 1} \ {t}
    OBVIOUS
  <2>1. /\ kept[k] \in Seq(S) /\ Range(kept[k]) = {q[i] : i \in 1 .. k} \ {t}
        /\ q[k + 1] \in S
    BY <1>6
  <2>2. kept[k + 1] = IF q[k + 1] = t THEN kept[k] ELSE Append(kept[k], q[k + 1])
    BY <1>4, SMTT(20)
  <2>3. {q[i] : i \in 1 .. k + 1} = {q[i] : i \in 1 .. k} \cup {q[k + 1]}
    OBVIOUS
  <2>4. CASE q[k + 1] = t
    BY <2>1, <2>2, <2>3, <2>4
  <2>5. CASE q[k + 1] # t
    BY <2>1, <2>2, <2>3, <2>5, Appended
  <2>6. QED  BY <2>4, <2>5
<1>7. Nat \subseteq T
  BY <1>5, <1>6, Induction
<1>8. kept[Len(q)] \in Seq(S) /\ Range(kept[Len(q)]) = {q[i] : i \in 1 .. Len(q)} \ {t}
  <2>1. Len(q) \in Nat /\ Len(q) <= Len(q)
    OBVIOUS
  <2>2. Len(q) \in T
    BY <1>7, <2>1
  <2>3. QED  BY <2>1, <2>2
<1>9. Range(q) = {q[i] : i \in 1 .. Len(q)}
  BY DEF Range
<1>10. QED  BY <1>3, <1>8, <1>9

----------------------------------------------------------------------------
\* The fields no property is about.
Inessential == {"relay", "logInFlight", "creditBack", "drainStarted",
                "stagingClosed", "readiness", "writerFailed", "outputAvailable"}

\* A step that only changes fields no property is about is bookkeeping.
LEMMA Keeps ==
  ASSUME NEW s, Formed(s), NEW t, DOMAIN t = SessionFields,
         \A f \in SessionFields \ Inessential : t[f] = s[f]
  PROVE  Noted(s, t) /\ t.failures = s.failures /\ t.lc = s.lc /\ t.order = s.order
<1>1. t.lc = s.lc /\ t.order = s.order /\ t.failures = s.failures
                  /\ t.finished = s.finished
  BY DEF SessionFields, Inessential
<1>2. /\ SameHoldings(s, t)
      /\ t.sigPending = s.sigPending /\ t.leaseLost = s.leaseLost
      /\ t.sigAccounted = s.sigAccounted /\ t.leaseAccounted = s.leaseAccounted
  BY DEF SessionFields, Inessential, SameHoldings
<1>3. Formed(t) /\ Later(s.lc, t.lc)
  BY <1>1, LaterReflexive DEF Formed
<1>4. QED  BY <1>1, <1>2, <1>3 DEF Noted

\* So is the end of some of the child's streams.
LEMMA Finishes ==
  ASSUME NEW s, Formed(s), NEW ended \in SUBSET Streams
  PROVE  LET t == [s EXCEPT !.finished = ended] IN
         /\ Noted(s, t) /\ Formed(t)
         /\ t.failures = s.failures /\ t.lc = s.lc /\ t.order = s.order
<1> DEFINE t == [s EXCEPT !.finished = ended]
<1>1. /\ DOMAIN t = SessionFields /\ t.finished \subseteq Streams
      /\ \A f \in SessionFields \ {"finished"} : t[f] = s[f]
  BY DEF Formed, SessionFields
<1> HIDE DEF t
<1>2. /\ t.lc = s.lc /\ t.order = s.order /\ t.failures = s.failures
      /\ t.sigPending = s.sigPending /\ t.leaseLost = s.leaseLost
      /\ t.sigAccounted = s.sigAccounted /\ t.leaseAccounted = s.leaseAccounted
  BY <1>1 DEF SessionFields
<1>3. SameHoldings(s, t)
  BY <1>1 DEF SessionFields, SameHoldings
<1>4. Formed(t) /\ Later(s.lc, t.lc)
  BY <1>1, <1>2, LaterReflexive DEF Formed
<1>5. QED  BY <1>2, <1>3, <1>4 DEF Noted, t

\* A failure that was heard is no longer recorded.
LEMMA FailureDrops ==
  ASSUME NEW s, Formed(s), NEW t
  PROVE  LET u == [s EXCEPT !.failures = Without(@, t)] IN
         Noted(s, u) /\ t \notin Range(u.failures)
<1> DEFINE u == [s EXCEPT !.failures = Without(@, t)]
<1>1. /\ DOMAIN u = DOMAIN s /\ u.lc = s.lc /\ u.order = s.order
      /\ u.failures = Without(s.failures, t)
  BY DEF Formed, SessionFields
<1>2. u.failures \in Seq(Tasks) /\ Range(u.failures) = Range(s.failures) \ {t}
  BY <1>1, WithoutDrops DEF Formed
<1>3. /\ SameHoldings(s, u)
      /\ u.sigPending = s.sigPending /\ u.leaseLost = s.leaseLost
      /\ u.sigAccounted = s.sigAccounted /\ u.leaseAccounted = s.leaseAccounted
  BY DEF Formed, SessionFields, SameHoldings
<1>4. Formed(u) /\ Later(s.lc, u.lc)
  BY <1>1, <1>2, LaterReflexive DEF Formed
<1> HIDE DEF u
<1>5. Noted(s, u)
  BY <1>1, <1>2, <1>3, <1>4 DEF Noted
<1>6. QED  BY <1>2, <1>5 DEF u

\* _account_observation_failure takes one observer's failure from those that are
\* recorded, and ends the session when it owns a child.
LEMMA FailureHeard ==
  ASSUME NEW s, Formed(s), NEW t \in Tasks, NEW admits
  PROVE  LET u == ObservationFailed(s, t, admits) IN
         /\ Noted(s, u) /\ t \notin Range(u.failures)
         /\ t \in Range(s.failures) /\ s.child => Ended(u.lc)
<1> DEFINE dropped == [s EXCEPT !.failures = Without(@, t)]
           ended   == [dropped EXCEPT !.finished = @ \cup ({t} \cap Streams)]
           failing == [ended EXCEPT !.relay = Relay!ReadFailed(@)]
           read    == IF t = "log" /\ s.logOpen THEN LogProgress(failing, admits) ELSE ended
           u       == ObservationFailed(s, t, admits)
<1>1. u = IF t \notin Range(s.failures) THEN s
          ELSE IF t \in ChildTasks /\ ~s.child THEN dropped
          ELSE Stop(read, FailureTrigger(t), "OBSERVER_FAILURE")
  BY DEF ObservationFailed
<1>2. Noted(s, dropped) /\ t \notin Range(dropped.failures) /\ Formed(dropped)
  BY FailureDrops DEF Noted
<1> HIDE DEF dropped, u
<1>3. Noted(dropped, ended) /\ ended.failures = dropped.failures /\ Formed(ended)
  <2> DEFINE finished == dropped.finished \cup ({t} \cap Streams)
  <2>1. finished \in SUBSET Streams /\ ended = [dropped EXCEPT !.finished = finished]
    BY <1>2 DEF Formed
  <2> HIDE DEF ended, finished
  <2>2. QED  BY <1>2, <2>1, Finishes
<1> HIDE DEF ended
<1>4. Noted(ended, failing) /\ failing.failures = ended.failures /\ Formed(failing)
  <2>1. /\ DOMAIN failing = SessionFields
        /\ \A f \in SessionFields \ Inessential : failing[f] = ended[f]
    BY <1>3 DEF Formed, Inessential
  <2> HIDE DEF failing
  <2>2. QED  BY <1>3, <2>1, Keeps DEF Noted
<1> HIDE DEF failing
<1>5. Noted(ended, read) /\ read.failures = ended.failures /\ Formed(read)
  <2>1. /\ Noted(failing, LogProgress(failing, admits))
        /\ LogProgress(failing, admits).failures = failing.failures
    BY <1>4, LogProgresses
  <2>2. Noted(ended, LogProgress(failing, admits))
    BY <1>4, <2>1, NotedTransitive
  <2>3. QED  BY <1>3, <1>4, <2>1, <2>2, NotedReflexive DEF Noted
<1> HIDE DEF read
<1>6. LET v == Stop(read, FailureTrigger(t), "OBSERVER_FAILURE") IN
      Noted(read, v) /\ v.failures = read.failures /\ Ended(v.lc)
  <2>1. FailureTrigger(t) \in Triggers
    BY DEF FailureTrigger, Triggers
  <2>2. "OBSERVER_FAILURE" \in Failures
    BY SessionConstants DEF SessionFailures
  <2>3. QED  BY <1>5, <2>1, <2>2, Stops
<1>7. Noted(s, read)
  BY <1>2, <1>3, <1>5, NotedTransitive
<1>8. Noted(s, Stop(read, FailureTrigger(t), "OBSERVER_FAILURE"))
  BY <1>6, <1>7, NotedTransitive
<1>9. CASE t \notin Range(s.failures)
  BY <1>1, <1>9, NotedReflexive DEF u
<1>10. CASE t \in Range(s.failures) /\ t \in ChildTasks /\ ~s.child
  BY <1>1, <1>2, <1>10 DEF u
<1>11. CASE t \in Range(s.failures) /\ ~(t \in ChildTasks /\ ~s.child)
  BY <1>1, <1>2, <1>3, <1>5, <1>6, <1>8, <1>11 DEF u
<1>12. QED  BY <1>9, <1>10, <1>11

Hearing(heard, s, tasks, admits, n) ==
  heard = [i \in 0 .. n |->
             IF i = 0 THEN s
             ELSE IF s.failures[i] \in tasks
             THEN ObservationFailed(heard[i - 1], s.failures[i], admits)
             ELSE heard[i - 1]]

\* The fold over the failed observers exists.
LEMMA HearingExists ==
  ASSUME NEW s, NEW tasks, NEW admits, NEW n \in Nat
  PROVE  \E heard : Hearing(heard, s, tasks, admits, n)
<1> DEFINE T == {k \in Nat : \E heard : Hearing(heard, s, tasks, admits, k)}
<1>1. 0 \in T
  <2>1. Hearing([i \in 0 .. 0 |-> s], s, tasks, admits, 0)
    BY DEF Hearing
  <2>2. QED  BY <2>1
<1>2. ASSUME NEW k \in Nat, k \in T PROVE k + 1 \in T
  <2> DEFINE Next1(x, i) == IF s.failures[i] \in tasks
                            THEN ObservationFailed(x, s.failures[i], admits) ELSE x
  <2>1. PICK g : Hearing(g, s, tasks, admits, k)
    BY <1>2
  <2>2. \A i \in 0 .. k : g[i] = IF i = 0 THEN s ELSE Next1(g[i - 1], i)
    BY <2>1 DEF Hearing
  <2>3. PICK h : h = [i \in 0 .. k + 1 |-> IF i <= k THEN g[i] ELSE Next1(g[k], k + 1)]
    OBVIOUS
  <2>4. \A i \in 0 .. k : h[i] = g[i]
    BY <2>3
  <2>5. h[k + 1] = Next1(g[k], k + 1)
    BY <2>3
  <2>6. \A i \in 0 .. k + 1 : h[i] = IF i = 0 THEN s ELSE Next1(h[i - 1], i)
    BY <2>2, <2>4, <2>5
  <2>7. Hearing(h, s, tasks, admits, k + 1)
    BY <2>3, <2>6 DEF Hearing
  <2>8. QED  BY <2>7
<1>3. Nat \subseteq T
  BY <1>1, <1>2, Induction
<1>4. QED  BY <1>3

\* Hearing every failed observer is bookkeeping, leaves no failure recorded, and
\* ends a session that owns a child.
LEMMA Hears ==
  ASSUME NEW s, Formed(s), NEW tasks, NEW admits
  PROVE  LET u == Hear(s, tasks, admits) IN
         /\ Noted(s, u)
         /\ Tasks \subseteq tasks => u.failures = << >>
         /\ Tasks \subseteq tasks /\ s.child /\ s.failures # << >> => Ended(u.lc)
<1> DEFINE heard[n \in 0 .. Len(s.failures)] ==
             IF n = 0 THEN s
             ELSE IF s.failures[n] \in tasks
             THEN ObservationFailed(heard[n - 1], s.failures[n], admits)
             ELSE heard[n - 1]
           Upto(k) ==
             /\ Noted(s, heard[k])
             /\ \A i \in 1 .. k : s.failures[i] \in tasks =>
                                  s.failures[i] \notin Range(heard[k].failures)
             /\ k # 0 /\ s.failures[1] \in tasks /\ s.child => Ended(heard[k].lc)
           T == {k \in Nat : k <= Len(s.failures) => Upto(k)}
<1>0. s.failures \in Seq(Tasks) /\ Len(s.failures) \in Nat
  BY DEF Formed
<1>1. heard = CHOOSE g : Hearing(g, s, tasks, admits, Len(s.failures))
  BY DEF Hearing
<1>2. Hear(s, tasks, admits) = heard[Len(s.failures)]
  BY DEF Hear
<1> HIDE DEF heard
<1>3. Hearing(heard, s, tasks, admits, Len(s.failures))
  <2>1. \E g : Hearing(g, s, tasks, admits, Len(s.failures))
    BY <1>0, HearingExists
  <2>2. QED  BY <1>1, <2>1
<1>4. \A n \in 0 .. Len(s.failures) :
        heard[n] = IF n = 0 THEN s
                   ELSE IF s.failures[n] \in tasks
                   THEN ObservationFailed(heard[n - 1], s.failures[n], admits)
                   ELSE heard[n - 1]
  BY <1>3 DEF Hearing
<1>5. 0 \in T
  <2>1. heard[0] = s
    BY <1>0, <1>4
  <2>2. QED  BY <2>1, NotedReflexive
<1>6. ASSUME NEW k \in Nat, k \in T PROVE k + 1 \in T
  <2> SUFFICES ASSUME k + 1 <= Len(s.failures) PROVE Upto(k + 1)
    OBVIOUS
  <2>1. Upto(k) /\ s.failures[k + 1] \in Tasks
    BY <1>0, <1>6
  <2>2. heard[k + 1] = IF s.failures[k + 1] \in tasks
                       THEN ObservationFailed(heard[k], s.failures[k + 1], admits)
                       ELSE heard[k]
    BY <1>0, <1>4
  <2>3. Formed(heard[k]) /\ heard[k].child = s.child
    BY <2>1 DEF Noted, SameHoldings
  <2>4. CASE s.failures[k + 1] \notin tasks
    BY <2>1, <2>2, <2>4
  <2>5. CASE s.failures[k + 1] \in tasks
    <3>1. /\ Noted(heard[k], heard[k + 1])
          /\ s.failures[k + 1] \notin Range(heard[k + 1].failures)
          /\ s.failures[k + 1] \in Range(heard[k].failures) /\ s.child
               => Ended(heard[k + 1].lc)
      BY <2>1, <2>2, <2>3, <2>5, FailureHeard
    <3>2. Noted(s, heard[k + 1])
      BY <2>1, <3>1, NotedTransitive
    <3>3. /\ Range(heard[k + 1].failures) \subseteq Range(heard[k].failures)
          /\ Ended(heard[k].lc) => Ended(heard[k + 1].lc)
      BY <3>1 DEF Noted, Later, Ended
    <3>4. \A i \in 1 .. k + 1 : s.failures[i] \in tasks =>
                                s.failures[i] \notin Range(heard[k + 1].failures)
      <4> SUFFICES ASSUME NEW i \in 1 .. k + 1, s.failures[i] \in tasks
                   PROVE  s.failures[i] \notin Range(heard[k + 1].failures)
        OBVIOUS
      <4>1. i \in 1 .. k \/ i = k + 1
        OBVIOUS
      <4>2. QED  BY <2>1, <3>1, <3>3, <4>1
    <3>5. s.failures[1] \in tasks /\ s.child => Ended(heard[k + 1].lc)
      <4>1. CASE k = 0
        <5>1. heard[0] = s /\ s.failures[1] \in Range(s.failures)
          BY <1>0, <1>4 DEF Range
        <5>2. QED  BY <3>1, <4>1, <5>1
      <4>2. QED  BY <2>1, <3>3, <4>1
    <3>6. QED  BY <3>2, <3>4, <3>5
  <2>6. QED  BY <2>4, <2>5
<1>7. Nat \subseteq T
  BY <1>5, <1>6, Induction
<1> DEFINE n == Len(s.failures)
           u == Hear(s, tasks, admits)
<1>8. Upto(n) /\ u = heard[n]
  BY <1>0, <1>2, <1>7
<1>9. u.failures \in Seq(Tasks) /\ Range(u.failures) \subseteq Range(s.failures)
  BY <1>8 DEF Noted, Formed
<1>10. Tasks \subseteq tasks => u.failures = << >>
  <2>1. SUFFICES ASSUME Tasks \subseteq tasks, u.failures # << >> PROVE FALSE
    OBVIOUS
  <2>2. PICK t \in Tasks : t \in Range(u.failures)
    BY <1>9, <2>1, NonEmpty
  <2>3. PICK i \in 1 .. n : s.failures[i] = t
    <3>1. t \in Range(s.failures) /\ DOMAIN s.failures = 1 .. n
      BY <1>0, <1>9, <2>2
    <3>2. QED  BY <3>1 DEF Range
  <2>4. QED  BY <1>8, <2>1, <2>2, <2>3
<1>11. Tasks \subseteq tasks /\ s.child /\ s.failures # << >> => Ended(u.lc)
  BY <1>0, <1>8
<1>12. QED  BY <1>8, <1>10, <1>11

\* account_signal tells a pending signal once.
LEMMA SignalAccounted ==
  ASSUME NEW s, Formed(s), Accounted(s)
  PROVE  LET t == AccountSignal(s) IN
         /\ Noted(s, t) /\ t.failures = s.failures
         /\ s.sigPending => "REMOTE_SIGNAL" \in Codes(t.lc)
<1>1. CASE s.sigPending /\ ~s.sigAccounted
  <2> DEFINE u == [s EXCEPT !.sigAccounted = TRUE]
             t == Stop(u, "signal", "REMOTE_SIGNAL")
  <2>1. /\ DOMAIN u = SessionFields /\ u.lc = s.lc /\ u.order = s.order
        /\ u.failures = s.failures /\ u.finished = s.finished
        /\ \A f \in SessionFields \ {"sigAccounted"} : u[f] = s[f]
    BY DEF Formed, SessionFields
  <2> HIDE DEF u
  <2>2. Formed(u)
    BY <2>1 DEF Formed
  <2>3. "signal" \in Triggers /\ "REMOTE_SIGNAL" \in Failures
    BY SessionConstants DEF SessionFailures, Triggers
  <2>4. "REMOTE_SIGNAL" # NoFailure
    BY <2>3, LifecycleConstants
  <2>5. Noted(u, t) /\ t.failures = u.failures /\ "REMOTE_SIGNAL" \in Codes(t.lc)
    BY <2>2, <2>3, <2>4, Stops
  <2> HIDE DEF t
  <2>6. /\ SameHoldings(s, u)
      /\ u.sigPending = s.sigPending /\ u.leaseLost = s.leaseLost
        /\ u.leaseAccounted = s.leaseAccounted
    BY <2>1 DEF SessionFields, SameHoldings
  <2>7. Noted(s, t)
    BY <2>1, <2>5, <2>6 DEF Noted, SameHoldings
  <2>8. AccountSignal(s) = t
    BY <1>1 DEF AccountSignal, t, u
  <2>9. QED  BY <2>1, <2>5, <2>7, <2>8
<1>2. CASE ~(s.sigPending /\ ~s.sigAccounted)
  BY <1>2, NotedReflexive DEF AccountSignal, Accounted
<1>3. QED  BY <1>1, <1>2

\* account_lease tells a lost lease once.
LEMMA LeaseAccounted ==
  ASSUME NEW s, Formed(s), Accounted(s)
  PROVE  LET t == AccountLease(s) IN
         /\ Noted(s, t) /\ t.failures = s.failures
         /\ s.leaseLost => "CONTROLLER_LEASE_LOST" \in Codes(t.lc)
<1>1. CASE s.leaseLost /\ ~s.leaseAccounted
  <2> DEFINE u == [s EXCEPT !.leaseAccounted = TRUE]
             t == Stop(u, "controller_eof", "CONTROLLER_LEASE_LOST")
  <2>1. /\ DOMAIN u = SessionFields /\ u.lc = s.lc /\ u.order = s.order
        /\ u.failures = s.failures /\ u.finished = s.finished
        /\ \A f \in SessionFields \ {"leaseAccounted"} : u[f] = s[f]
    BY DEF Formed, SessionFields
  <2> HIDE DEF u
  <2>2. Formed(u)
    BY <2>1 DEF Formed
  <2>3. "controller_eof" \in Triggers /\ "CONTROLLER_LEASE_LOST" \in Failures
    BY SessionConstants DEF SessionFailures, Triggers
  <2>4. "CONTROLLER_LEASE_LOST" # NoFailure
    BY <2>3, LifecycleConstants
  <2>5. Noted(u, t) /\ t.failures = u.failures /\ "CONTROLLER_LEASE_LOST" \in Codes(t.lc)
    BY <2>2, <2>3, <2>4, Stops
  <2> HIDE DEF t
  <2>6. /\ SameHoldings(s, u)
      /\ u.sigPending = s.sigPending /\ u.leaseLost = s.leaseLost
        /\ u.sigAccounted = s.sigAccounted
    BY <2>1 DEF SessionFields, SameHoldings
  <2>7. Noted(s, t)
    BY <2>1, <2>5, <2>6 DEF Noted, SameHoldings
  <2>8. AccountLease(s) = t
    BY <1>1 DEF AccountLease, t, u
  <2>9. QED  BY <2>1, <2>5, <2>7, <2>8
<1>2. CASE ~(s.leaseLost /\ ~s.leaseAccounted)
  BY <1>2, NotedReflexive DEF AccountLease, Accounted
<1>3. QED  BY <1>1, <1>2

\* Bookkeeping never marks a signal or a lease as accounted without telling it.
LEMMA NotedAccounted ==
  ASSUME NEW s, NEW t, Accounted(s), Noted(s, t)
  PROVE  Accounted(t)
  BY DEF Accounted, Noted, Later

\* account_recorded_failures leaves none of the facts that are known.
LEMMA Accounts ==
  ASSUME NEW s, Formed(s), Accounted(s), NEW admits
  PROVE  LET u == Account(s, admits) IN
         /\ Noted(s, u) /\ u.failures = << >>
         /\ s.sigPending => "REMOTE_SIGNAL" \in Codes(u.lc)
         /\ s.leaseLost => "CONTROLLER_LEASE_LOST" \in Codes(u.lc)
         /\ s.child /\ s.failures # << >> => Ended(u.lc)
<1> DEFINE a == AccountSignal(s)
           b == AccountLease(a)
           u == Hear(b, Tasks, admits)
<1>1. /\ Noted(s, a) /\ a.failures = s.failures
      /\ s.sigPending => "REMOTE_SIGNAL" \in Codes(a.lc)
  BY SignalAccounted
<1>2. Formed(a) /\ Accounted(a) /\ a.child = s.child /\ a.leaseLost = s.leaseLost
  BY <1>1, NotedAccounted DEF Noted, SameHoldings
<1> HIDE DEF a
<1>3. /\ Noted(a, b) /\ b.failures = a.failures
      /\ a.leaseLost => "CONTROLLER_LEASE_LOST" \in Codes(b.lc)
  BY <1>2, LeaseAccounted
<1>4. Formed(b) /\ b.child = a.child
  BY <1>3 DEF Noted, SameHoldings
<1> HIDE DEF b
<1>5. /\ Noted(b, u) /\ u.failures = << >>
      /\ b.child /\ b.failures # << >> => Ended(u.lc)
  BY <1>4, Hears
<1> HIDE DEF u
<1>6. Noted(s, b) /\ Noted(s, u)
  BY <1>1, <1>3, <1>5, NotedTransitive
<1>7. Codes(a.lc) \subseteq Codes(b.lc) /\ Codes(b.lc) \subseteq Codes(u.lc)
  BY <1>3, <1>5 DEF Noted, Later
<1>8. Account(s, admits) = u
  BY DEF Account, u, b, a
<1>9. QED  BY <1>1, <1>2, <1>3, <1>4, <1>5, <1>6, <1>7, <1>8

\* A diagnostic is carried only by a session that is ending.
LEMMA CodesEnd ==
  ASSUME NEW l, LcSound(l), Codes(l) # {}
  PROVE  Ended(l)
  BY DEF LcSound, Codes, Told, Ended, NoOutcome, Range

----------------------------------------------------------------------------
\* The child's exit

\* m is l once the exit of its child is seen.
Exited(l, m, requested) ==
  /\ LcSound(m)
  /\ m.attempt.stage = l.attempt.stage /\ m.attempt.result.seen
  /\ l.attempt.result.seen => m.attempt = l.attempt
  /\ ~l.attempt.result.seen => m.attempt.result.requested = requested
  /\ Codes(l) \subseteq Codes(m)
  /\ m.phase \in {l.phase, "Terminating"} /\ (Ended(l) => Ended(m))
  /\ ~Ended(m) => m.required = l.required /\ m.evidence = l.evidence

\* The exit of the child settles the attempt's result and is never asked for
\* afterwards.
LEMMA ExitObserved ==
  ASSUME NEW l, LcSound(l), l.phase # "Closed", InProduction(l), NEW rc \in Int,
         ~l.attempt.result.seen, l.attempt.requested => l.phase = "Terminating"
  PROVE  Exited(l, ObserveChildExit(l, rc), l.attempt.requested)
<1> DEFINE result == ChildResult(rc, l.attempt.requested)
           seen   == [l EXCEPT !.attempt.result = result]
           m      == ObserveChildExit(l, rc)
<1>1. m = CASE l.phase = "Terminating" -> [seen EXCEPT !.outcome.result = result]
            [] l.phase = "Active" -> Terminate(seen, "child_exit", NoFailure)
            [] OTHER -> seen
  BY DEF ObserveChildExit
<1>2. /\ l \in Lifecycles /\ l.attempt \in Attempts /\ l.outcome \in Outcomes
      /\ l.attempt.requested \in BOOLEAN
  BY DEF LcSound, Lifecycles, Attempts
<1>3. result \in Results /\ result.seen /\ result.requested = l.attempt.requested
  BY <1>2 DEF ChildResult, Results
<1> HIDE DEF result, m
<1>4. seen \in Lifecycles
  <2>1. [l.attempt EXCEPT !.result = result] \in Attempts
    BY <1>2, <1>3 DEF Attempts
  <2>2. seen = [l EXCEPT !.attempt = [l.attempt EXCEPT !.result = result]]
    BY <1>2 DEF Lifecycles
  <2>3. QED  BY <1>2, <2>1, <2>2 DEF Lifecycles
<1>5. /\ seen.attempt.result = result /\ seen.attempt.stage = l.attempt.stage
      /\ seen.phase = l.phase /\ seen.required = l.required /\ seen.evidence = l.evidence
      /\ seen.outcome = l.outcome /\ seen.local = l.local
  BY <1>2 DEF Lifecycles, Attempts
<1> HIDE DEF seen
<1>6. CASE l.phase = "Terminating"
  <2>1. m = [seen EXCEPT !.outcome.result = result]
    BY <1>1, <1>6
  <2>2. [l.outcome EXCEPT !.result = result] \in Outcomes
    BY <1>2, <1>3 DEF Outcomes
  <2>3. m = [seen EXCEPT !.outcome = [l.outcome EXCEPT !.result = result]]
    BY <1>4, <1>5, <2>1 DEF Lifecycles
  <2>4. m \in Lifecycles
    BY <1>4, <2>2, <2>3 DEF Lifecycles
  <2>5. /\ m.attempt = seen.attempt /\ m.phase = l.phase /\ m.evidence = l.evidence
        /\ m.local = l.local /\ m.outcome = [l.outcome EXCEPT !.result = result]
    BY <1>4, <1>5, <2>3 DEF Lifecycles
  <2>6. /\ m.outcome.primary = l.outcome.primary /\ m.outcome.result = result
        /\ m.outcome.diagnostics = l.outcome.diagnostics
    BY <1>2, <2>5 DEF Outcomes
  <2>7. ~(l.outcome.primary = NoFailure /\ l.outcome.diagnostics # << >>)
    BY <1>6 DEF LcSound, Ended, NaturalFailure
  <2>8. LcSound(m)
    BY <1>5, <1>6, <2>4, <2>5, <2>6, <2>7 DEF LcSound, Ended
  <2>9. Codes(m) = Codes(l)
    BY <2>5, <2>6 DEF Codes, Told
  <2>10. QED  BY <1>3, <1>5, <1>6, <2>5, <2>8, <2>9 DEF Exited, Ended, m
<1>7. CASE l.phase # "Terminating"
  <2>1. LcSound(seen) /\ Codes(seen) = Codes(l)
    BY <1>4, <1>5, <1>7 DEF LcSound, Ended, Codes, Told
  <2>2. CASE l.phase = "Active"
    <3>1. m = Terminate(seen, "child_exit", NoFailure)
      BY <1>1, <2>2
    <3>2. Later(seen, m) /\ Ended(m)
      BY <2>1, <3>1, Terminates DEF Triggers
    <3>3. QED  BY <1>3, <1>5, <2>1, <2>2, <3>2 DEF Later, Exited, Ended, m
  <2>3. CASE l.phase # "Active"
    <3>1. m = seen
      BY <1>1, <1>7, <2>3
    <3>2. QED  BY <1>3, <1>5, <2>1, <3>1 DEF Exited, Ended, m
  <2>4. QED  BY <2>2, <2>3
<1>8. QED  BY <1>6, <1>7

\* So it does when the supervisor had signalled the child before it was seen to exit.
LEMMA ExitSeen ==
  ASSUME NEW l, LcSound(l), l.phase # "Closed", InProduction(l), NEW rc \in Int,
         NEW requested \in BOOLEAN, l.attempt.requested => l.attempt.result.seen,
         requested => Ended(l) \/ l.attempt.result.seen
  PROVE  LET told == IF requested THEN RecordChildTermination(l) ELSE l
         IN  Exited(l, ObserveChildExit(told, rc), requested)
<1> DEFINE told == IF requested THEN RecordChildTermination(l) ELSE l
<1>1. CASE l.attempt.result.seen
  <2>1. ObserveChildExit(told, rc) = l
    BY <1>1 DEF RecordChildTermination, ObserveChildExit
  <2>2. QED  BY <1>1, <2>1 DEF Exited, Ended
<1>2. CASE ~l.attempt.result.seen
  <2>1. l \in Lifecycles /\ l.attempt \in Attempts /\ ~l.attempt.requested
    BY <1>2 DEF LcSound, Lifecycles
  <2>2. CASE ~requested
    <3>1. told = l /\ l.attempt.requested = requested
      BY <2>1, <2>2 DEF Attempts
    <3>2. QED  BY <1>2, <2>1, <3>1, ExitObserved
  <2>3. CASE requested
    <3>1. told = [l EXCEPT !.attempt.requested = TRUE] /\ l.phase = "Terminating"
      BY <1>2, <2>3 DEF RecordChildTermination, Ended
    <3>2. told = [l EXCEPT !.attempt = [l.attempt EXCEPT !.requested = TRUE]]
      BY <2>1, <3>1 DEF Lifecycles
    <3>3. [l.attempt EXCEPT !.requested = TRUE] \in Attempts
      BY <2>1 DEF Attempts
    <3>4. told \in Lifecycles
      BY <2>1, <3>2, <3>3 DEF Lifecycles
    <3>5. /\ told.attempt.stage = l.attempt.stage /\ told.attempt.result = l.attempt.result
          /\ told.attempt.requested
          /\ told.phase = l.phase /\ told.required = l.required /\ told.evidence = l.evidence
          /\ told.outcome = l.outcome /\ told.local = l.local
      BY <2>1, <3>2 DEF Lifecycles, Attempts
    <3> HIDE DEF told
    <3>6. LcSound(told) /\ Codes(told) = Codes(l) /\ InProduction(told)
      BY <3>1, <3>4, <3>5 DEF LcSound, Ended, Codes, Told, InProduction
    <3>7. Exited(told, ObserveChildExit(told, rc), told.attempt.requested)
      BY <1>2, <3>1, <3>5, <3>6, ExitObserved
    <3>8. told.attempt.requested = requested
      BY <2>3, <3>4, <3>5 DEF Lifecycles, Attempts
    <3>9. Exited(l, ObserveChildExit(told, rc), requested)
      BY <1>2, <3>1, <3>5, <3>6, <3>7, <3>8 DEF Exited, Ended
    <3>10. QED  BY <3>9 DEF told
  <2>4. QED  BY <2>2, <2>3
<1>3. QED  BY <1>1, <1>2

\* Terminations after the exit was recorded leave its record as it is.
LEMMA StopAfterExit ==
  ASSUME NEW l, NEW m, NEW n, NEW requested, Exited(l, m, requested), Later(m, n)
  PROVE  Exited(l, n, requested)
  BY DEF Exited, Later, Ended

\* Only the lifecycle changes.
LcOnly(s, t) ==
  DOMAIN t = SessionFields /\ \A f \in SessionFields \ {"lc"} : t[f] = s[f]

\* record_exit changes the lifecycle alone, and records the attribution that the
\* supervisor has.
LEMMA ExitRecorded ==
  ASSUME NEW s, Formed(s), s.lc.phase # "Closed", InProduction(s.lc), NEW p \in Processes,
         s.lc.attempt.requested => s.lc.attempt.result.seen,
         p.requested => Ended(s.lc) \/ s.lc.attempt.result.seen
  PROVE  LET t == RecordExit(s, p) IN LcOnly(s, t) /\ Exited(s.lc, t.lc, p.requested)
<1> DEFINE told == IF p.requested THEN [s EXCEPT !.lc = RecordChildTermination(@)] ELSE s
           seen == [told EXCEPT !.lc = ObserveChildExit(@, p.rc)]
           t    == Stop(seen, "startup_failure", "STARTUP_EXIT")
<1>1. p.requested \in BOOLEAN /\ p.rc \in Int /\ LcSound(s.lc)
  BY DEF Processes, Formed
<1>2. LcOnly(s, seen)
  BY DEF LcOnly, Formed
<1>3. seen.lc = ObserveChildExit(IF p.requested THEN RecordChildTermination(s.lc) ELSE s.lc,
                                 p.rc)
  BY DEF Formed, SessionFields
<1>4. Exited(s.lc, seen.lc, p.requested)
  BY <1>1, <1>3, ExitSeen
<1>5. RecordExit(s, p) \in {seen, t}
  BY DEF RecordExit
<1> HIDE DEF seen
<1>6. t.lc = Terminate(seen.lc, "startup_failure", "STARTUP_EXIT") /\ LcOnly(s, t)
  BY <1>2 DEF Stop, LcOnly, SessionFields
<1>7. "startup_failure" \in Triggers /\ "STARTUP_EXIT" \in Failures
  BY SessionConstants DEF SessionFailures, Triggers
<1>8. Later(seen.lc, t.lc)
  BY <1>4, <1>6, <1>7, Terminates DEF Exited
<1>9. Exited(s.lc, t.lc, p.requested)
  BY <1>4, <1>8, StopAfterExit
<1>10. QED  BY <1>2, <1>4, <1>5, <1>6, <1>9

\* A step that changes only the lifecycle leaves the rest of the session.
LEMMA LcOnlyHolds ==
  ASSUME NEW s, Formed(s), NEW t, LcOnly(s, t), LcSound(t.lc)
  PROVE  /\ Formed(t) /\ SameHoldings(s, t)
         /\ t.order = s.order /\ t.failures = s.failures
         /\ t.sigPending = s.sigPending /\ t.leaseLost = s.leaseLost
         /\ t.sigAccounted = s.sigAccounted /\ t.leaseAccounted = s.leaseAccounted
<1>1. /\ t.order = s.order /\ t.failures = s.failures /\ t.finished = s.finished
      /\ t.sigPending = s.sigPending /\ t.leaseLost = s.leaseLost
      /\ t.sigAccounted = s.sigAccounted /\ t.leaseAccounted = s.leaseAccounted
  BY DEF LcOnly, SessionFields
<1>2. SameHoldings(s, t)
  BY DEF LcOnly, SessionFields, SameHoldings
<1>3. Formed(t)
  BY <1>1 DEF LcOnly, Formed
<1>4. QED  BY <1>1, <1>2, <1>3

----------------------------------------------------------------------------
\* What bookkeeping preserves

\* Bookkeeping keeps what the session says of itself.
LEMMA NotedCore ==
  ASSUME NEW s, NEW t, NEW w, Core(s, w), Noted(s, t)
  PROVE  Core(t, w)
<1>1. Formed(t) /\ SameHoldings(s, t) /\ Later(s.lc, t.lc)
  BY DEF Noted
<1>2. Accounted(t)
  BY NotedAccounted DEF Core
<1>3. /\ t.lc.attempt = s.lc.attempt /\ (Ended(s.lc) => Ended(t.lc))
      /\ s.lc.phase # "Created" => t.lc.phase # "Created"
      /\ t.lc.phase # "Closed" => s.lc.phase # "Closed"
      /\ s.lc.evidence = {} => t.lc.evidence = {}
  BY <1>1 DEF Later, Ended, LcSound
<1>4. Staged(t, w)
  BY <1>1, <1>3 DEF Core, Staged, SameHoldings
<1>5. Owned(t)
  BY <1>1 DEF Core, Owned, SameHoldings, ChildDisposed
<1>6. QED  BY <1>1, <1>2, <1>4, <1>5 DEF Core

\* Bookkeeping keeps what it says of its process group.
LEMMA NotedSupervised ==
  ASSUME NEW s, NEW t, NEW p, NEW w, Supervised(s, p, w), Noted(s, t)
  PROVE  Supervised(t, p, w)
<1>1. SameHoldings(s, t) /\ Later(s.lc, t.lc)
  BY DEF Noted
<1>2. /\ t.lc.attempt = s.lc.attempt /\ (Ended(s.lc) => Ended(t.lc))
      /\ t.lc.phase = "Starting" => t.lc = s.lc
  BY <1>1 DEF Later, Ended
<1>3. QED  BY <1>1, <1>2 DEF Supervised, SameHoldings, ChildDisposed

\* The session goes on, and no child is being made.
AtWork(s) ==
  /\ s.lc.phase # "Closed" /\ s.workspace /\ s.status # 0
  /\ ~(s.lc.attempt.stage = "producing" /\ s.acquisition = "none")

Plain == {"boot", "loop", "yielded", "waiting", "take", "ready", "ready deadline"}

\* The coordinator at work has a lifecycle that is not closed and its workspace.
LEMMA PlacedAtWork ==
  ASSUME NEW s, NEW p, NEW w, NEW c \in Working \ {"spawn"}, Placed(s, p, w, c)
  PROVE  AtWork(s)
  BY DEF Placed, AtWork, Working

\* Where nothing more is known of a place, that is all it says.
LEMMA AtWorkPlaced ==
  ASSUME NEW s, NEW p, NEW w, NEW c \in Plain, AtWork(s)
  PROVE  Placed(s, p, w, c)
  BY DEF Placed, AtWork, Plain, Working, Ending, Late

\* Bookkeeping leaves the coordinator at work.
LEMMA NotedAtWork ==
  ASSUME NEW s, NEW t, AtWork(s), Noted(s, t)
  PROVE  AtWork(t)
  BY DEF AtWork, Noted, Later, Ended, SameHoldings

----------------------------------------------------------------------------
\* The observers and their queue

\* The queue and the tasks stay well watched while the acquisition and the cleanup
\* stay as they are.
LEMMA WatchedOn ==
  ASSUME NEW s, NEW p, NEW c, NEW tk, NEW q, Watched(s, p, c, tk, q),
         NEW t, t.acquisition = s.acquisition, t.cleanup = s.cleanup,
         t.attemptFinished = s.attemptFinished,
         NEW n, n = "settling" => c = "settling",
         NEW r, p.state # "running" => r.state # "running"
  PROVE  Watched(t, r, n, tk, q)
  BY DEF Watched, Settled

\* Taking an observation from the queue keeps the others watched, and an EXIT or a
\* CLEANED that is taken is a real one.
LEMMA Taken ==
  ASSUME NEW s, NEW p, NEW c, NEW tk, NEW q, Watched(s, p, c, tk, q), q # << >>
  PROVE  /\ Watched(s, p, c, tk, Tail(q))
         /\ Head(q) \in Observations /\ Head(q) = q[1]
         /\ Head(q).kind = "EXIT" => s.acquisition = "child" /\ p.state # "running"
         /\ Head(q).kind = "CLEANED" =>
              /\ s.cleanup = "running" /\ tk["cleanup"] = "done"
              /\ \A j \in 1 .. Len(Tail(q)) : Tail(q)[j].kind # "CLEANED"
<1>1. q \in Seq(Observations) /\ Len(q) \in Nat /\ Len(q) # 0
  BY DEF Watched
<1>2. /\ Tail(q) \in Seq(Observations) /\ Len(Tail(q)) = Len(q) - 1
      /\ \A i \in 1 .. Len(Tail(q)) : Tail(q)[i] = q[i + 1]
      /\ Head(q) = q[1] /\ q[1] \in Observations
  BY <1>1
<1>3. \A i \in 1 .. Len(Tail(q)) : i + 1 \in 1 .. Len(q)
  BY <1>1, <1>2
<1>4. 1 \in 1 .. Len(q)
  BY <1>1
<1>5. Watched(s, p, c, tk, Tail(q))
  BY <1>1, <1>2, <1>3 DEF Watched
<1>6. Head(q).kind = "CLEANED" => \A j \in 1 .. Len(Tail(q)) : Tail(q)[j].kind # "CLEANED"
  BY <1>1, <1>2, <1>3, <1>4 DEF Watched
<1>7. QED  BY <1>2, <1>4, <1>5, <1>6 DEF Watched

\* t publishes an observation that it just made or that waited for the queue.
LEMMA Publishes ==
  ASSUME NEW t \in Tasks, NEW kind \in Kinds, Report(t, kind),
         Watched(ses, proc, coord, task, queue),
         task[t] \in {"on"} \cup Kinds,
         kind = "EXIT" => ses.acquisition = "child" /\ proc.state # "running",
         kind = "CLEANED" => t = "cleanup"
  PROVE  /\ Watched(ses, proc, coord, task', queue')
         /\ task'[t] \in {kind, After(kind)} /\ \A u \in Tasks \ {t} : task'[u] = task[u]
<1>1. task \in [Tasks -> TaskStates] /\ queue \in Seq(Observations)
  BY DEF Watched
<1>2. After(kind) \in {"on", "done"} /\ After("CLEANED") = "done" /\ After("EXIT") = "done"
  BY DEF After, Continues
<1>3. /\ "off" \notin Kinds /\ "on" \notin Kinds /\ "done" \notin Kinds
      /\ "cleanup" \in Tasks /\ "EXIT" \in Kinds
  BY DEF Kinds, Tasks, ChildTasks
<1>4. /\ t \in ChildTasks => ses.acquisition = "child" /\ ~Settled(ses, coord)
      /\ t = "cleanup" => ses.cleanup = "running"
      /\ t = "cleanup" => \A i \in 1 .. Len(queue) : queue[i].kind # "CLEANED"
  BY <1>3 DEF Watched
<1>5. CASE Len(queue) < QueueBound
  <2> DEFINE o == [src |-> t, kind |-> kind]
  <2>1. queue' = Append(queue, o) /\ task' = [task EXCEPT ![t] = After(kind)]
    BY <1>5 DEF Report
  <2>2. o \in Observations /\ o.kind = kind
    BY DEF Observations
  <2> HIDE DEF o
  <2>3. /\ queue' \in Seq(Observations) /\ Len(queue') = Len(queue) + 1
        /\ Len(queue) \in Nat
        /\ \A i \in 1 .. Len(queue) : queue'[i] = queue[i]
        /\ queue'[Len(queue) + 1] = o
    BY <1>1, <2>1, <2>2
  <2>4. /\ task' \in [Tasks -> TaskStates] /\ task'[t] = After(kind)
        /\ \A u \in Tasks \ {t} : task'[u] = task[u]
    BY <1>1, <1>2, <2>1 DEF TaskStates
  <2>5. \A i \in 1 .. Len(queue') :
          \/ i \in 1 .. Len(queue) /\ queue'[i] = queue[i]
          \/ i = Len(queue) + 1 /\ queue'[i] = o
    BY <2>3
  <2>6. \A i \in 1 .. Len(queue') :
          queue'[i].kind = "EXIT" => ses.acquisition = "child" /\ proc.state # "running"
    BY <2>2, <2>5 DEF Watched
  <2>7. \A i, j \in 1 .. Len(queue') :
          queue'[i].kind = "CLEANED" /\ queue'[j].kind = "CLEANED" => j = i
    BY <1>4, <2>2, <2>5 DEF Watched
  <2>8. \A i \in 1 .. Len(queue') :
          queue'[i].kind = "CLEANED" => ses.cleanup = "running" /\ task'["cleanup"] = "done"
    BY <1>2, <1>3, <1>4, <2>2, <2>4, <2>5 DEF Watched
  <2>9. \A u \in Tasks :
          /\ task'[u] = "EXIT" => ses.acquisition = "child" /\ proc.state # "running"
          /\ task'[u] = "CLEANED" => u = "cleanup"
    BY <1>2, <2>4 DEF Watched
  <2>10. /\ task'["cleanup"] \notin {"off", "done"} => ses.cleanup = "running"
         /\ ses.acquisition # "child" \/ Settled(ses, coord) =>
              \A u \in ChildTasks : task'[u] \in {"off", "done"}
    BY <1>3, <1>4, <2>4 DEF Watched, Tasks
  <2>11. QED  BY <2>3, <2>4, <2>6, <2>7, <2>8, <2>9, <2>10 DEF Watched
<1>6. CASE ~(Len(queue) < QueueBound)
  <2>1. queue' = queue /\ task' = [task EXCEPT ![t] = kind]
    BY <1>6 DEF Report
  <2>2. /\ task' \in [Tasks -> TaskStates] /\ task'[t] = kind
        /\ \A u \in Tasks \ {t} : task'[u] = task[u]
    BY <1>1, <2>1 DEF TaskStates
  <2>3. \A u \in Tasks :
          /\ task'[u] = "EXIT" => ses.acquisition = "child" /\ proc.state # "running"
          /\ task'[u] = "CLEANED" => u = "cleanup"
    BY <2>2 DEF Watched
  <2>4. /\ task'["cleanup"] \notin {"off", "done"} => ses.cleanup = "running"
        /\ ses.acquisition # "child" \/ Settled(ses, coord) =>
             \A u \in ChildTasks : task'[u] \in {"off", "done"}
    BY <1>3, <1>4, <2>2 DEF Watched, Tasks
  <2>5. \A i \in 1 .. Len(queue) :
          queue[i].kind = "CLEANED" => task'["cleanup"] = "done"
    BY <1>3, <1>4, <2>2 DEF Watched
  <2>6. QED  BY <2>1, <2>2, <2>3, <2>4, <2>5 DEF Watched
<1>7. QED  BY <1>5, <1>6

----------------------------------------------------------------------------
\* Steps that change nothing the session holds

Light(s, t) ==
  /\ Formed(t) /\ t.lc = s.lc /\ SameHoldings(s, t)
  /\ t.order.ready = s.order.ready /\ (Delivered(s.order) => Delivered(t.order))
  /\ t.sigAccounted = s.sigAccounted /\ t.leaseAccounted = s.leaseAccounted

\* Steps of that kind keep each part of the invariant.
LEMMA LightKeeps ==
  ASSUME NEW s, NEW t, Light(s, t), NEW p, NEW w, NEW c
  PROVE  /\ Core(s, w) => Core(t, w)
         /\ Supervised(s, p, w) => Supervised(t, p, w)
         /\ Placed(s, p, w, c) => Placed(t, p, w, c)
<1>1. /\ Formed(t) /\ t.lc = s.lc /\ SameHoldings(s, t)
      /\ t.sigAccounted = s.sigAccounted /\ t.leaseAccounted = s.leaseAccounted
  BY DEF Light
<1>2. Accounted(s) => Accounted(t)
  BY <1>1 DEF Accounted
<1>3. ChildDisposed(t) = ChildDisposed(s) /\ CleanupReport(t) = CleanupReport(s)
  BY <1>1 DEF SameHoldings, ChildDisposed, CleanupReport
<1>4. (Staged(s, w) => Staged(t, w)) /\ (Owned(s) => Owned(t))
  BY <1>1, <1>3 DEF Staged, Owned, SameHoldings
<1>5. Supervised(s, p, w) => Supervised(t, p, w)
  BY <1>1, <1>3 DEF Supervised, SameHoldings
<1>6. Placed(s, p, w, c) => Placed(t, p, w, c)
  <2>1. /\ t.workspace = s.workspace /\ t.acquisition = s.acquisition
        /\ t.logOpen = s.logOpen /\ t.child = s.child /\ t.address = s.address
        /\ t.acquired = s.acquired /\ t.status = s.status
        /\ t.attemptFinished = s.attemptFinished
        /\ Delivered(s.order) => Delivered(t.order)
    BY DEF Light, SameHoldings
  <2>2. QED  BY <1>1, <1>3, <2>1, ZenonT(60) DEF Placed
<1>7. QED  BY <1>1, <1>2, <1>4, <1>5, <1>6 DEF Core

\* A place says nothing of the process group but that no exit was observed while
\* READY is committed.
LEMMA PlacedElsewhere ==
  ASSUME NEW s, NEW p, NEW r, NEW w, NEW c, Placed(s, p, w, c),
         c \notin {"commit", "commit deadline"} \/ ~r.observed
  PROVE  Placed(s, r, w, c)
  BY DEF Placed

\* An observer that publishes what it saw keeps the invariant.
LEMMA ObserverStep ==
  ASSUME SessionInv, Awaiting, NEW t \in Tasks, NEW kind \in Kinds, Report(t, kind),
         task[t] \in {"on"} \cup Kinds,
         kind = "EXIT" => ses.acquisition = "child" /\ proc.state # "running",
         kind = "CLEANED" => t = "cleanup",
         t = "control" /\ control = "lost" => kind \notin Continues,
         Light(ses, ses'), ses'.leaseLost = ses.leaseLost,
         coord' = coord, control' = control, world' = world,
         Supervised(ses, proc', world), proc.state # "running" => proc'.state # "running"
  PROVE  Steady
<1>1. /\ Core(ses, world) /\ Placed(ses, proc, world, coord) /\ Heard(ses, task, control)
      /\ Watched(ses, proc, coord, task, queue) /\ world \in Worlds
  BY DEF SessionInv
<1>2. coord \notin {"commit", "commit deadline", "exited"}
  BY DEF Awaiting
<1>3. Core(ses', world')
  BY <1>1, LightKeeps
<1>4. Placed(ses', proc', world', coord')
  BY <1>1, <1>2, PlacedElsewhere, LightKeeps
<1>5. Supervised(ses', proc', world')
  BY LightKeeps
<1>6. /\ Watched(ses, proc, coord, task', queue')
      /\ task'[t] \in {kind, After(kind)} /\ \A u \in Tasks \ {t} : task'[u] = task[u]
  BY <1>1, Publishes
<1>7. Watched(ses', proc', coord', task', queue')
  <2>1. /\ ses'.acquisition = ses.acquisition /\ ses'.cleanup = ses.cleanup
        /\ ses'.attemptFinished = ses.attemptFinished
    BY DEF Light, SameHoldings
  <2>2. QED  BY <1>6, <2>1, WatchedOn
<1>8. Heard(ses', task', control')
  <2>1. "control" \in Tasks
    BY DEF Tasks, SessionTasks
  <2>2. "on" \notin Kinds
    BY DEF Kinds
  <2>3. kind \notin Continues => task'[t] \notin {"on"} \cup Continues \/ t # "control"
    BY <1>6, <2>2 DEF After, Continues
  <2>4. QED  BY <1>1, <1>6, <2>1, <2>3 DEF Heard
<1>9. ses'.status # 0
  BY <1>2, <1>4 DEF Placed
<1>10. ses'.order.ready = ses.order.ready
  BY DEF Light
<1>11. QED  BY <1>1, <1>3, <1>4, <1>5, <1>7, <1>8, <1>9, <1>10
            DEF SessionInv, ExitStatusIsHonest, Steady

\* So does a step that publishes nothing and changes only a recorded fact.
LEMMA LightStep ==
  ASSUME SessionInv, Light(ses, ses'), ses'.leaseLost = ses.leaseLost,
         ses.status = 0 => ~ses'.sigPending,
         UNCHANGED <<coord, queue, task, proc, world>>, control' = control \/ control' # "lost"
  PROVE  Steady
<1>1. /\ Core(ses, world) /\ Placed(ses, proc, world, coord) /\ Heard(ses, task, control)
      /\ Watched(ses, proc, coord, task, queue) /\ world \in Worlds
      /\ Supervised(ses, proc, world) /\ ExitStatusIsHonest
  BY DEF SessionInv
<1>2. /\ Core(ses', world') /\ Placed(ses', proc', world', coord')
      /\ Supervised(ses', proc', world')
  BY <1>1, LightKeeps
<1>3. Watched(ses', proc', coord', task', queue')
  <2>1. /\ ses'.acquisition = ses.acquisition /\ ses'.cleanup = ses.cleanup
        /\ ses'.attemptFinished = ses.attemptFinished
    BY DEF Light, SameHoldings
  <2>2. QED  BY <1>1, <2>1, WatchedOn
<1>4. Heard(ses', task', control')
  BY <1>1 DEF Heard
<1>5. ExitStatusIsHonest'
  BY <1>1 DEF ExitStatusIsHonest, Light, SameHoldings, Delivered, Gone
<1>6. ses'.order.ready = ses.order.ready
  BY DEF Light
<1>7. QED  BY <1>1, <1>2, <1>3, <1>4, <1>5, <1>6 DEF SessionInv, Steady

\* So does a step of the process group, or of the supervisor that terminates it.
LEMMA GroupStep ==
  ASSUME SessionInv, UNCHANGED <<ses, coord, queue, task, control, world>>,
         Supervised(ses, proc', world), proc.state # "running" => proc'.state # "running",
         Quiet(proc) => Quiet(proc'),
         coord \notin {"commit", "commit deadline"} \/ proc'.observed = proc.observed
  PROVE  Steady
<1>1. /\ Core(ses, world) /\ Placed(ses, proc, world, coord) /\ Heard(ses, task, control)
      /\ Watched(ses, proc, coord, task, queue) /\ world \in Worlds /\ ExitStatusIsHonest
  BY DEF SessionInv
<1>2. Placed(ses, proc', world, coord)
  <2>1. coord \in {"commit", "commit deadline"} => ~proc'.observed
    BY <1>1 DEF Placed
  <2>2. QED  BY <1>1, <2>1, PlacedElsewhere
<1>3. Watched(ses, proc', coord, task, queue)
  BY <1>1, WatchedOn
<1>4. ExitStatusIsHonest'
  BY <1>1 DEF ExitStatusIsHonest, Gone, Quiet
<1>5. QED  BY <1>1, <1>2, <1>3, <1>4 DEF SessionInv, Steady

----------------------------------------------------------------------------
\* The steps of the observers

\* The fields an observer or a signal may set.
Observed == {"relay", "logInFlight", "creditBack", "writerFailed", "sigPending",
             "leaseLost", "failures"}

\* Setting an observed field is such a step.
LEMMA LightSet ==
  ASSUME NEW s, Formed(s), NEW t, DOMAIN t = SessionFields, t.failures \in Seq(Tasks),
         \A f \in SessionFields \ Observed : t[f] = s[f]
  PROVE  Light(s, t)
<1>1. /\ t.lc = s.lc /\ t.order = s.order /\ t.finished = s.finished
      /\ t.sigAccounted = s.sigAccounted /\ t.leaseAccounted = s.leaseAccounted
  BY DEF SessionFields, Observed
<1>2. SameHoldings(s, t)
  BY DEF SessionFields, Observed, SameHoldings
<1>3. QED  BY <1>1, <1>2 DEF Light, Formed

\* So is leaving the session alone.
LEMMA LightSame ==
  ASSUME NEW s, Formed(s)
  PROVE  Light(s, s)
  BY DEF Light, SameHoldings

\* The tasks by their names.
LEMMA Observer ==
  /\ Streams \subseteq Tasks
  /\ {"writer", "control", "signal", "log", "credit", "log deadline", "exit", "readiness",
       "cleanup", "drain"} \subseteq Tasks
  /\ "control" \notin Streams /\ "cleanup" \notin Streams
  BY SessionConstants DEF Tasks, SessionTasks, ChildTasks

\* Only the tasks and the queue change.
LEMMA PublicationKeeps ==
  ASSUME SessionInv, Awaiting, NEW t \in Tasks, NEW kind \in Kinds, Report(t, kind),
         task[t] \in {"on"} \cup Kinds,
         kind = "EXIT" => ses.acquisition = "child" /\ proc.state # "running",
         kind = "CLEANED" => t = "cleanup",
         t = "control" /\ control = "lost" => kind \notin Continues,
         UNCHANGED <<ses, coord, control, proc, world>>
  PROVE  Steady
<1>1. Formed(ses) /\ Supervised(ses, proc, world)
  BY DEF SessionInv, Core
<1>2. Light(ses, ses')
  BY <1>1, LightSame
<1>3. QED  BY <1>1, <1>2, ObserverStep

\* A publication that waited for the full queue enters it.
LEMMA FinishPutKeeps ==
  ASSUME SessionInv, NEW t \in Tasks, FinishPut(t)
  PROVE  Steady
<1>1. /\ Watched(ses, proc, coord, task, queue) /\ Heard(ses, task, control)
  BY DEF SessionInv
<1>2. /\ task[t] = "EXIT" => ses.acquisition = "child" /\ proc.state # "running"
      /\ task[t] = "CLEANED" => t = "cleanup"
  BY <1>1 DEF Watched
<1>3. t = "control" /\ control = "lost" => task[t] \notin Continues
  BY <1>1 DEF Heard
<1>4. QED  BY <1>2, <1>3, PublicationKeeps DEF FinishPut

\* What a task may publish at any time.
Simple == Kinds \ {"EXIT", "CLEANED"}

\* An observation that only publishes.
LEMMA SimpleObservationKeeps ==
  ASSUME SessionInv, NEW t \in Tasks, NEW kind \in Simple, Runs(t), Report(t, kind),
         UNCHANGED <<ses, coord, control, proc, world>>
  PROVE  Steady
<1>1. t = "control" => control # "lost"
  BY DEF SessionInv, Heard, Runs
<1>2. QED  BY <1>1, PublicationKeeps DEF Runs, Simple

\* The observers that only publish: signal, readiness, the deadlines, the ends of
\* the streams.
LEMMA SimpleObservations ==
  ASSUME SessionInv,
         \/ ObserveSignal \/ PollReadiness \/ ReadinessExpires \/ DrainExpires
         \/ ReadLogEOF \/ LogDrainExpires \/ \E t \in Streams : ReadOutputEOF(t)
  PROVE  Steady
<1>1. {"SIGNAL", "POLL", "DEADLINE", "DRAIN", "LOGEOF", "LOGDEADLINE", "OUTEOF"}
        \subseteq Simple
  BY DEF Simple, Kinds
<1>2. CASE ObserveSignal
  BY <1>1, <1>2, Observer, SimpleObservationKeeps DEF ObserveSignal
<1>3. CASE PollReadiness
  BY <1>1, <1>3, Observer, SimpleObservationKeeps DEF PollReadiness
<1>4. CASE ReadinessExpires
  BY <1>1, <1>4, Observer, SimpleObservationKeeps DEF ReadinessExpires
<1>5. CASE DrainExpires
  BY <1>1, <1>5, Observer, SimpleObservationKeeps DEF DrainExpires
<1>6. CASE ReadLogEOF
  BY <1>1, <1>6, Observer, SimpleObservationKeeps DEF ReadLogEOF
<1>7. CASE LogDrainExpires
  BY <1>1, <1>7, Observer, SimpleObservationKeeps DEF LogDrainExpires
<1>8. ASSUME NEW t \in Streams, ReadOutputEOF(t) PROVE Steady
  BY <1>1, <1>8, Observer, SimpleObservationKeeps DEF ReadOutputEOF
<1>9. QED  BY <1>2, <1>3, <1>4, <1>5, <1>6, <1>7, <1>8

\* An observation that also sets fields of the session.
LEMMA SessionObservationKeeps ==
  ASSUME SessionInv, NEW t \in Tasks, NEW kind \in Simple, Runs(t), Report(t, kind),
         DOMAIN ses' = SessionFields, ses'.failures \in Seq(Tasks),
         \A f \in SessionFields \ Observed : ses'[f] = ses[f],
         ses'.leaseLost = ses.leaseLost,
         UNCHANGED <<coord, control, proc, world>>
  PROVE  Steady
<1>1. Formed(ses) /\ Supervised(ses, proc, world)
  BY DEF SessionInv, Core
<1>2. Light(ses, ses')
  BY <1>1, LightSet
<1>3. t = "control" => control # "lost"
  BY DEF SessionInv, Heard, Runs
<1>4. QED  BY <1>1, <1>2, <1>3, ObserverStep DEF Runs, Simple

\* _observe records the failure of an observer before it publishes it.
LEMMA ObserverFailsKeeps ==
  ASSUME SessionInv, NEW t \in Tasks, ObserverFails(t)
  PROVE  Steady
<1>1. Formed(ses)
  BY DEF SessionInv, Core
<1>2. CASE t = "log" /\ ses.relay.disposed
  <2>1. /\ ses' = [ses EXCEPT !.relay = Relay!ReadFailed(@)] /\ Report(t, "LOGSTOPPED")
        /\ Runs(t) /\ UNCHANGED <<coord, control, proc, world>>
    BY <1>2 DEF ObserverFails
  <2>2. "LOGSTOPPED" \in Simple
    BY DEF Simple, Kinds
  <2>3. /\ DOMAIN ses' = SessionFields /\ ses'.failures = ses.failures
        /\ ses'.leaseLost = ses.leaseLost /\ ses.failures \in Seq(Tasks)
    BY <1>1, <2>1 DEF Formed, SessionFields
  <2>4. \A f \in SessionFields \ Observed : ses'[f] = ses[f]
    BY <1>1, <2>1 DEF Formed, Observed
  <2>5. QED  BY <2>1, <2>2, <2>3, <2>4, SessionObservationKeeps
<1>3. CASE ~(t = "log" /\ ses.relay.disposed)
  <2>1. /\ ses' = [ses EXCEPT !.failures = Append(@, t), !.writerFailed = @ \/ t = "writer"]
        /\ Report(t, "FAIL") /\ Runs(t) /\ UNCHANGED <<coord, control, proc, world>>
    BY <1>3 DEF ObserverFails
  <2>2. "FAIL" \in Simple
    BY DEF Simple, Kinds
  <2>3. /\ DOMAIN ses' = SessionFields /\ ses'.failures = Append(ses.failures, t)
        /\ ses'.leaseLost = ses.leaseLost /\ ses.failures \in Seq(Tasks)
    BY <1>1, <2>1 DEF Formed, SessionFields
  <2>4. ses'.failures \in Seq(Tasks)
    BY <2>3, Appended
  <2>5. \A f \in SessionFields \ Observed : ses'[f] = ses[f]
    BY <1>1, <2>1 DEF Formed, Observed
  <2>6. QED  BY <2>1, <2>2, <2>3, <2>4, <2>5, SessionObservationKeeps
<1>4. QED  BY <1>2, <1>3

\* The client's log credit is taken from the control stream.
LEMMA ReturnCreditKeeps ==
  ASSUME SessionInv, ReturnCredit
  PROVE  Steady
<1>1. Formed(ses)
  BY DEF SessionInv, Core
<1>2. /\ ses' = [ses EXCEPT !.creditBack = FALSE] /\ Report("credit", "LOGCREDIT")
      /\ Runs("credit") /\ UNCHANGED <<coord, control, proc, world>>
  BY DEF ReturnCredit
<1>3. "LOGCREDIT" \in Simple
  BY DEF Simple, Kinds
<1>4. /\ DOMAIN ses' = SessionFields /\ ses'.failures = ses.failures
      /\ ses'.leaseLost = ses.leaseLost /\ ses.failures \in Seq(Tasks)
  BY <1>1, <1>2 DEF Formed, SessionFields
<1>5. \A f \in SessionFields \ Observed : ses'[f] = ses[f]
  BY <1>1, <1>2 DEF Formed, Observed
<1>6. QED  BY <1>2, <1>3, <1>4, <1>5, Observer, SessionObservationKeeps

\* The log writer delivers the frame in flight.
LEMMA WriteLogFrameKeeps ==
  ASSUME SessionInv, WriteLogFrame
  PROVE  Steady
<1>1. Formed(ses) /\ ses.status # 0
  BY DEF SessionInv, Core, WriteLogFrame, Runs, Awaiting, Placed
<1>2. /\ ses' = [ses EXCEPT !.logInFlight = FALSE, !.creditBack = TRUE]
      /\ UNCHANGED <<coord, queue, task, control, proc, world>>
  BY DEF WriteLogFrame
<1>3. /\ DOMAIN ses' = SessionFields /\ ses'.failures = ses.failures
      /\ ses'.leaseLost = ses.leaseLost /\ ses.failures \in Seq(Tasks)
  BY <1>1, <1>2 DEF Formed, SessionFields
<1>4. \A f \in SessionFields \ Observed : ses'[f] = ses[f]
  BY <1>1, <1>2 DEF Formed, Observed
<1>5. Light(ses, ses')
  BY <1>1, <1>3, <1>4, LightSet
<1>6. QED  BY <1>1, <1>2, <1>3, <1>5, LightStep

\* The client's writes on the control stream.
LEMMA ControlKeeps ==
  ASSUME SessionInv, ReadStart \/ ReadRelease
  PROVE  Steady
<1>1. Formed(ses) /\ control # "lost"
  BY DEF SessionInv, Core, ReadStart, ReadRelease
<1>2. Light(ses, ses)
  BY <1>1, LightSame
<1>3. CASE ReadRelease
  <2>1. UNCHANGED <<ses, coord, queue, task, proc, world>> /\ control' = "release"
    BY <1>3 DEF ReadRelease
  <2>2. ses.status = 0 => ~ses.sigPending
    BY DEF SessionInv, ExitStatusIsHonest
  <2>3. QED  BY <1>2, <2>1, <2>2, LightStep
<1>4. CASE ReadStart
  <2>1. /\ Runs("control") /\ control' = "start" /\ Report("control", "START")
        /\ UNCHANGED <<ses, coord, proc, world>>
    BY <1>4 DEF ReadStart
  <2>2. /\ Core(ses, world) /\ Placed(ses, proc, world, coord) /\ Supervised(ses, proc, world)
        /\ Watched(ses, proc, coord, task, queue) /\ world \in Worlds
    BY DEF SessionInv
  <2>3. "START" \in Kinds
    BY DEF Kinds
  <2>4. Watched(ses, proc, coord, task', queue')
    BY <2>1, <2>2, <2>3, Observer, Publishes DEF Runs
  <2>5. ses.status # 0
    BY <2>1, <2>2 DEF Placed, Runs, Awaiting
  <2>6. Heard(ses, task', control')
    BY <2>1 DEF Heard
  <2>7. QED  BY <2>1, <2>2, <2>4, <2>5, <2>6 DEF SessionInv, ExitStatusIsHonest, Steady
<1>5. QED  BY <1>3, <1>4

\* The client hangs up, and the control observer records the lost lease.
LEMMA ReadEOFKeeps ==
  ASSUME SessionInv, ReadEOF
  PROVE  Steady
<1>1. /\ Core(ses, world) /\ Placed(ses, proc, world, coord) /\ Supervised(ses, proc, world)
      /\ Watched(ses, proc, coord, task, queue) /\ world \in Worlds
  BY DEF SessionInv
<1>2. /\ Runs("control") /\ Report("control", "EOF") /\ UNCHANGED <<coord, proc, world>>
      /\ control' = IF control = "start" THEN "lost" ELSE "closed"
      /\ ses' = [ses EXCEPT !.leaseLost = control = "start"]
  BY DEF ReadEOF
<1>3. /\ DOMAIN ses' = SessionFields /\ ses'.failures = ses.failures
      /\ ses'.leaseLost = (control = "start") /\ ses.failures \in Seq(Tasks)
  BY <1>1, <1>2 DEF Core, Formed, SessionFields
<1>4. \A f \in SessionFields \ Observed : ses'[f] = ses[f]
  BY <1>1, <1>2 DEF Core, Formed, Observed
<1>5. Light(ses, ses')
  BY <1>1, <1>3, <1>4, LightSet DEF Core
<1>6. /\ Core(ses', world') /\ Placed(ses', proc', world', coord')
      /\ Supervised(ses', proc', world')
  BY <1>1, <1>2, <1>5, LightKeeps
<1>7. "EOF" \in Kinds /\ "EOF" \notin Continues /\ "on" \notin Kinds
  BY DEF Kinds, Continues
<1>8. Watched(ses, proc, coord, task', queue') /\ task'["control"] \in {"EOF", "done"}
  BY <1>1, <1>2, <1>7, Observer, Publishes DEF Runs, After
<1>9. Watched(ses', proc', coord', task', queue')
  <2>1. /\ ses'.acquisition = ses.acquisition /\ ses'.cleanup = ses.cleanup
        /\ ses'.attemptFinished = ses.attemptFinished
    BY <1>5 DEF Light, SameHoldings
  <2>2. Watched(ses', proc, coord, task', queue')
    BY <1>8, <2>1, WatchedOn
  <2>3. QED  BY <1>2, <2>2
<1>10. Heard(ses', task', control')
  BY <1>2, <1>3, <1>8 DEF Heard, Continues
<1>11. ses'.status # 0
  BY <1>2, <1>6 DEF Placed, Runs, Awaiting
<1>12. ses'.order.ready = ses.order.ready
  BY <1>5 DEF Light
<1>13. QED  BY <1>1, <1>2, <1>6, <1>9, <1>10, <1>11, <1>12
            DEF SessionInv, ExitStatusIsHonest, Steady

----------------------------------------------------------------------------
\* The process group, and what the helper does to it

\* r is p with more read or written, and more evidence.
Counts(p, r) ==
  /\ r \in Processes
  /\ r.state = p.state /\ r.members = p.members /\ r.observed = p.observed
  /\ r.requested = p.requested /\ r.signalled = p.signalled /\ r.raced = p.raced
  /\ r.disposed = p.disposed /\ r.stage = p.stage /\ p.artifact \subseteq r.artifact

\* What is read from or written by the child does not matter to its supervision.
LEMMA CountsKeep ==
  ASSUME NEW s, NEW p, NEW w, NEW r, Supervised(s, p, w), Counts(p, r)
  PROVE  Supervised(s, r, w)
  BY DEF Supervised, Counts, Quiet

\* The observers of the log and of the child's streams read.
LEMMA ReadsKeep ==
  ASSUME SessionInv, ReadLog \/ \E t \in Streams : ReadOutput(t)
  PROVE  Steady
<1>1. /\ Formed(ses) /\ Supervised(ses, proc, world) /\ proc \in Processes
  BY DEF SessionInv, Core, Supervised
<1>2. Light(ses, ses)
  BY <1>1, LightSame
<1>3. {"OUT", "LOG"} \subseteq Simple
  BY DEF Simple, Kinds
<1>4. ASSUME NEW t \in Tasks, NEW kind \in {"OUT", "LOG"}, Runs(t), Report(t, kind),
             Counts(proc, proc'),
             UNCHANGED <<ses, coord, control, world>>
      PROVE  Steady
  <2>1. Supervised(ses, proc', world) /\ proc'.state = proc.state
    BY <1>1, <1>4, CountsKeep DEF Counts
  <2>2. t = "control" => control # "lost"
    BY <1>4 DEF SessionInv, Heard, Runs
  <2>3. QED  BY <1>2, <1>3, <1>4, <2>1, <2>2, ObserverStep DEF Runs, Simple
<1>5. CASE ReadLog
  <2>1. proc' = [proc EXCEPT !.taken = @ + 1]
    BY <1>5 DEF ReadLog
  <2>2. Counts(proc, proc')
    BY <1>1, <2>1 DEF Counts, Processes
  <2>3. QED  BY <1>4, <1>5, <2>2, Observer DEF ReadLog
<1>6. ASSUME NEW t \in Streams, ReadOutput(t) PROVE Steady
  <2>1. proc' = [proc EXCEPT !.output = @ + 1]
    BY <1>6 DEF ReadOutput
  <2>2. Counts(proc, proc')
    BY <1>1, <2>1 DEF Counts, Processes
  <2>3. QED  BY <1>4, <1>6, <2>2, Observer DEF ReadOutput
<1>7. QED  BY <1>5, <1>6

\* The observer of the exit sees the child exited.
LEMMA ObserveExitKeeps ==
  ASSUME SessionInv, ObserveExit
  PROVE  Steady
<1>1. /\ Formed(ses) /\ Supervised(ses, proc, world) /\ proc \in Processes
      /\ Watched(ses, proc, coord, task, queue)
  BY DEF SessionInv, Core, Supervised
<1>2. /\ Runs("exit") /\ proc.state # "running" /\ Report("exit", "EXIT")
      /\ proc' = [proc EXCEPT !.observed = TRUE] /\ UNCHANGED <<ses, coord, control, world>>
  BY DEF ObserveExit
<1>3. Supervised(ses, proc', world) /\ proc'.state # "running"
  BY <1>1, <1>2 DEF Supervised, Processes, Quiet
<1>4. ses.acquisition = "child"
  BY <1>1, <1>2 DEF Watched, Runs, ChildTasks
<1>5. "EXIT" \in Kinds
  BY DEF Kinds
<1>6. Light(ses, ses)
  BY <1>1, LightSame
<1>7. QED  BY <1>2, <1>3, <1>4, <1>5, <1>6, Observer, ObserverStep DEF Runs

\* A signal changes whether the exit was requested only before it was seen.
LEMMA SignalledKeeps ==
  ASSUME NEW s, NEW p, NEW w, Supervised(s, p, w), p.stage # "idle",
         NEW gone \in BOOLEAN, gone => p.state = "running", NEW rc \in Int
  PROVE  LET r == Signalled(p, gone, rc) IN
         /\ Supervised(s, r, w) /\ r.stage = p.stage
         /\ p.state # "running" => r.state # "running"
         /\ Quiet(p) => Quiet(r)
<1> DEFINE seen == p.observed \/ p.state # "running"
           r    == Signalled(p, gone, rc)
<1>1. p \in Processes
  BY DEF Supervised
<1>3. gone => p.state = "running"
  OBVIOUS
<1>4. gone \in BOOLEAN
  OBVIOUS
<1>2. /\ r \in Processes
      /\ r.observed = seen /\ r.requested = (p.requested \/ ~seen)
      /\ r.signalled = (p.signalled \/ (~seen /\ ~gone))
      /\ r.raced = (p.raced \/ (~seen /\ gone /\ ~p.signalled))
      /\ r.state = (IF gone THEN "exited" ELSE p.state)
      /\ r.members = p.members /\ r.disposed = p.disposed /\ r.stage = p.stage
      /\ r.artifact = p.artifact
  <2> DEFINE requested == p.requested \/ ~seen
             signalled == p.signalled \/ (~seen /\ ~gone)
             raced     == p.raced \/ (~seen /\ gone /\ ~p.signalled)
             state     == IF gone THEN "exited" ELSE p.state
             code      == IF gone THEN rc ELSE p.rc
  <2>1. r = [p EXCEPT !.observed = seen, !.requested = requested, !.signalled = signalled,
                      !.raced = raced, !.state = state, !.rc = code]
    BY <1>1 DEF Signalled, Processes
  <2>2. /\ seen \in BOOLEAN /\ requested \in BOOLEAN /\ signalled \in BOOLEAN
        /\ raced \in BOOLEAN
    OBVIOUS
  <2>3. state \in {"none", "running", "exited", "reaped"} /\ code \in Int
    BY <1>1, <1>4 DEF Processes
  <2> HIDE DEF seen, requested, signalled, raced, state, code, r
  <2>4. r \in Processes
    <3> DEFINE m == [p EXCEPT !.observed = seen, !.requested = requested,
                              !.signalled = signalled]
    <3>1. m \in Processes
      BY <1>1, <2>2 DEF Processes
    <3>2. r = [m EXCEPT !.raced = raced, !.state = state, !.rc = code]
      BY <1>1, <2>1 DEF Processes
    <3> HIDE DEF m
    <3>3. QED  BY <2>2, <2>3, <3>1, <3>2 DEF Processes
  <2>5. /\ r.observed = seen /\ r.requested = requested /\ r.signalled = signalled
        /\ r.raced = raced /\ r.state = state
    BY <1>1, <2>1 DEF Processes
  <2>6. /\ r.members = p.members /\ r.disposed = p.disposed /\ r.stage = p.stage
        /\ r.artifact = p.artifact
    BY <1>1, <2>1 DEF Processes
  <2>7. QED  BY <2>4, <2>5, <2>6 DEF requested, signalled, raced, state
<1> HIDE DEF r
<1>5. ~seen => ~s.lc.attempt.result.seen
  BY <1>1 DEF Supervised, Processes
<1>6. (r.requested = (r.signalled \/ r.raced)) /\ (r.observed => r.state # "running" \/ seen)
  BY <1>1, <1>2, <1>4 DEF Supervised, Processes
<1>7. r.observed => r.state # "running"
  BY <1>1, <1>2, <1>3 DEF Supervised
<1>8. s.lc.attempt.result.seen =>
        r.state # "running" /\ s.lc.attempt.result.requested = r.requested
  BY <1>1, <1>2, <1>3, <1>5 DEF Supervised, Processes
<1>9. r.requested => Ended(s.lc) \/ s.lc.attempt.result.seen
  BY DEF Supervised
<1>10. (Quiet(p) => Quiet(r)) /\ (p.state # "running" => r.state # "running")
  BY <1>2, <1>3 DEF Quiet
<1>11. Supervised(s, r, w)
  BY <1>2, <1>6, <1>7, <1>8, <1>9, <1>10 DEF Supervised
<1>12. QED  BY <1>2, <1>10, <1>11 DEF r

\* The step of _terminate_group within which the supervisor is does not matter.
LEMMA StageMoves ==
  ASSUME NEW s, NEW p, NEW w, Supervised(s, p, w), NEW r, p.stage # "idle",
         NEW stage, stage = "await" \/ stage = "vanish", r = [p EXCEPT !.stage = stage]
  PROVE  Supervised(s, r, w) /\ r.state = p.state /\ r.members = p.members
<1>1. p \in Processes
  BY DEF Supervised
<1>2. /\ r \in Processes /\ r.stage = stage
      /\ r.state = p.state /\ r.members = p.members /\ r.observed = p.observed
      /\ r.requested = p.requested /\ r.signalled = p.signalled /\ r.raced = p.raced
      /\ r.disposed = p.disposed /\ r.artifact = p.artifact
  BY <1>1 DEF Processes
<1>3. QED  BY <1>2 DEF Supervised, Quiet

\* _terminate_group signals the child's group or waits for its leader.
LEMMA TerminationKeeps ==
  ASSUME SessionInv, SendTerm \/ LeaderWaitEnds \/ SendKill
  PROVE  Steady
<1>1. Supervised(ses, proc, world) /\ proc \in Processes
  BY DEF SessionInv, Supervised
<1>2. /\ coord \notin {"commit", "commit deadline"} /\ proc.stage # "idle"
      /\ UNCHANGED <<ses, coord, queue, task, control, world>>
  BY DEF SendTerm, LeaderWaitEnds, SendKill, CleanupStage, Runs, Awaiting
<1>3. SUFFICES /\ Supervised(ses, proc', world)
               /\ proc.state # "running" => proc'.state # "running"
               /\ Quiet(proc) => Quiet(proc')
  BY <1>2, GroupStep
<1>4. CASE SendTerm
  <2>1. PICK gone \in MayExit, rc \in ReturnCodes :
          proc' = [Signalled(proc, gone, rc) EXCEPT !.stage = "await"]
    BY <1>4 DEF SendTerm
  <2> DEFINE r == Signalled(proc, gone, rc)
  <2>2. /\ Supervised(ses, r, world) /\ r.stage = proc.stage
        /\ proc.state # "running" => r.state # "running"
        /\ Quiet(proc) => Quiet(r)
    <3>1. gone \in BOOLEAN /\ (gone => proc.state = "running") /\ rc \in Int
      BY LifecycleConstants DEF MayExit
    <3>2. LET q == Signalled(proc, gone, rc) IN
          /\ Supervised(ses, q, world) /\ q.stage = proc.stage
          /\ proc.state # "running" => q.state # "running"
          /\ Quiet(proc) => Quiet(q)
      BY <1>1, <1>2, <3>1, SignalledKeeps
    <3>3. QED  BY <3>2, Zenon DEF r
  <2> HIDE DEF r
  <2>3. Supervised(ses, proc', world) /\ proc'.state = r.state /\ proc'.members = r.members
    <3>1. proc' = [r EXCEPT !.stage = "await"]
      BY <2>1 DEF r
    <3>2. r.stage # "idle"
      BY <1>2, <2>2
    <3>3. QED  BY <2>2, <3>1, <3>2, StageMoves
  <2>4. QED  BY <2>2, <2>3 DEF Quiet
<1>5. CASE LeaderWaitEnds
  <2>1. proc' = [proc EXCEPT !.observed = @ \/ proc.state # "running", !.stage = "kill"]
    BY <1>5 DEF LeaderWaitEnds
  <2>2. /\ proc' \in Processes /\ proc'.stage = "kill"
        /\ proc'.state = proc.state /\ proc'.members = proc.members
        /\ proc'.observed = (proc.observed \/ proc.state # "running")
        /\ proc'.requested = proc.requested /\ proc'.signalled = proc.signalled
        /\ proc'.raced = proc.raced
        /\ proc'.disposed = proc.disposed /\ proc'.artifact = proc.artifact
    BY <1>1, <2>1 DEF Processes
  <2>3. QED  BY <1>1, <1>2, <2>2 DEF Supervised, Quiet
<1>6. CASE SendKill
  <2>1. PICK gone \in MayExit, stuck \in May("stuck"), rc \in ReturnCodes :
          LET p == Signalled(proc, gone, rc) IN
          /\ gone \/ rc # 0
          /\ proc' = IF p.state = "running" /\ stuck
                     THEN [p EXCEPT !.stage = "vanish"]
                     ELSE [p EXCEPT !.state = "reaped", !.observed = TRUE,
                                    !.stage = "vanish",
                                    !.rc = IF p.state = "running" THEN rc ELSE @,
                                    !.members = @ /\ stuck]
    BY <1>6, Zenon DEF SendKill
  <2> DEFINE r == Signalled(proc, gone, rc)
  <2>2. /\ Supervised(ses, r, world) /\ r.stage = proc.stage
        /\ proc.state # "running" => r.state # "running"
        /\ Quiet(proc) => Quiet(r)
    <3>1. gone \in BOOLEAN /\ (gone => proc.state = "running") /\ rc \in Int
      BY LifecycleConstants DEF MayExit
    <3>2. LET q == Signalled(proc, gone, rc) IN
          /\ Supervised(ses, q, world) /\ q.stage = proc.stage
          /\ proc.state # "running" => q.state # "running"
          /\ Quiet(proc) => Quiet(q)
      BY <1>1, <1>2, <3>1, SignalledKeeps
    <3>3. QED  BY <3>2, Zenon DEF r
  <2>3. stuck \in BOOLEAN /\ rc \in Int
    BY LifecycleConstants DEF May
  <2> HIDE DEF r
  <2>4. CASE r.state = "running" /\ stuck
    <3>1. proc' = [r EXCEPT !.stage = "vanish"]
      BY <2>1, <2>4 DEF r
    <3>2. r.stage # "idle"
      BY <1>2, <2>2
    <3>3. Supervised(ses, proc', world) /\ proc'.state = r.state /\ proc'.members = r.members
      BY <2>2, <3>1, <3>2, StageMoves
    <3>4. QED  BY <2>2, <3>3 DEF Quiet
  <2>5. CASE ~(r.state = "running" /\ stuck)
    <3>1. proc' = [r EXCEPT !.state = "reaped", !.observed = TRUE, !.stage = "vanish",
                            !.rc = IF r.state = "running" THEN rc ELSE @,
                            !.members = @ /\ stuck]
      BY <2>1, <2>5 DEF r
    <3>2. r \in Processes
      BY <2>2 DEF Supervised
    <3>3. /\ proc' \in Processes /\ proc'.stage = "vanish"
          /\ proc'.state = "reaped" /\ proc'.members = (r.members /\ stuck)
          /\ proc'.observed
          /\ proc'.requested = r.requested /\ proc'.signalled = r.signalled
          /\ proc'.raced = r.raced
          /\ proc'.disposed = r.disposed /\ proc'.artifact = r.artifact
      <4>1. /\ (r.members /\ stuck) \in BOOLEAN
            /\ (IF r.state = "running" THEN rc ELSE r.rc) \in Int
        BY <2>3, <3>2 DEF Processes
      <4>2. QED  BY <3>1, <3>2, <4>1 DEF Processes
    <3>4. Quiet(r) => Quiet(proc')
      BY <3>3 DEF Quiet
    <3>5. Supervised(ses, proc', world)
      BY <1>2, <2>2, <3>3, <3>4 DEF Supervised
    <3>6. QED  BY <2>2, <3>3, <3>4, <3>5
  <2>6. QED  BY <2>4, <2>5
<1>7. QED  BY <1>4, <1>5, <1>6

\* _terminate_group ends, with the group disposed of or not.
LEMMA GroupWaitEndsKeeps ==
  ASSUME SessionInv, GroupWaitEnds
  PROVE  Steady
<1>1. /\ Formed(ses) /\ Supervised(ses, proc, world) /\ proc \in Processes
  BY DEF SessionInv, Core, Supervised
<1>2. /\ Runs("cleanup") /\ Report("cleanup", "CLEANED")
      /\ UNCHANGED <<ses, coord, control, world>>
      /\ proc' = [proc EXCEPT !.stage = "idle",
                              !.disposed = proc.state = "reaped" /\ ~proc.members]
  BY DEF GroupWaitEnds, CleanupStage
<1>3. /\ proc' \in Processes /\ proc'.stage = "idle"
      /\ proc'.state = proc.state /\ proc'.members = proc.members
      /\ proc'.observed = proc.observed
      /\ proc'.requested = proc.requested /\ proc'.signalled = proc.signalled
      /\ proc'.raced = proc.raced /\ proc'.artifact = proc.artifact
      /\ proc'.disposed = (proc.state = "reaped" /\ ~proc.members)
  BY <1>1, <1>2 DEF Processes
<1>4. Supervised(ses, proc', world)
  BY <1>1, <1>3 DEF Supervised, Quiet
<1>5. "CLEANED" \in Kinds
  BY DEF Kinds
<1>6. Light(ses, ses)
  BY <1>1, LightSame
<1>7. QED  BY <1>2, <1>3, <1>4, <1>5, <1>6, Observer, ObserverStep DEF Runs

----------------------------------------------------------------------------
\* The client, the signals and the child

\* The child exits by itself, publishes its evidence or writes to its log.
LEMMA ChildKeeps ==
  ASSUME SessionInv, ChildExits \/ ChildPublishes \/ ChildLogs
  PROVE  Steady
<1>1. Supervised(ses, proc, world) /\ proc \in Processes /\ world \in Worlds
  BY DEF SessionInv, Supervised
<1>2. /\ proc.state = "running" /\ UNCHANGED <<ses, coord, queue, task, control, world>>
  BY DEF ChildExits, ChildPublishes, ChildLogs
<1>3. ~Quiet(proc)
  BY <1>2 DEF Quiet
<1>4. CASE ChildExits
  <2>1. PICK rc \in ReturnCodes : proc' = [proc EXCEPT !.state = "exited", !.rc = rc]
    BY <1>4 DEF ChildExits
  <2>2. /\ proc' \in Processes /\ proc'.stage = proc.stage
        /\ proc'.state = "exited" /\ proc'.members = proc.members
        /\ proc'.observed = proc.observed
        /\ proc'.requested = proc.requested /\ proc'.signalled = proc.signalled
        /\ proc'.raced = proc.raced /\ proc'.artifact = proc.artifact
        /\ proc'.disposed = proc.disposed
    BY <1>1, <2>1, LifecycleConstants DEF Processes
  <2>3. Supervised(ses, proc', world)
    BY <1>1, <1>3, <2>2 DEF Supervised
  <2>4. QED  BY <1>2, <1>3, <2>2, <2>3, GroupStep
<1>5. CASE ChildPublishes \/ ChildLogs
  <2>1. want.required \subseteq Evidence
    BY <1>1, SessionConstants DEF World, want
  <2>2. Counts(proc, proc')
    <3>1. CASE ChildLogs
      BY <1>1, <3>1 DEF ChildLogs, Counts, Processes
    <3>2. CASE ChildPublishes
      BY <1>1, <2>1, <3>2 DEF ChildPublishes, Counts, Processes
    <3>3. QED  BY <1>5, <3>1, <3>2
  <2>3. Supervised(ses, proc', world) /\ proc'.observed = proc.observed
    BY <1>1, <2>2, CountsKeep DEF Counts
  <2>4. QED  BY <1>2, <1>3, <2>3, GroupStep
<1>6. QED  BY <1>4, <1>5

\* A signal arrives and is recorded, unless the session has succeeded.
LEMMA SignalArrivesKeeps ==
  ASSUME SessionInv, SignalArrives
  PROVE  Steady
<1>1. Formed(ses) /\ Placed(ses, proc, world, coord)
  BY DEF SessionInv, Core
<1>2. /\ ses' = [ses EXCEPT !.sigPending = TRUE] /\ ~Over
      /\ UNCHANGED <<coord, queue, task, control, proc, world>>
  BY DEF SignalArrives
<1>3. /\ DOMAIN ses' = SessionFields /\ ses'.failures = ses.failures
      /\ ses'.leaseLost = ses.leaseLost /\ ses.failures \in Seq(Tasks)
  BY <1>1, <1>2 DEF Formed, SessionFields
<1>4. \A f \in SessionFields \ Observed : ses'[f] = ses[f]
  BY <1>1, <1>2 DEF Formed, Observed
<1>5. Light(ses, ses')
  BY <1>1, <1>3, <1>4, LightSet
<1>6. ses.status # 0
  BY <1>1, <1>2 DEF Placed, Over
<1>7. QED  BY <1>2, <1>3, <1>5, <1>6, LightStep

\* The client writes START.
LEMMA ClientStartsKeeps ==
  ASSUME SessionInv, ClientStarts
  PROVE  Steady
<1>1. Formed(ses)
  BY DEF SessionInv, Core
<1> DEFINE order == Order!Expect(ses.order, want.policy, want.log)
<1>2. /\ ses' = [ses EXCEPT !.order = order] /\ control' = "sending"
      /\ UNCHANGED <<coord, queue, task, proc, world>>
  BY DEF ClientStarts
<1>3. /\ DOMAIN order = EventFields /\ order.ready = ses.order.ready
      /\ Delivered(ses.order) => Delivered(order)
  BY <1>1 DEF Formed, Order!Expect, EventFields, Delivered
<1> HIDE DEF order
<1>4. /\ DOMAIN ses' = SessionFields /\ ses'.order = order
      /\ \A f \in SessionFields \ {"order"} : ses'[f] = ses[f]
  BY <1>1, <1>2 DEF Formed, SessionFields
<1>5. /\ SameHoldings(ses, ses') /\ ses'.lc = ses.lc /\ ses'.failures = ses.failures
      /\ ses'.finished = ses.finished
      /\ ses'.sigAccounted = ses.sigAccounted /\ ses'.leaseAccounted = ses.leaseAccounted
      /\ ses'.leaseLost = ses.leaseLost /\ ses'.sigPending = ses.sigPending
  BY <1>4 DEF SessionFields, SameHoldings
<1>6. Light(ses, ses')
  BY <1>1, <1>3, <1>4, <1>5 DEF Light, Formed
<1>7. ses.status = 0 => ~ses'.sigPending
  BY <1>5 DEF SessionInv, ExitStatusIsHonest
<1>8. QED  BY <1>2, <1>5, <1>6, <1>7, LightStep

\* Every step of the observers and of the supervisor keeps the invariant.
LEMMA ObserveKeeps ==
  ASSUME SessionInv, Observe
  PROVE  Steady
<1>1. CASE \E t \in Tasks : FinishPut(t) \/ ObserverFails(t)
  BY <1>1, FinishPutKeeps, ObserverFailsKeeps
<1>2. CASE \E t \in Streams : ReadOutput(t) \/ ReadOutputEOF(t)
  BY <1>2, ReadsKeep, SimpleObservations
<1>3. CASE ReadStart \/ ReadRelease \/ ReadEOF
  BY <1>3, ControlKeeps, ReadEOFKeeps
<1>4. CASE ObserveSignal \/ PollReadiness \/ ReadinessExpires \/ DrainExpires
           \/ ReadLogEOF \/ LogDrainExpires
  BY <1>4, SimpleObservations
<1>5. CASE ObserveExit \/ ReadLog \/ WriteLogFrame \/ ReturnCredit
  BY <1>5, ObserveExitKeeps, ReadsKeep, WriteLogFrameKeeps, ReturnCreditKeeps
<1>6. CASE SendTerm \/ LeaderWaitEnds \/ SendKill \/ GroupWaitEnds
  BY <1>6, TerminationKeeps, GroupWaitEndsKeeps
<1>7. QED  BY <1>1, <1>2, <1>3, <1>4, <1>5, <1>6 DEF Observe

\* So does every step of the client, of the signals and of the child.
LEMMA EnvironmentKeeps ==
  ASSUME SessionInv, Environment
  PROVE  Steady
  BY ClientStartsKeeps, SignalArrivesKeeps, ChildKeeps DEF Environment

----------------------------------------------------------------------------
\* The coordinator: steps that only account, relay or end the session

\* A step of the coordinator keeps the invariant once each of its parts does.
LEMMA CoordinatorStep ==
  ASSUME SessionInv, Core(ses', world), Placed(ses', proc', world, coord'),
         Supervised(ses', proc', world), Watched(ses', proc', coord', task', queue'),
         UNCHANGED <<control, world>>, ses'.leaseLost = ses.leaseLost,
         task'["control"] \in {task["control"], "done"}, coord' # "exited"
  PROVE  SessionInv'
<1>1. Heard(ses, task, control) /\ world \in Worlds
  BY DEF SessionInv
<1>2. "done" \notin {"on"} \cup Continues
  BY DEF Continues
<1>3. Heard(ses', task', control')
  BY <1>1, <1>2 DEF Heard
<1>4. ses'.status # 0
  BY DEF Placed
<1>5. QED  BY <1>1, <1>3, <1>4 DEF SessionInv, ExitStatusIsHonest

\* A step that ends with bookkeeping needs them only before the bookkeeping.
LEMMA NotedFrom ==
  ASSUME SessionInv, NEW s, Core(s, world), Supervised(s, proc', world), AtWork(s),
         Watched(s, proc', coord, task', queue'), s.leaseLost = ses.leaseLost,
         Noted(s, ses'), coord' \in Plain,
         task'["control"] \in {task["control"], "done"}, UNCHANGED <<control, world>>
  PROVE  SessionInv' /\ ses'.order.ready = s.order.ready
<1>1. Core(ses', world) /\ Supervised(ses', proc', world)
  BY NotedCore, NotedSupervised
<1>2. Placed(ses', proc', world, coord')
  BY NotedAtWork, AtWorkPlaced
<1>3. Watched(ses', proc', coord', task', queue')
  <2>1. /\ ses'.acquisition = s.acquisition /\ ses'.cleanup = s.cleanup
        /\ ses'.attemptFinished = s.attemptFinished
    BY DEF Noted, SameHoldings
  <2>2. coord' # "settling"
    BY DEF Plain
  <2>3. QED  BY <2>1, <2>2, WatchedOn
<1>4. ses'.leaseLost = ses.leaseLost /\ coord' # "exited"
  BY DEF Noted, Plain
<1>5. QED  BY <1>1, <1>2, <1>3, <1>4, CoordinatorStep DEF Noted

\* A step that is bookkeeping alone keeps the invariant.
LEMMA NotedStep ==
  ASSUME SessionInv, coord \in Working \ {"spawn"}, Noted(ses, ses'), coord' \in Plain,
         Watched(ses, proc, coord, task', queue'),
         task'["control"] \in {task["control"], "done"}, UNCHANGED <<control, proc, world>>
  PROVE  Steady
<1>1. /\ Core(ses, world) /\ Placed(ses, proc, world, coord)
      /\ Supervised(ses, proc, world)
  BY DEF SessionInv
<1>2. AtWork(ses)
  BY <1>1, PlacedAtWork
<1>3. QED  BY <1>1, <1>2, NotedFrom DEF Steady

\* Bookkeeping that ends with _stop is bookkeeping that ends the session.
LEMMA NotedStops ==
  ASSUME NEW s, NEW t, Noted(s, t), NEW trigger \in Triggers,
         NEW failure \in SessionFailures \cup {NoFailure}
  PROVE  Noted(s, Stop(t, trigger, failure)) /\ Ended(Stop(t, trigger, failure).lc)
<1>1. Formed(t) /\ failure \in Failures \cup {NoFailure}
  BY SessionConstants DEF Noted
<1>2. Noted(t, Stop(t, trigger, failure)) /\ Ended(Stop(t, trigger, failure).lc)
  BY <1>1, Stops
<1>3. QED  BY <1>2, NotedTransitive

\* Sending the client an event that is neither READY nor the last is bookkeeping.
LEMMA Events ==
  ASSUME NEW s, Formed(s), NEW t, NEW order, t = [s EXCEPT !.order = order],
         DOMAIN order = EventFields, order.ready = s.order.ready,
         Delivered(s.order) => Delivered(order)
  PROVE  Noted(s, t)
<1>1. DOMAIN t = DOMAIN s /\ t.lc = s.lc /\ t.order = order /\ t.failures = s.failures
  BY DEF Formed, SessionFields
<1>2. /\ SameHoldings(s, t)
      /\ t.sigPending = s.sigPending /\ t.leaseLost = s.leaseLost
      /\ t.sigAccounted = s.sigAccounted /\ t.leaseAccounted = s.leaseAccounted
  BY DEF Formed, SessionFields, SameHoldings
<1>3. Formed(t) /\ Later(s.lc, t.lc)
  BY <1>1, LaterReflexive DEF Formed
<1>4. QED  BY <1>1, <1>2, <1>3 DEF Noted

\* What a session that keeps SessionInv accounts.
LEMMA SessionAccounts ==
  ASSUME SessionInv, NEW admits
  PROVE  LET u == Account(ses, admits) IN
         /\ Noted(ses, u) /\ u.failures = << >> /\ Formed(ses) /\ Formed(u)
         /\ ses.sigPending => "REMOTE_SIGNAL" \in Codes(u.lc)
         /\ ses.leaseLost => "CONTROLLER_LEASE_LOST" \in Codes(u.lc)
         /\ ses.child /\ ses.failures # << >> => Ended(u.lc)
<1>1. Formed(ses) /\ Accounted(ses)
  BY DEF SessionInv, Core
<1>2. QED  BY <1>1, Accounts DEF Noted

\* _announce tells the client the session it has.
LEMMA AnnounceKeeps ==
  ASSUME SessionInv, Announce
  PROVE  Steady
<1>1. /\ Formed(ses) /\ Watched(ses, proc, coord, task, queue)
  BY DEF SessionInv, Core
<1>2. /\ coord = "boot" /\ coord' = "loop" /\ UNCHANGED <<queue, task, control, proc, world>>
      /\ \/ ses' = [ses EXCEPT !.order = Order!SessionCreated(@)]
         \/ ses' = Stop(ses, "output_failure", "SESSION_CREATED_ADMISSION")
  BY DEF Announce, Goto
<1>3. Noted(ses, ses')
  <2>1. CASE ses' = [ses EXCEPT !.order = Order!SessionCreated(@)]
    <3> DEFINE order == Order!SessionCreated(ses.order)
    <3>1. /\ DOMAIN order = EventFields /\ order.ready = ses.order.ready
          /\ Delivered(ses.order) => Delivered(order)
      BY <1>1 DEF Formed, Order!SessionCreated, Order!Judge, EventFields, Delivered
    <3>2. ses' = [ses EXCEPT !.order = order]
      BY <2>1
    <3> HIDE DEF order
    <3>3. QED  BY <1>1, <3>1, <3>2, Events
  <2>2. CASE ses' = Stop(ses, "output_failure", "SESSION_CREATED_ADMISSION")
    <3>1. Noted(ses, ses)
      BY <1>1, NotedReflexive
    <3>2. "output_failure" \in Triggers /\ "SESSION_CREATED_ADMISSION" \in SessionFailures
      BY DEF Triggers, SessionFailures
    <3>3. QED  BY <2>2, <3>1, <3>2, NotedStops
  <2>3. QED  BY <1>2, <2>1, <2>2
<1>4. coord \in Working \ {"spawn"} /\ coord' \in Plain
  BY <1>2 DEF Working, Plain
<1>5. QED  BY <1>1, <1>2, <1>3, <1>4, NotedStep

\* Taking an observation is a step of the coordinator at work.
LEMMA Takes ==
  ASSUME SessionInv, NEW kind, Take(kind)
  PROVE  /\ coord \in Working \ {"spawn"} /\ Head(queue).kind = kind
         /\ Watched(ses, proc, coord, task, queue')
         /\ Head(queue) \in Observations
         /\ kind = "EXIT" => ses.acquisition = "child" /\ proc.state # "running"
         /\ kind = "CLEANED" =>
              /\ ses.cleanup = "running" /\ task["cleanup"] = "done"
              /\ \A j \in 1 .. Len(queue') : queue'[j].kind # "CLEANED"
<1>1. Watched(ses, proc, coord, task, queue)
  BY DEF SessionInv
<1>2. /\ coord \in {"take", "waiting"} /\ queue # << >> /\ Head(queue).kind = kind
      /\ queue' = Tail(queue)
  BY DEF Take
<1>3. coord \in Working \ {"spawn"}
  BY <1>2 DEF Working
<1>4. /\ Watched(ses, proc, coord, task, Tail(queue)) /\ Head(queue) \in Observations
      /\ Head(queue).kind = "EXIT" => ses.acquisition = "child" /\ proc.state # "running"
      /\ Head(queue).kind = "CLEANED" =>
           /\ ses.cleanup = "running" /\ task["cleanup"] = "done"
           /\ \A j \in 1 .. Len(Tail(queue)) : Tail(queue)[j].kind # "CLEANED"
  BY <1>1, <1>2, Taken, ZenonT(60)
<1>5. QED  BY <1>2, <1>3, <1>4

\* So is taking one and doing bookkeeping.
LEMMA TakeStep ==
  ASSUME SessionInv, NEW kind, Take(kind), Noted(ses, ses'), coord' \in Plain,
         UNCHANGED <<task, control, proc, world>>
  PROVE  Steady
<1>1. /\ coord \in Working \ {"spawn"} /\ Watched(ses, proc, coord, task, queue')
  BY Takes
<1>2. QED  BY <1>1, NotedStep

\* The end of an output, a signal, a failure and a check of readiness that is due.
LEMMA HandleFactsKeeps ==
  ASSUME SessionInv, HandleEOF \/ HandleSignal \/ HandleFailure \/ HandleReadiness
  PROVE  Steady
<1>1. Formed(ses)
  BY DEF SessionInv, Core
<1>2. Noted(ses, ses)
  BY <1>1, NotedReflexive
<1>3. "yielded" \in Plain /\ "ready" \in Plain /\ "ready deadline" \in Plain
  BY DEF Plain
<1>4. CASE HandleEOF
  <2>1. PICK admits \in Admissions :
          /\ ses' = Stop(Account(ses, admits), "controller_eof", NoFailure)
          /\ coord' = "yielded"
    BY <1>4 DEF HandleEOF, Goto
  <2>2. Noted(ses, Account(ses, admits))
    BY SessionAccounts
  <2>3. "controller_eof" \in Triggers
    BY DEF Triggers
  <2>4. Noted(ses, ses')
    BY <2>1, <2>2, <2>3, NotedStops
  <2>5. QED  BY <1>3, <1>4, <2>1, <2>4, TakeStep DEF HandleEOF
<1>5. CASE HandleSignal
  <2>1. PICK admits \in Admissions :
          ses' = Account(ses, admits) /\ coord' = "yielded"
    BY <1>5 DEF HandleSignal, Goto
  <2>2. Noted(ses, ses')
    BY <2>1, SessionAccounts
  <2>3. QED  BY <1>3, <1>5, <2>1, <2>2, TakeStep DEF HandleSignal
<1>6. CASE HandleFailure
  <2>1. PICK admits \in Admissions :
          /\ ses' = ObservationFailed(ses, Head(queue).src, admits)
          /\ coord' = "yielded"
    BY <1>6 DEF HandleFailure, Goto
  <2>2. Head(queue).src \in Tasks
    BY <1>6, Takes DEF HandleFailure, Observations
  <2>3. Noted(ses, ses')
    BY <1>1, <2>1, <2>2, FailureHeard
  <2>4. QED  BY <1>3, <1>6, <2>1, <2>3, TakeStep DEF HandleFailure
<1>7. CASE HandleReadiness
  <2>1. /\ coord' \in {"yielded", "ready", "ready deadline"}
        /\ UNCHANGED <<ses, task, control, proc, world>>
        /\ Take("POLL") \/ Take("DEADLINE")
    BY <1>7 DEF HandleReadiness
  <2>2. QED  BY <1>2, <1>3, <2>1, TakeStep
<1>8. QED  BY <1>4, <1>5, <1>6, <1>7

\* The child's output is forwarded to the client.
LEMMA HandleOutputKeeps ==
  ASSUME SessionInv, HandleOutput
  PROVE  Steady
<1>1. Formed(ses)
  BY DEF SessionInv, Core
<1>2. PICK fragment \in BOOLEAN, admitted \in Admissions :
        LET s == IF ~fragment \/ ~ses.outputAvailable THEN ses
                 ELSE IF admitted
                 THEN [ses EXCEPT !.order = Order!ChildOutputRelayed(@)]
                 ELSE Stop([ses EXCEPT !.outputAvailable = FALSE],
                           "output_failure", "CHILD_OUTPUT_ADMISSION")
            ended == {Head(queue).src} \cap
                     (IF Head(queue).kind = "OUTEOF" THEN Streams ELSE {})
        IN  Goto(IF ses.child THEN [s EXCEPT !.finished = @ \cup ended] ELSE ses,
                 "yielded")
  BY DEF HandleOutput
<1> DEFINE order  == Order!ChildOutputRelayed(ses.order)
           silent == [ses EXCEPT !.outputAvailable = FALSE]
           s      == IF ~fragment \/ ~ses.outputAvailable THEN ses
                     ELSE IF admitted THEN [ses EXCEPT !.order = order]
                     ELSE Stop(silent, "output_failure", "CHILD_OUTPUT_ADMISSION")
           ended  == {Head(queue).src} \cap
                     (IF Head(queue).kind = "OUTEOF" THEN Streams ELSE {})
<1>3. ses' = (IF ses.child THEN [s EXCEPT !.finished = @ \cup ended] ELSE ses)
      /\ coord' = "yielded"
  BY <1>2 DEF Goto
<1>4. Noted(ses, s)
  <2>1. Noted(ses, ses)
    BY <1>1, NotedReflexive
  <2>2. Noted(ses, [ses EXCEPT !.order = order])
    <3>1. /\ DOMAIN order = EventFields /\ order.ready = ses.order.ready
          /\ Delivered(ses.order) => Delivered(order)
      BY <1>1 DEF Formed, Order!ChildOutputRelayed, Order!Judge, EventFields, Delivered
    <3> HIDE DEF order
    <3>2. QED  BY <1>1, <3>1, Events
  <2>3. Noted(ses, Stop(silent, "output_failure", "CHILD_OUTPUT_ADMISSION"))
    <3>1. /\ DOMAIN silent = SessionFields
          /\ \A f \in SessionFields \ Inessential : silent[f] = ses[f]
      BY <1>1 DEF Formed, Inessential
    <3>2. "output_failure" \in Triggers /\ "CHILD_OUTPUT_ADMISSION" \in SessionFailures
      BY DEF Triggers, SessionFailures
    <3> HIDE DEF silent
    <3>3. Noted(ses, silent)
      BY <1>1, <3>1, Keeps
    <3>4. QED  BY <3>2, <3>3, NotedStops
  <2> HIDE DEF order, silent
  <2>4. QED  BY <2>1, <2>2, <2>3
<1> HIDE DEF s, ended
<1>5. Noted(ses, ses')
  <2> DEFINE u == [s EXCEPT !.finished = @ \cup ended]
  <2>1. Formed(s)
    BY <1>4 DEF Noted
  <2> DEFINE finished == s.finished \cup ended
  <2>2. finished \in SUBSET Streams /\ u = [s EXCEPT !.finished = finished]
    BY <2>1 DEF Formed, ended
  <2>3. ses' = (IF ses.child THEN u ELSE ses)
    BY <1>3
  <2> HIDE DEF u, finished
  <2>4. Noted(ses, u)
    BY <1>4, <2>1, <2>2, Finishes, NotedTransitive
  <2>5. QED  BY <1>1, <2>3, <2>4, NotedReflexive
<1>6. QED  BY <1>3, <1>5, TakeStep DEF HandleOutput, Plain

\* The log's growth, its end and its deadline.
LEMMA HandleLogKeeps ==
  ASSUME SessionInv, HandleLog \/ HandleLogDeadline
  PROVE  Steady
<1>1. Formed(ses)
  BY DEF SessionInv, Core
<1>2. CASE HandleLog
  <2>1. PICK admits \in Admissions :
          LET taken == [ses EXCEPT !.relay =
                          CASE Head(queue).kind = "LOG"    -> Relay!Accept(@, <<"b">>)
                            [] Head(queue).kind = "LOGEOF" -> Relay!AcceptEOF(@)
                            [] OTHER                       -> @]
          IN  Goto(LogProgress(taken, admits), "yielded")
    BY <1>2 DEF HandleLog
  <2> DEFINE relay == CASE Head(queue).kind = "LOG"    -> Relay!Accept(ses.relay, <<"b">>)
                        [] Head(queue).kind = "LOGEOF" -> Relay!AcceptEOF(ses.relay)
                        [] OTHER                       -> ses.relay
             taken == [ses EXCEPT !.relay = relay]
  <2>2. ses' = LogProgress(taken, admits) /\ coord' = "yielded"
    BY <2>1 DEF Goto
  <2> HIDE DEF relay
  <2>3. Noted(ses, taken)
    BY <1>1, RelayTurns
  <2> HIDE DEF taken
  <2>4. Noted(taken, ses')
    BY <2>2, <2>3, LogProgresses DEF Noted
  <2>5. Noted(ses, ses')
    BY <2>3, <2>4, NotedTransitive
  <2>6. QED  BY <1>2, <2>2, <2>5, TakeStep DEF HandleLog, Plain
<1>3. CASE HandleLogDeadline
  <2>1. /\ ses' = [ses EXCEPT !.relay = Relay!Decide(ses.relay, TRUE, TRUE)]
        /\ coord' = "yielded"
    BY <1>3 DEF HandleLogDeadline, Goto
  <2>2. Noted(ses, ses')
    BY <1>1, <2>1, RelayTurns
  <2>3. QED  BY <1>3, <2>1, <2>2, TakeStep DEF HandleLogDeadline, Plain
<1>4. QED  BY <1>2, <1>3

\* The deadline of the child's streams after its exit.
LEMMA HandleDrainKeeps ==
  ASSUME SessionInv, HandleDrain
  PROVE  Steady
<1>1. Formed(ses)
  BY DEF SessionInv, Core
<1> DEFINE s == CleanupFails(ses)
           t == [s EXCEPT !.finished = world.streams]
<1>2. ses' \in {ses, t} /\ coord' = "yielded"
  BY DEF HandleDrain, Goto
<1>3. Noted(ses, s) /\ Formed(s)
  <2>1. "helper_failure" \in Triggers /\ "CLEANUP_FAILURE" \in SessionFailures
    BY DEF Triggers, SessionFailures
  <2>2. Noted(ses, ses)
    BY <1>1, NotedReflexive
  <2>3. QED  BY <2>1, <2>2, NotedStops DEF CleanupFails, Noted
<1> HIDE DEF s
<1>4. Noted(ses, t)
  <2>1. world.streams \in SUBSET Streams
    BY SessionConstants DEF SessionInv, World
  <2>2. QED  BY <1>3, <2>1, Finishes, NotedTransitive
<1> HIDE DEF t
<1>5. Noted(ses, ses')
  BY <1>1, <1>2, <1>4, NotedReflexive
<1>6. QED  BY <1>2, <1>5, TakeStep DEF HandleDrain, Plain

----------------------------------------------------------------------------
\* Readiness and the child's exit

\* Tasks may be started or cancelled where that kind of task may run.
LEMMA Rewatched ==
  ASSUME NEW s, NEW p, NEW c, NEW tk, NEW q, Watched(s, p, c, tk, q),
         NEW new \in [Tasks -> TaskStates],
         \A t \in Tasks : new[t] \in {tk[t], "on", "done"},
         new["cleanup"] \in {tk["cleanup"], "done"},
         s.acquisition # "child" \/ Settled(s, c) =>
           \A t \in ChildTasks : new[t] \in {tk[t], "done"}
  PROVE  Watched(s, p, c, new, q)
<1>1. ChildTasks \subseteq Tasks /\ "cleanup" \in Tasks
  BY DEF ChildTasks, Tasks
<1>2. \A t \in Tasks : /\ new[t] = "EXIT" => tk[t] = "EXIT"
                       /\ new[t] = "CLEANED" => tk[t] = "CLEANED"
  OBVIOUS
<1>3. QED  BY <1>1, <1>2 DEF Watched

\* Cancelling tasks makes them done.
LEMMA CancelledTasks ==
  ASSUME Watched(ses, proc, coord, task, queue), NEW ts
  PROVE  /\ Cancelled(ts) \in [Tasks -> TaskStates]
         /\ \A t \in Tasks : Cancelled(ts)[t] \in {task[t], "done"}
  BY DEF Watched, Cancelled, TaskStates

\* Starting tasks makes them run.
LEMMA StartedTasks ==
  ASSUME Watched(ses, proc, coord, task, queue), NEW ts
  PROVE  /\ Started(ts) \in [Tasks -> TaskStates]
         /\ \A t \in Tasks : Started(ts)[t] = IF t \in ts THEN "on" ELSE task[t]
  BY DEF Watched, Started, TaskStates

\* The exit of the child that the session owns is recorded.
LEMMA ExitKeeps ==
  ASSUME NEW s, NEW p, NEW w, Core(s, w), Supervised(s, p, w), s.child,
         s.lc.phase # "Closed", p.state # "running"
  PROVE  LET t == RecordExit(s, p) IN
         /\ Core(t, w) /\ Supervised(t, p, w) /\ LcOnly(s, t) /\ LcSound(t.lc)
         /\ AtWork(s) => AtWork(t)
         /\ t.lc.phase # "Closed" /\ (Ended(s.lc) => Ended(t.lc))
<1> DEFINE t == RecordExit(s, p)
<1>1. /\ Formed(s) /\ s.lc.attempt.stage = "owned" /\ p \in Processes
      /\ s.acquisition = "child" /\ s.acquired
  BY DEF Core, Staged, Supervised
<1>2. InProduction(s.lc)
  BY <1>1 DEF InProduction
<1>3. LcOnly(s, t) /\ Exited(s.lc, t.lc, p.requested)
  BY <1>1, <1>2, ExitRecorded DEF Supervised
<1> HIDE DEF t
<1>4. /\ Formed(t) /\ SameHoldings(s, t) /\ t.failures = s.failures
      /\ t.sigAccounted = s.sigAccounted /\ t.leaseAccounted = s.leaseAccounted
  BY <1>1, <1>3, LcOnlyHolds DEF Exited
<1>5. Core(t, w)
  <2>1. Accounted(t)
    BY <1>3, <1>4 DEF Core, Accounted, Exited
  <2>2. t.lc.phase # "Created" /\ t.lc.attempt.stage = "owned"
    BY <1>1, <1>3 DEF Core, Staged, Exited
  <2>3. Staged(t, w)
    BY <1>1, <1>4, <2>2 DEF Core, Staged, SameHoldings
  <2>4. Owned(t)
    BY <1>4 DEF Core, Owned, SameHoldings, ChildDisposed
  <2>5. QED  BY <1>4, <2>1, <2>3, <2>4 DEF Core
<1>6. Supervised(t, p, w)
  <2>1. t.lc.phase = "Starting" => s.lc.phase = "Starting"
    BY <1>3 DEF Exited
  <2>2. t.lc.phase = "Starting" =>
          t.lc.required = s.lc.required /\ t.lc.evidence = s.lc.evidence
    BY <1>3 DEF Exited, Ended
  <2>3. t.lc.attempt.result.seen /\ t.lc.attempt.result.requested = p.requested
    BY <1>3 DEF Exited, Supervised
  <2>4. QED  BY <1>4, <2>1, <2>2, <2>3 DEF Supervised, SameHoldings, ChildDisposed
<1>7. t.lc.phase # "Closed" /\ (Ended(s.lc) => Ended(t.lc)) /\ LcSound(t.lc)
  BY <1>3 DEF Exited
<1>8. AtWork(s) => AtWork(t)
  BY <1>1, <1>4, <1>7 DEF AtWork, SameHoldings
<1>9. QED  BY <1>3, <1>5, <1>6, <1>7, <1>8 DEF t

\* The evidence that the artifact holds is read.
LEMMA EvidenceKeeps ==
  ASSUME NEW s, NEW w, Core(s, w), Supervised(s, proc, w)
  PROVE  LET e == ReadEvidence(s) IN
         /\ Core(e, w) /\ Supervised(e, proc, w) /\ LcOnly(s, e) /\ LcSound(e.lc)
         /\ AtWork(s) => AtWork(e)
         /\ e.lc.phase = s.lc.phase /\ e.lc.required = s.lc.required
<1> DEFINE e == ReadEvidence(s)
<1>1. Formed(s) /\ LcSound(s.lc) /\ s.lc \in Lifecycles /\ proc \in Processes
  BY DEF Core, Formed, LcSound, Supervised
<1>2. CASE ~AwaitsReadiness(s.lc)
  <2>1. e = s
    BY <1>2 DEF ReadEvidence
  <2>2. LcOnly(s, s)
    BY <1>1 DEF LcOnly, Formed
  <2>3. QED  BY <1>1, <2>1, <2>2
<1>3. CASE AwaitsReadiness(s.lc)
  <2> DEFINE evidence == s.lc.evidence \cup (s.lc.required \cap proc.artifact)
  <2>1. e = [s EXCEPT !.lc = [s.lc EXCEPT !.evidence = evidence]]
    BY <1>1, <1>3 DEF ReadEvidence, Formed, SessionFields
  <2>2. LcOnly(s, e) /\ e.lc = [s.lc EXCEPT !.evidence = evidence]
    BY <1>1, <2>1 DEF LcOnly, Formed, SessionFields
  <2>3. evidence \in SUBSET Evidence
    BY <1>1 DEF Lifecycles
  <2> HIDE DEF evidence, e
  <2>4. /\ e.lc \in Lifecycles /\ e.lc.evidence = evidence
        /\ e.lc.phase = s.lc.phase /\ e.lc.required = s.lc.required
        /\ e.lc.attempt = s.lc.attempt /\ e.lc.outcome = s.lc.outcome
        /\ e.lc.local = s.lc.local
    BY <1>1, <2>2, <2>3 DEF Lifecycles
  <2>5. s.lc.phase = "Starting" /\ s.lc.attempt.stage = "owned"
    BY <1>3 DEF AwaitsReadiness
  <2>6. LcSound(e.lc) /\ Codes(e.lc) = Codes(s.lc)
    BY <1>1, <2>4, <2>5 DEF LcSound, Ended, Codes, Told
  <2>7. /\ Formed(e) /\ SameHoldings(s, e)
        /\ e.sigAccounted = s.sigAccounted /\ e.leaseAccounted = s.leaseAccounted
    BY <1>1, <2>2, <2>6, LcOnlyHolds
  <2>8. Core(e, w)
    <3>1. Accounted(e)
      BY <2>6, <2>7 DEF Core, Accounted
    <3>2. Staged(e, w)
      BY <2>4, <2>5, <2>7 DEF Core, Staged, SameHoldings, Ended
    <3>3. Owned(e)
      BY <2>7 DEF Core, Owned, SameHoldings, ChildDisposed
    <3>4. QED  BY <2>7, <3>1, <3>2, <3>3 DEF Core
  <2>9. Supervised(e, proc, w)
    <3>1. evidence \subseteq s.lc.evidence \cup proc.artifact
      BY DEF evidence
    <3>2. QED  BY <2>4, <2>5, <2>7, <3>1 DEF Supervised, SameHoldings, ChildDisposed, Ended
  <2>10. AtWork(s) => AtWork(e)
    BY <2>4, <2>7 DEF AtWork, SameHoldings
  <2>11. QED  BY <2>2, <2>4, <2>6, <2>8, <2>9, <2>10 DEF e
<1>4. QED  BY <1>2, <1>3

\* What the coordinator does after a check of readiness is bookkeeping.
LEMMA ReadinessDecided ==
  ASSUME NEW s, NEW t, Noted(s, t)
  PROVE  Noted(s, AfterReady(t))
<1>1. "startup_failure" \in Triggers /\ "READINESS_TIMEOUT" \in SessionFailures
  BY DEF Triggers, SessionFailures
<1>2. QED  BY <1>1, NotedStops DEF AfterReady

\* _ready checks the evidence, records what was learned meanwhile and decides
\* whether READY may still be committed.
LEMMA CheckReadyKeeps ==
  ASSUME SessionInv, CheckReady
  PROVE  Steady
<1>1. PICK admits \in Admissions, unreadable \in May("artifact") :
        LET a == Account(ses, admits)
            e == ReadEvidence(a)
        IN  IF a.lc.phase # "Starting" \/ ~a.child
            THEN Goto(AfterReady(a), "yielded") /\ UNCHANGED proc
            ELSE IF unreadable /\ a.lc.required # {}
            THEN /\ Goto(AfterReady(Stop(a, "helper_failure", "READINESS_ARTIFACT_FAILURE")),
                         "yielded")
                 /\ UNCHANGED proc
            ELSE IF ~AwaitsReadiness(e.lc) \/ ~(e.lc.required \subseteq e.lc.evidence)
            THEN Goto(AfterReady(e), "yielded") /\ UNCHANGED proc
            ELSE IF proc.state # "running"
            THEN /\ Goto(AfterReady(RecordExit(e, proc)), "yielded")
                 /\ proc' = [proc EXCEPT !.observed = TRUE]
            ELSE /\ Goto(e, IF coord = "ready" THEN "commit" ELSE "commit deadline")
                 /\ UNCHANGED proc
  BY Zenon DEF CheckReady
<1>2. /\ coord \in {"ready", "ready deadline"} /\ UNCHANGED <<queue, task, control, world>>
  BY DEF CheckReady
<1> DEFINE a == Account(ses, admits)
           e == ReadEvidence(a)
           x == RecordExit(e, proc)
           f == Stop(a, "helper_failure", "READINESS_ARTIFACT_FAILURE")
<1>3. /\ Core(ses, world) /\ Placed(ses, proc, world, coord) /\ Supervised(ses, proc, world)
      /\ Watched(ses, proc, coord, task, queue)
  BY DEF SessionInv
<1>4. /\ coord \in Working \ {"spawn"} /\ "yielded" \in Plain
  BY <1>2 DEF Working, Plain
<1>5. Noted(ses, a) /\ Formed(a)
  BY SessionAccounts
<1>6. Core(a, world) /\ Supervised(a, proc, world) /\ AtWork(a)
  BY <1>3, <1>4, <1>5, NotedCore, NotedSupervised, PlacedAtWork, NotedAtWork
<1>7. /\ Core(e, world) /\ Supervised(e, proc, world) /\ LcOnly(a, e) /\ AtWork(e)
      /\ e.lc.phase = a.lc.phase /\ LcSound(e.lc)
  <2> HIDE DEF a
  <2>1. QED  BY <1>6, EvidenceKeeps
<1> HIDE DEF a, e
<1>8. /\ Formed(e) /\ SameHoldings(a, e) /\ e.leaseLost = a.leaseLost
      /\ e.order = a.order
  BY <1>5, <1>7, LcOnlyHolds
<1>9. /\ e.acquisition = ses.acquisition /\ e.cleanup = ses.cleanup /\ e.child = a.child
      /\ e.attemptFinished = ses.attemptFinished /\ e.leaseLost = ses.leaseLost
      /\ e.order.ready = ses.order.ready
  BY <1>5, <1>8 DEF Noted, SameHoldings
<1>10. Watched(e, proc, coord, task, queue)
  BY <1>3, <1>9, WatchedOn
<1>11. CASE a.lc.phase # "Starting" \/ ~a.child
  <2>1. ses' = AfterReady(a) /\ coord' = "yielded" /\ UNCHANGED proc
    BY <1>1, <1>11 DEF a, Goto
  <2>2. Noted(ses, ses')
    BY <1>5, <2>1, ReadinessDecided
  <2>3. QED  BY <1>2, <1>3, <1>4, <2>1, <2>2, NotedStep
<1>12. CASE ~(a.lc.phase # "Starting" \/ ~a.child) /\ unreadable /\ a.lc.required # {}
  <2>1. ses' = AfterReady(f) /\ coord' = "yielded" /\ UNCHANGED proc
    BY <1>1, <1>12 DEF a, Goto
  <2>2. Noted(ses, f)
    <3>1. "helper_failure" \in Triggers /\ "READINESS_ARTIFACT_FAILURE" \in SessionFailures
      BY DEF Triggers, SessionFailures
    <3>2. QED  BY <1>5, <3>1, NotedStops
  <2> HIDE DEF f
  <2>3. Noted(ses, ses')
    BY <2>1, <2>2, ReadinessDecided
  <2>4. QED  BY <1>2, <1>3, <1>4, <2>1, <2>3, NotedStep
<1>13. CASE /\ ~(a.lc.phase # "Starting" \/ ~a.child) /\ ~(unreadable /\ a.lc.required # {})
            /\ ~AwaitsReadiness(e.lc) \/ ~(e.lc.required \subseteq e.lc.evidence)
  <2>1. ses' = AfterReady(e) /\ coord' = "yielded" /\ UNCHANGED proc
    BY <1>1, <1>13 DEF a, e, Goto
  <2>2. Noted(e, ses')
    BY <1>8, <2>1, NotedReflexive, ReadinessDecided
  <2>3. QED  BY <1>2, <1>4, <1>7, <1>9, <1>10, <2>1, <2>2, NotedFrom DEF Steady
<1>14. CASE /\ ~(a.lc.phase # "Starting" \/ ~a.child) /\ ~(unreadable /\ a.lc.required # {})
            /\ ~(~AwaitsReadiness(e.lc) \/ ~(e.lc.required \subseteq e.lc.evidence))
            /\ proc.state # "running"
  <2>1. /\ ses' = AfterReady(x) /\ coord' = "yielded"
        /\ proc' = [proc EXCEPT !.observed = TRUE]
    BY <1>1, <1>14 DEF a, e, Goto
  <2>2. /\ Core(x, world) /\ Supervised(x, proc, world) /\ LcOnly(e, x) /\ LcSound(x.lc)
        /\ AtWork(x)
    BY <1>7, <1>9, <1>14, ExitKeeps
  <2> HIDE DEF x
  <2>3. /\ Formed(x) /\ SameHoldings(e, x) /\ x.leaseLost = e.leaseLost
        /\ x.order = e.order
    BY <1>8, <2>2, LcOnlyHolds
  <2>4. Supervised(x, proc', world) /\ proc'.state # "running"
    BY <1>14, <2>1, <2>2 DEF Supervised, Processes, Quiet
  <2>5. Watched(x, proc', coord, task, queue)
    <3>1. /\ x.acquisition = e.acquisition /\ x.cleanup = e.cleanup
          /\ x.attemptFinished = e.attemptFinished
      BY <2>3 DEF SameHoldings
    <3>2. QED  BY <1>10, <2>4, <3>1, WatchedOn
  <2>6. Noted(x, ses')
    BY <2>1, <2>3, NotedReflexive, ReadinessDecided
  <2>7. QED  BY <1>2, <1>4, <1>9, <2>1, <2>2, <2>3, <2>4, <2>5, <2>6, NotedFrom DEF Steady
<1>15. CASE /\ ~(a.lc.phase # "Starting" \/ ~a.child) /\ ~(unreadable /\ a.lc.required # {})
            /\ ~(~AwaitsReadiness(e.lc) \/ ~(e.lc.required \subseteq e.lc.evidence))
            /\ proc.state = "running"
  <2>1. ses' = e /\ coord' \in {"commit", "commit deadline"} /\ UNCHANGED proc
    BY <1>1, <1>15 DEF a, e, Goto
  <2>2. e.child /\ ~proc.observed /\ e.lc.required \subseteq e.lc.evidence
    BY <1>7, <1>9, <1>15 DEF Supervised
  <2>3. Placed(e, proc, world, coord')
    BY <1>7, <2>1, <2>2 DEF AtWork, Placed, Working, Ending, Late
  <2>4. Watched(e, proc, coord', task, queue)
    BY <1>10, <2>1, WatchedOn
  <2>5. QED  BY <1>2, <1>7, <1>9, <2>1, <2>3, <2>4, CoordinatorStep
             DEF Steady
<1>16. QED  BY <1>11, <1>12, <1>13, <1>14, <1>15

\* READY is admitted, or the request does not wait for it any more.
LEMMA ReadyAdmitted ==
  ASSUME NEW l, LcSound(l), l.phase # "Closed"
  PROVE  LET m == Ready(l, TRUE, TRUE) IN
         /\ LcSound(m) /\ Codes(m) = Codes(l) /\ m.attempt = l.attempt
         /\ m.required = l.required
         /\ m.evidence \in {l.evidence, {}}
         /\ m.phase = l.phase \/ (l.phase = "Starting" /\ m.phase = "Active")
<1> DEFINE m == Ready(l, TRUE, TRUE)
<1>1. CASE ~AwaitsReadiness(l) \/ ~(l.required \subseteq l.evidence)
  BY <1>1 DEF Ready
<1>2. CASE ~(~AwaitsReadiness(l) \/ ~(l.required \subseteq l.evidence))
  <2>1. m = [l EXCEPT !.phase = "Active", !.evidence = {}] /\ l.phase = "Starting"
    BY <1>2 DEF Ready, AwaitsReadiness
  <2>2. l \in Lifecycles
    BY DEF LcSound
  <2>3. /\ m \in Lifecycles /\ m.phase = "Active" /\ m.evidence = {}
        /\ m.attempt = l.attempt /\ m.required = l.required
        /\ m.outcome = l.outcome /\ m.local = l.local
    BY <2>1, <2>2 DEF Lifecycles, Phases
  <2> HIDE DEF m
  <2>4. LcSound(m) /\ Codes(m) = Codes(l)
    BY <2>1, <2>3 DEF LcSound, Ended, Codes, Told
  <2>5. QED  BY <2>1, <2>3, <2>4 DEF m
<1>3. QED  BY <1>1, <1>2

\* READY is committed unless the session has been ended in between.
LEMMA CommitReadyKeeps ==
  ASSUME SessionInv, CommitReady
  PROVE  SessionInv'
<1>1. PICK admits \in Admissions, admitted \in Admissions :
        LET a == Account(ses, admits) IN
        IF a.lc.phase # "Starting" THEN Goto(AfterReady(a), "yielded") /\ UNCHANGED task
        ELSE IF ~admitted
        THEN /\ Goto(AfterReady(Stop(a, "output_failure", "READY_ADMISSION")), "yielded")
             /\ UNCHANGED task
        ELSE /\ Goto([a EXCEPT !.order = Order!ReadyReported(@),
                               !.lc = Ready(@, TRUE, TRUE)], "yielded")
             /\ task' = Cancelled({"readiness"})
  BY Zenon DEF CommitReady
<1>2. /\ coord \in {"commit", "commit deadline"} /\ UNCHANGED <<queue, control, proc, world>>
  BY DEF CommitReady
<1> DEFINE a == Account(ses, admits)
           f == Stop(a, "output_failure", "READY_ADMISSION")
           t == [a EXCEPT !.order = Order!ReadyReported(a.order),
                          !.lc = Ready(a.lc, TRUE, TRUE)]
<1>3. /\ Core(ses, world) /\ Placed(ses, proc, world, coord) /\ Supervised(ses, proc, world)
      /\ Watched(ses, proc, coord, task, queue)
  BY DEF SessionInv
<1>4. /\ coord \in Working \ {"spawn"} /\ "yielded" \in Plain
  BY <1>2 DEF Working, Plain
<1>5. Noted(ses, a) /\ Formed(a)
  BY SessionAccounts
<1> HIDE DEF a
<1>6. Core(a, world) /\ Supervised(a, proc, world) /\ AtWork(a)
  BY <1>3, <1>4, <1>5, NotedCore, NotedSupervised, PlacedAtWork, NotedAtWork
<1>7. CASE a.lc.phase # "Starting"
  <2>1. ses' = AfterReady(a) /\ coord' = "yielded" /\ UNCHANGED task
    BY <1>1, <1>7 DEF a, Goto
  <2>2. Noted(ses, ses')
    BY <1>5, <2>1, ReadinessDecided
  <2>3. QED  BY <1>2, <1>3, <1>4, <2>1, <2>2, NotedStep DEF Steady
<1>8. CASE a.lc.phase = "Starting" /\ ~admitted
  <2>1. ses' = AfterReady(f) /\ coord' = "yielded" /\ UNCHANGED task
    BY <1>1, <1>8 DEF a, Goto
  <2>2. Noted(ses, f)
    <3>1. "output_failure" \in Triggers /\ "READY_ADMISSION" \in SessionFailures
      BY DEF Triggers, SessionFailures
    <3>2. QED  BY <1>5, <3>1, NotedStops
  <2> HIDE DEF f
  <2>3. Noted(ses, ses')
    BY <2>1, <2>2, ReadinessDecided
  <2>4. QED  BY <1>2, <1>3, <1>4, <2>1, <2>3, NotedStep DEF Steady
<1>9. CASE a.lc.phase = "Starting" /\ admitted
  <2>1. ses' = t /\ coord' = "yielded" /\ task' = Cancelled({"readiness"})
    BY <1>1, <1>9 DEF a, Goto
  <2>2. /\ DOMAIN t = SessionFields /\ t.lc = Ready(a.lc, TRUE, TRUE)
        /\ t.order = Order!ReadyReported(a.order)
        /\ \A f1 \in SessionFields \ {"lc", "order"} : t[f1] = a[f1]
    BY <1>5 DEF Formed, SessionFields
  <2> HIDE DEF t
  <2>3. /\ SameHoldings(a, t) /\ t.failures = a.failures /\ t.finished = a.finished
        /\ t.sigAccounted = a.sigAccounted /\ t.leaseAccounted = a.leaseAccounted
        /\ t.leaseLost = a.leaseLost
    BY <2>2 DEF SessionFields, SameHoldings
  <2>4. LcSound(a.lc)
    BY <1>5 DEF Formed
  <2>5. /\ LcSound(t.lc) /\ Codes(t.lc) = Codes(a.lc) /\ t.lc.attempt = a.lc.attempt
        /\ t.lc.required = a.lc.required /\ t.lc.evidence \in {a.lc.evidence, {}}
        /\ t.lc.phase \in {"Starting", "Active"}
    <3> DEFINE l == a.lc
               m == Ready(l, TRUE, TRUE)
    <3>1. LcSound(l) /\ l.phase # "Closed" /\ m = t.lc
      BY <1>9, <2>2, <2>4
    <3> HIDE DEF l
    <3>2. /\ LcSound(m) /\ Codes(m) = Codes(l) /\ m.attempt = l.attempt
          /\ m.required = l.required /\ m.evidence \in {l.evidence, {}}
          /\ m.phase = l.phase \/ m.phase = "Active"
      BY <3>1, ReadyAdmitted
    <3> HIDE DEF m
    <3>3. QED  BY <1>9, <3>1, <3>2 DEF l
  <2>6. DOMAIN t.order = EventFields
    BY <1>5, <2>2 DEF Formed, Order!ReadyReported, Order!Judge, EventFields
  <2>7. Formed(t)
    BY <1>5, <2>2, <2>3, <2>5, <2>6 DEF Formed
  <2>8. Core(t, world)
    <3>1. Accounted(t)
      BY <1>6, <2>3, <2>5 DEF Core, Accounted
    <3>2. Staged(t, world)
      BY <1>6, <1>9, <2>3, <2>5 DEF Core, Staged, SameHoldings, Ended
    <3>3. Owned(t)
      BY <1>6, <2>3 DEF Core, Owned, SameHoldings, ChildDisposed
    <3>4. QED  BY <2>7, <3>1, <3>2, <3>3 DEF Core
  <2>9. Supervised(t, proc, world)
    BY <1>6, <1>9, <2>3, <2>5 DEF Supervised, SameHoldings, ChildDisposed, Ended
  <2>10. AtWork(t)
    BY <1>6, <2>3, <2>5 DEF AtWork, SameHoldings
  <2>11. Watched(ses, proc, coord, task', queue)
    <3>1. /\ task' \in [Tasks -> TaskStates]
          /\ \A u \in Tasks : task'[u] \in {task[u], "done"}
      BY <1>3, <2>1, CancelledTasks
    <3>2. ChildTasks \subseteq Tasks /\ "cleanup" \in Tasks
      BY DEF ChildTasks, Tasks
    <3>3. QED  BY <1>3, <3>1, <3>2, Rewatched
  <2>12. Watched(t, proc, coord, task', queue)
    <3>1. /\ t.acquisition = ses.acquisition /\ t.cleanup = ses.cleanup
          /\ t.attemptFinished = ses.attemptFinished
      BY <1>5, <2>3 DEF Noted, SameHoldings
    <3>2. QED  BY <2>11, <3>1, WatchedOn
  <2>13. task'["control"] \in {task["control"], "done"}
    BY <1>3, <2>1, Observer, CancelledTasks
  <2>14. t.leaseLost = ses.leaseLost /\ Noted(t, t)
    BY <1>5, <2>3, <2>7, NotedReflexive DEF Noted
  <2>15. QED  BY <1>2, <1>4, <2>1, <2>8, <2>9, <2>10, <2>12, <2>13, <2>14, NotedFrom
<1>10. QED  BY <1>7, <1>8, <1>9

\* _child_exited records the exit and starts the cleanup.
LEMMA HandleExitKeeps ==
  ASSUME SessionInv, HandleExit
  PROVE  Steady
<1>1. /\ Take("EXIT") /\ coord' = "yielded" /\ UNCHANGED <<task, control, proc, world>>
      /\ ses' = IF ses.child THEN RecordExit(ses, proc) ELSE ses
  BY DEF HandleExit, Goto
<1>2. /\ Core(ses, world) /\ Placed(ses, proc, world, coord) /\ Supervised(ses, proc, world)
      /\ Formed(ses)
  BY DEF SessionInv, Core
<1>3. /\ coord \in Working \ {"spawn"} /\ Watched(ses, proc, coord, task, queue')
      /\ proc.state # "running"
  BY <1>1, Takes
<1>4. CASE ~ses.child
  <2>1. Noted(ses, ses')
    BY <1>1, <1>2, <1>4, NotedReflexive
  <2>2. QED  BY <1>1, <2>1, TakeStep DEF Plain
<1>5. CASE ses.child
  <2> DEFINE s == RecordExit(ses, proc)
  <2>1. AtWork(ses) /\ ses.lc.phase # "Closed"
    BY <1>2, <1>3, PlacedAtWork DEF AtWork
  <2>2. /\ Core(s, world) /\ Supervised(s, proc, world) /\ LcOnly(ses, s) /\ LcSound(s.lc)
        /\ AtWork(s)
    BY <1>2, <1>3, <1>5, <2>1, ExitKeeps
  <2>3. ses' = s
    BY <1>1, <1>5
  <2> HIDE DEF s
  <2>4. /\ Formed(s) /\ SameHoldings(ses, s) /\ s.leaseLost = ses.leaseLost
        /\ s.order = ses.order
    BY <1>2, <2>2, LcOnlyHolds
  <2>5. Watched(s, proc, coord, task, queue')
    <3>1. /\ s.acquisition = ses.acquisition /\ s.cleanup = ses.cleanup
          /\ s.attemptFinished = ses.attemptFinished
      BY <2>4 DEF SameHoldings
    <3>2. QED  BY <1>3, <3>1, WatchedOn
  <2>6. Noted(s, ses')
    BY <2>3, <2>4, NotedReflexive
  <2>7. QED  BY <1>1, <2>2, <2>4, <2>5, <2>6, NotedFrom DEF Plain, Steady
<1>6. QED  BY <1>4, <1>5

\* A cleanup that failed ends the session.
LEMMA CleanupFailureStops ==
  ASSUME NEW s, NEW t, Noted(s, t)
  PROVE  Noted(s, CleanupFails(t)) /\ Ended(CleanupFails(t).lc)
<1>1. "helper_failure" \in Triggers /\ "CLEANUP_FAILURE" \in SessionFailures
  BY DEF Triggers, SessionFailures
<1>2. QED  BY <1>1, NotedStops DEF CleanupFails

\* _group_cleaned adopts what the supervisor found of the group.
LEMMA HandleCleanedKeeps ==
  ASSUME SessionInv, HandleCleaned
  PROVE  Steady
<1> DEFINE stored == [ses EXCEPT !.cleanup = "cleaned"]
           failed == IF proc.disposed THEN stored ELSE CleanupFails(stored)
<1>1. PICK admits \in Admissions : Goto(LogDisposal(failed, proc.disposed, admits), "yielded")
  BY DEF HandleCleaned
<1>2. /\ Take("CLEANED") /\ UNCHANGED <<control, proc, world>>
      /\ task' = [t \in Tasks |->
                    IF t = "drain" /\ ses.finished # world.streams THEN "on"
                    ELSE IF t = "log" /\ ~proc.disposed /\ ses.relay.decision = "none"
                    THEN "done" ELSE task[t]]
  BY DEF HandleCleaned
<1>3. /\ Core(ses, world) /\ Placed(ses, proc, world, coord) /\ Supervised(ses, proc, world)
      /\ Formed(ses)
  BY DEF SessionInv, Core
<1>4. /\ coord \in Working \ {"spawn"} /\ Watched(ses, proc, coord, task, queue')
      /\ ses.cleanup = "running" /\ task["cleanup"] = "done"
      /\ \A j \in 1 .. Len(queue') : queue'[j].kind # "CLEANED"
  BY <1>2, Takes
<1>5. /\ DOMAIN stored = SessionFields /\ stored.cleanup = "cleaned"
      /\ \A f \in SessionFields \ {"cleanup"} : stored[f] = ses[f]
  BY <1>3 DEF Formed, SessionFields
<1> HIDE DEF stored
<1>6. /\ stored.lc = ses.lc /\ stored.order = ses.order /\ stored.failures = ses.failures
      /\ stored.finished = ses.finished
      /\ stored.sigAccounted = ses.sigAccounted
      /\ stored.leaseAccounted = ses.leaseAccounted
      /\ stored.leaseLost = ses.leaseLost
  BY <1>5 DEF SessionFields
<1>7. /\ stored.logOpen = ses.logOpen /\ stored.child = ses.child
      /\ stored.acquired = ses.acquired /\ stored.acquisition = ses.acquisition
      /\ stored.settlement = ses.settlement /\ stored.address = ses.address
      /\ stored.attemptFinished = ses.attemptFinished
      /\ stored.workspace = ses.workspace /\ stored.marker = ses.marker
      /\ stored.status = ses.status
  BY <1>5 DEF SessionFields
<1>8. ses.acquisition = "child" /\ ~Settled(ses, coord)
  BY <1>3, <1>4 DEF Core, Staged, Watched
<1>9. Formed(stored)
  BY <1>3, <1>5, <1>6 DEF Formed
<1>10. Core(stored, world)
  BY <1>3, <1>6, <1>7, <1>8, <1>9 DEF Core, Accounted, Staged, Owned, ChildDisposed
<1>11. Supervised(stored, proc, world)
  BY <1>3, <1>4, <1>5, <1>6, <1>7 DEF Supervised, ChildDisposed
<1>12. AtWork(stored)
  <2>1. AtWork(ses)
    BY <1>3, <1>4, PlacedAtWork
  <2>2. QED  BY <1>6, <1>7, <2>1 DEF AtWork
<1>13. Watched(stored, proc, coord, task', queue')
  <2>1. /\ task' \in [Tasks -> TaskStates]
        /\ \A t \in Tasks : task'[t] \in {task[t], "on", "done"}
        /\ task'["cleanup"] = task["cleanup"]
    BY <1>2, <1>4, Observer DEF Watched, TaskStates
  <2>2. Watched(ses, proc, coord, task', queue')
    BY <1>4, <1>8, <2>1, Rewatched
  <2>3. QED  BY <1>4, <1>5, <1>7, <1>8, <2>1, <2>2 DEF Watched, Settled
<1>14. Noted(stored, failed)
  BY <1>9, NotedReflexive, CleanupFailureStops
<1> HIDE DEF failed
<1>15. ses' = LogDisposal(failed, proc.disposed, admits) /\ coord' = "yielded"
  BY <1>1 DEF Goto
<1>16. Noted(stored, ses')
  BY <1>14, <1>15, LogDisposes, NotedTransitive DEF Noted
<1>17. task'["control"] = task["control"]
  BY <1>2, Observer
<1>18. QED  BY <1>2, <1>6, <1>10, <1>11, <1>12, <1>13, <1>15, <1>16, <1>17, NotedFrom
            DEF Plain, Steady

----------------------------------------------------------------------------
\* The start of an attempt

\* start() begins the attempt's lifecycle and tells no failure.
LEMMA Starts ==
  ASSUME NEW l, LcSound(l), l.phase = "Created", NEW policy \in Policies,
         NEW required \in SUBSET Evidence
  PROVE  LET m == Start(l, policy, required) IN
         /\ LcSound(m) /\ Codes(m) = Codes(l) /\ m.phase = "Starting"
         /\ m.attempt.stage = "authorized" /\ ~m.attempt.requested
         /\ ~m.attempt.result.seen
         /\ m.required = required /\ m.evidence = l.evidence
<1> DEFINE attempt == Attempt("authorized")
           m       == Start(l, policy, required)
<1>1. l \in Lifecycles
  BY DEF LcSound
<1>2. /\ attempt \in Attempts /\ attempt.stage = "authorized" /\ attempt.requested = FALSE
      /\ attempt.result.seen = FALSE
  BY DEF Attempt, Attempts, NoResult, Results, Stages
<1>3. m = [l EXCEPT !.phase = "Starting", !.policy = policy, !.required = required,
                    !.attempt = attempt]
  BY DEF Start
<1> HIDE DEF attempt, m
<1>4. /\ m \in Lifecycles /\ m.phase = "Starting" /\ m.attempt = attempt
      /\ m.required = required /\ m.evidence = l.evidence
      /\ m.outcome = l.outcome /\ m.local = l.local
  BY <1>1, <1>2, <1>3 DEF Lifecycles, Phases
<1>5. LcSound(m) /\ Codes(m) = Codes(l)
  BY <1>4 DEF LcSound, Ended, Codes, Told
<1>6. QED  BY <1>2, <1>4, <1>5 DEF m

\* _start records the request, opens the log and starts the log's tasks.
LEMMA HandleStartKeeps ==
  ASSUME SessionInv, HandleStart
  PROVE  Steady
<1>1. PICK admits \in Admissions, refused \in May("startup"), invalid \in May("startup") :
        LET s == Account(ses, admits)
            b == [s EXCEPT !.started = TRUE,
                           !.lc = Start(@, want.policy, want.required),
                           !.address = ~refused]
        IN  IF s.lc.phase # "Created" THEN Goto(s, "yielded")
            ELSE IF refused \/ invalid
            THEN Goto(Stop(b, "startup_failure", "STARTUP_FAILURE"), "yielded")
            ELSE Goto(b, "entries")
  BY DEF HandleStart
<1>2. Take("START") /\ UNCHANGED <<task, control, proc, world>>
  BY DEF HandleStart
<1> DEFINE s == Account(ses, admits)
           b == [s EXCEPT !.started = TRUE, !.lc = Start(s.lc, want.policy, want.required),
                          !.address = ~refused]
           f == Stop(b, "startup_failure", "STARTUP_FAILURE")
<1>3. /\ Core(ses, world) /\ Placed(ses, proc, world, coord) /\ Supervised(ses, proc, world)
      /\ world \in Worlds
  BY DEF SessionInv
<1>4. /\ coord \in Working \ {"spawn"} /\ Watched(ses, proc, coord, task, queue')
  BY <1>2, Takes
<1>5. Noted(ses, s) /\ Formed(s)
  BY SessionAccounts
<1>6. IF s.lc.phase # "Created" THEN ses' = s /\ coord' = "yielded"
      ELSE IF refused \/ invalid THEN ses' = f /\ coord' = "yielded"
      ELSE ses' = b /\ coord' = "entries"
  BY <1>1 DEF Goto
<1> HIDE DEF s
<1>7. Core(s, world) /\ Supervised(s, proc, world) /\ AtWork(s)
  BY <1>3, <1>4, <1>5, NotedCore, NotedSupervised, PlacedAtWork, NotedAtWork
<1>8. CASE s.lc.phase # "Created"
  BY <1>2, <1>5, <1>6, <1>8, TakeStep DEF Plain
<1>9. CASE s.lc.phase = "Created"
  <2> DEFINE l == s.lc
             m == Start(l, want.policy, want.required)
  <2>1. want.policy \in Policies /\ want.required \in SUBSET Evidence
    BY <1>3, SessionConstants DEF World, want
  <2>2. LcSound(l) /\ l.phase = "Created"
    BY <1>5, <1>9 DEF Formed
  <2>3. /\ LcSound(m) /\ Codes(m) = Codes(l) /\ m.phase = "Starting"
        /\ m.attempt.stage = "authorized" /\ ~m.attempt.requested
        /\ ~m.attempt.result.seen
        /\ m.required = want.required /\ m.evidence = l.evidence
    <3> HIDE DEF l
    <3>1. QED  BY <2>1, <2>2, Starts
  <2>4. /\ DOMAIN b = SessionFields /\ b.lc = m
        /\ \A f1 \in SessionFields \ {"lc", "started", "address"} : b[f1] = s[f1]
    BY <1>5 DEF Formed, SessionFields
  <2> HIDE DEF b, m
  <2>5. /\ b.order = s.order /\ b.failures = s.failures /\ b.finished = s.finished
        /\ b.sigAccounted = s.sigAccounted /\ b.leaseAccounted = s.leaseAccounted
        /\ b.leaseLost = s.leaseLost
    BY <2>4 DEF SessionFields
  <2>6. /\ b.logOpen = s.logOpen /\ b.child = s.child
        /\ b.acquired = s.acquired /\ b.acquisition = s.acquisition
        /\ b.settlement = s.settlement /\ b.cleanup = s.cleanup
        /\ b.attemptFinished = s.attemptFinished
        /\ b.workspace = s.workspace /\ b.marker = s.marker /\ b.status = s.status
    BY <2>4 DEF SessionFields
  <2>7. /\ s.acquisition = "none" /\ ~s.child /\ ~s.acquired /\ s.cleanup = "none"
        /\ l.evidence = {} /\ ~l.attempt.result.seen /\ s.workspace
    BY <1>7, <1>9 DEF Core, Staged, AtWork
  <2>8. Formed(b)
    BY <1>5, <2>3, <2>4, <2>5 DEF Formed
  <2>9. Core(b, world)
    <3>1. Accounted(b)
      BY <1>7, <2>3, <2>4, <2>5 DEF Core, Accounted
    <3>2. Staged(b, world)
      BY <1>7, <2>3, <2>4, <2>6, <2>7 DEF Core, Staged, Ended
    <3>3. Owned(b)
      BY <2>6, <2>7 DEF Owned, ChildDisposed
    <3>4. QED  BY <2>8, <3>1, <3>2, <3>3 DEF Core
  <2>10. Supervised(b, proc, world)
    <3>1. ~proc.requested /\ Quiet(proc) /\ proc.stage = "idle"
      BY <1>7, <1>9, <2>7 DEF Supervised, Ended, ChildDisposed
    <3>2. QED  BY <1>7, <2>3, <2>4, <2>6, <2>7, <3>1 DEF Supervised, ChildDisposed, want
  <2>11. Watched(b, proc, coord, task, queue')
    <3>1. /\ b.acquisition = ses.acquisition /\ b.cleanup = ses.cleanup
          /\ b.attemptFinished = ses.attemptFinished
      BY <1>5, <2>6 DEF Noted, SameHoldings
    <3>2. QED  BY <1>4, <3>1, WatchedOn
  <2>12. AtWork(b) /\ b.leaseLost = ses.leaseLost /\ b.order.ready = ses.order.ready
    BY <1>5, <1>7, <2>3, <2>4, <2>5, <2>6 DEF AtWork, Noted
  <2>13. CASE refused \/ invalid
    <3>1. Noted(b, f)
      <4>1. "startup_failure" \in Triggers /\ "STARTUP_FAILURE" \in SessionFailures
        BY DEF Triggers, SessionFailures
      <4>2. QED  BY <2>8, <4>1, NotedReflexive, NotedStops
    <3>2. ses' = f /\ coord' = "yielded"
      BY <1>6, <1>9, <2>13
    <3>3. QED  BY <1>2, <2>9, <2>10, <2>11, <2>12, <3>1, <3>2, NotedFrom
                DEF Plain, Steady
  <2>14. CASE ~(refused \/ invalid)
    <3>1. ses' = b /\ coord' = "entries"
      BY <1>6, <1>9, <2>14
    <3>2. Placed(b, proc, world, "entries")
      BY <2>3, <2>4, <2>6, <2>7, <2>12 DEF Placed, AtWork, Working, Ending, Late
    <3>3. Watched(b, proc, "entries", task, queue')
      BY <2>11, WatchedOn
    <3>4. QED  BY <1>2, <2>9, <2>10, <2>12, <3>1, <3>2, <3>3, CoordinatorStep
                DEF Steady
  <2>15. QED  BY <2>13, <2>14
<1>10. QED  BY <1>8, <1>9

\* enter_attempt begins production and tells no failure.
LEMMA Enters ==
  ASSUME NEW l, LcSound(l), l.phase = "Starting", l.attempt.stage = "authorized"
  PROVE  LET m == EnterAttempt(l, TRUE) IN
         /\ LcSound(m) /\ Codes(m) = Codes(l) /\ m.phase = "Starting"
         /\ m.attempt.stage = "producing" /\ ~m.attempt.requested
         /\ ~m.attempt.result.seen
         /\ m.required = l.required /\ m.evidence = l.evidence
<1> DEFINE attempt == Attempt("producing")
           m       == EnterAttempt(l, TRUE)
<1>1. l \in Lifecycles
  BY DEF LcSound
<1>2. /\ attempt \in Attempts /\ attempt.stage = "producing" /\ attempt.requested = FALSE
      /\ attempt.result.seen = FALSE
  BY DEF Attempt, Attempts, NoResult, Results, Stages
<1>3. m = [l EXCEPT !.attempt = attempt]
  BY DEF EnterAttempt
<1> HIDE DEF attempt, m
<1>4. /\ m \in Lifecycles /\ m.phase = "Starting" /\ m.attempt = attempt
      /\ m.required = l.required /\ m.evidence = l.evidence
      /\ m.outcome = l.outcome /\ m.local = l.local
  BY <1>1, <1>2, <1>3 DEF Lifecycles
<1>5. LcSound(m) /\ Codes(m) = Codes(l)
  BY <1>4 DEF LcSound, Ended, Codes, Told
<1>6. QED  BY <1>2, <1>4, <1>5 DEF m

\* _create_entries makes the workspace's entries, or ends the session.
LEMMA CreateEntriesKeeps ==
  ASSUME SessionInv, CreateEntries
  PROVE  Steady
<1>1. PICK admits \in Admissions, fails \in May("startup"), admitted \in Admissions :
        LET s == [ses EXCEPT !.readiness = want.policy = "live_server",
                             !.logOpen = want.log /\ ~fails]
            a == Account(s, admits)
        IN  /\ task' = IF s.logOpen THEN Started({"log", "credit"}) ELSE task
            /\ IF fails
               THEN Goto(Stop(s, "startup_failure", "STARTUP_FAILURE"), "yielded")
               ELSE IF a.lc.phase # "Starting" THEN Goto(a, "yielded")
               ELSE IF ~admitted
               THEN Goto(Stop(a, "output_failure", "ATTEMPT_ADMISSION"), "yielded")
               ELSE Goto([a EXCEPT !.order = Order!AttemptMade(@),
                                   !.lc = EnterAttempt(@, TRUE)], "spawn")
  BY Zenon DEF CreateEntries
<1>2. coord = "entries" /\ UNCHANGED <<queue, control, proc, world>>
  BY DEF CreateEntries
<1> DEFINE s == [ses EXCEPT !.readiness = want.policy = "live_server",
                            !.logOpen = want.log /\ ~fails]
           a == Account(s, admits)
           f == Stop(s, "startup_failure", "STARTUP_FAILURE")
           g == Stop(a, "output_failure", "ATTEMPT_ADMISSION")
           t == [a EXCEPT !.order = Order!AttemptMade(a.order),
                          !.lc = EnterAttempt(a.lc, TRUE)]
<1>3. /\ Core(ses, world) /\ Placed(ses, proc, world, coord) /\ Supervised(ses, proc, world)
      /\ Watched(ses, proc, coord, task, queue) /\ world \in Worlds /\ Formed(ses)
  BY DEF SessionInv, Core
<1>4. /\ ses.lc.phase = "Starting" /\ ses.lc.attempt.stage = "authorized"
      /\ ses.acquisition = "none" /\ AtWork(ses)
  BY <1>2, <1>3, PlacedAtWork DEF Placed, Working
<1>5. /\ task' = IF s.logOpen THEN Started({"log", "credit"}) ELSE task
      /\ IF fails THEN ses' = f /\ coord' = "yielded"
         ELSE IF a.lc.phase # "Starting" THEN ses' = a /\ coord' = "yielded"
         ELSE IF ~admitted THEN ses' = g /\ coord' = "yielded"
         ELSE ses' = t /\ coord' = "spawn"
  BY <1>1 DEF Goto
<1>6. /\ DOMAIN s = SessionFields /\ s.logOpen = (want.log /\ ~fails)
      /\ \A f1 \in SessionFields \ {"readiness", "logOpen"} : s[f1] = ses[f1]
  BY <1>3 DEF Formed, SessionFields
<1> HIDE DEF s
<1>7. /\ s.lc = ses.lc /\ s.order = ses.order /\ s.failures = ses.failures
      /\ s.finished = ses.finished
      /\ s.sigAccounted = ses.sigAccounted /\ s.leaseAccounted = ses.leaseAccounted
      /\ s.leaseLost = ses.leaseLost
  BY <1>6 DEF SessionFields
<1>8. /\ s.child = ses.child /\ s.acquired = ses.acquired
      /\ s.acquisition = ses.acquisition
      /\ s.settlement = ses.settlement /\ s.address = ses.address
      /\ s.cleanup = ses.cleanup /\ s.attemptFinished = ses.attemptFinished
      /\ s.workspace = ses.workspace /\ s.marker = ses.marker /\ s.status = ses.status
  BY <1>6 DEF SessionFields
<1>9. Formed(s) /\ Accounted(s)
  BY <1>3, <1>6, <1>7 DEF Formed, Core, Accounted
<1>10. Core(s, world)
  BY <1>3, <1>4, <1>7, <1>8, <1>9 DEF Core, Staged, Owned, ChildDisposed
<1>11. Supervised(s, proc, world) /\ AtWork(s)
  BY <1>3, <1>4, <1>7, <1>8 DEF Supervised, ChildDisposed, AtWork
<1>12. Noted(s, a) /\ Formed(a)
  BY <1>9, Accounts DEF Noted
<1>13. Watched(s, proc, coord, task', queue') /\ task'["control"] = task["control"]
  <2>1. {"log", "credit"} \subseteq SessionTasks /\ SessionTasks \cap ChildTasks = {}
    BY SessionConstants DEF SessionTasks, ChildTasks
  <2>2. /\ task' \in [Tasks -> TaskStates]
        /\ \A u \in Tasks : task'[u] = task[u] \/ (u \in {"log", "credit"} /\ task'[u] = "on")
    BY <1>3, <1>5, StartedTasks DEF Watched
  <2>3. ChildTasks \subseteq Tasks /\ "cleanup" \in ChildTasks /\ "control" \in Tasks
    BY DEF ChildTasks, Tasks, SessionTasks
  <2>4. Watched(ses, proc, coord, task', queue)
    BY <1>3, <2>1, <2>2, <2>3, Rewatched
  <2>5. QED  BY <1>2, <1>8, <2>2, <2>3, <2>4, WatchedOn
<1> HIDE DEF a
<1>14. CASE fails
  <2>1. "startup_failure" \in Triggers /\ "STARTUP_FAILURE" \in SessionFailures
    BY DEF Triggers, SessionFailures
  <2>2. Noted(s, f)
    BY <1>9, <2>1, NotedReflexive, NotedStops
  <2>3. ses' = f /\ coord' = "yielded"
    BY <1>5, <1>14
  <2>4. QED  BY <1>2, <1>7, <1>10, <1>11, <1>13, <2>2, <2>3, NotedFrom
              DEF Plain, Steady
<1>15. CASE ~fails /\ a.lc.phase # "Starting"
  <2>1. ses' = a /\ coord' = "yielded"
    BY <1>5, <1>15
  <2>2. QED  BY <1>2, <1>7, <1>10, <1>11, <1>12, <1>13, <2>1, NotedFrom
              DEF Plain, Steady
<1>16. CASE ~fails /\ a.lc.phase = "Starting" /\ ~admitted
  <2>1. "output_failure" \in Triggers /\ "ATTEMPT_ADMISSION" \in SessionFailures
    BY DEF Triggers, SessionFailures
  <2>2. Noted(s, g)
    BY <1>12, <2>1, NotedStops
  <2>3. ses' = g /\ coord' = "yielded"
    BY <1>5, <1>16
  <2>4. QED  BY <1>2, <1>7, <1>10, <1>11, <1>13, <2>2, <2>3, NotedFrom
              DEF Plain, Steady
<1>17. CASE ~fails /\ a.lc.phase = "Starting" /\ admitted
  <2> DEFINE l == a.lc
             m == EnterAttempt(l, TRUE)
  <2>1. ses' = t /\ coord' = "spawn"
    BY <1>5, <1>17
  <2>2. LcSound(l) /\ l.phase = "Starting" /\ l = s.lc
    BY <1>12, <1>17 DEF Formed, Noted, Later, Ended
  <2>3. /\ LcSound(m) /\ Codes(m) = Codes(l) /\ m.phase = "Starting"
        /\ m.attempt.stage = "producing" /\ ~m.attempt.requested
        /\ ~m.attempt.result.seen
        /\ m.required = l.required /\ m.evidence = l.evidence
    <3>1. l.attempt.stage = "authorized"
      BY <1>4, <1>7, <2>2
    <3> HIDE DEF l
    <3>2. QED  BY <2>2, <3>1, Enters
  <2>4. /\ DOMAIN t = SessionFields /\ t.lc = m /\ t.order = Order!AttemptMade(a.order)
        /\ \A f1 \in SessionFields \ {"lc", "order"} : t[f1] = a[f1]
    BY <1>12 DEF Formed, SessionFields
  <2>5. DOMAIN t.order = EventFields /\ t.order.ready = a.order.ready
    BY <1>12, <2>4 DEF Formed, Order!AttemptMade, Order!Judge, EventFields
  <2> HIDE DEF t, m
  <2>6. /\ SameHoldings(a, t) /\ t.failures = a.failures /\ t.finished = a.finished
        /\ t.sigAccounted = a.sigAccounted /\ t.leaseAccounted = a.leaseAccounted
        /\ t.leaseLost = a.leaseLost
    BY <2>4 DEF SessionFields, SameHoldings
  <2>7. /\ SameHoldings(s, t) /\ t.leaseLost = ses.leaseLost
        /\ t.order.ready = ses.order.ready
    BY <1>7, <1>12, <2>5, <2>6 DEF Noted, SameHoldings
  <2>8. Formed(t)
    BY <1>12, <2>3, <2>4, <2>5, <2>6 DEF Formed
  <2>9. Core(t, world)
    <3>1. Accounted(a)
      BY <1>9, <1>12, NotedAccounted
    <3>2. Accounted(t)
      BY <2>3, <2>4, <2>6, <3>1 DEF Accounted
    <3>3. Staged(t, world)
      BY <1>4, <1>8, <1>10, <2>2, <2>3, <2>4, <2>7 DEF Core, Staged, SameHoldings, Ended
    <3>4. Owned(t)
      BY <1>10, <2>7 DEF Core, Owned, SameHoldings, ChildDisposed
    <3>5. QED  BY <2>8, <3>2, <3>3, <3>4 DEF Core
  <2>10. Supervised(t, proc, world)
    <3>1. ~s.lc.attempt.result.seen /\ s.cleanup = "none"
      BY <1>4, <1>8, <1>10 DEF Core, Staged
    <3>2. QED  BY <1>11, <2>2, <2>3, <2>4, <2>7, <3>1
            DEF Supervised, SameHoldings, ChildDisposed, Ended
  <2>11. Placed(t, proc, world, "spawn")
    <3>1. /\ t.workspace = s.workspace /\ t.acquisition = "none" /\ t.status = s.status
          /\ t.logOpen = want.log
      BY <1>3, <1>4, <1>6, <1>8, <1>17, <2>7, SessionConstants DEF SameHoldings, World, want
    <3>2. s.workspace /\ s.status # 0
      BY <1>11 DEF AtWork
    <3>3. QED  BY <2>3, <2>4, <3>1, <3>2 DEF Placed, Working, Ending, Late, want
  <2>12. Watched(t, proc, "spawn", task', queue')
    <3>1. /\ t.acquisition = s.acquisition /\ t.cleanup = s.cleanup
          /\ t.attemptFinished = s.attemptFinished
      BY <2>7 DEF SameHoldings
    <3>2. QED  BY <1>13, <3>1, WatchedOn
  <2>13. QED  BY <1>2, <1>13, <2>1, <2>7, <2>9, <2>10, <2>11, <2>12, CoordinatorStep
              DEF Steady
<1>18. QED  BY <1>14, <1>15, <1>16, <1>17

\* adopt_attempt makes the spawned child the session's and tells no failure.
LEMMA Adopts ==
  ASSUME NEW l, LcSound(l), l.phase = "Starting", l.attempt.stage = "producing",
         ~l.attempt.result.seen
  PROVE  LET m == AdoptAttempt(l) IN
         /\ LcSound(m) /\ Codes(m) = Codes(l) /\ m.phase \in {"Starting", "Active"}
         /\ m.attempt.stage = "owned" /\ m.attempt.requested = l.attempt.requested
         /\ m.attempt.result = l.attempt.result
         /\ m.required = l.required /\ m.evidence \in {l.evidence, {}}
<1> DEFINE owned == [l EXCEPT !.attempt.stage = "owned"]
           m     == AdoptAttempt(l)
<1>1. l \in Lifecycles /\ l.attempt \in Attempts
  BY DEF LcSound, Lifecycles
<1>2. [l.attempt EXCEPT !.stage = "owned"] \in Attempts
  BY <1>1 DEF Attempts, Stages
<1>3. owned = [l EXCEPT !.attempt = [l.attempt EXCEPT !.stage = "owned"]]
  BY <1>1 DEF Lifecycles
<1>4. m \in {owned, [owned EXCEPT !.phase = "Active", !.evidence = {}]}
  BY <1>1, <1>3 DEF AdoptAttempt, Lifecycles, Attempts
<1> HIDE DEF owned, m
<1>5. /\ owned \in Lifecycles /\ owned.phase = "Starting"
      /\ owned.required = l.required /\ owned.evidence = l.evidence
      /\ owned.outcome = l.outcome /\ owned.local = l.local
      /\ owned.attempt = [l.attempt EXCEPT !.stage = "owned"]
  BY <1>1, <1>2, <1>3 DEF Lifecycles
<1>6. /\ owned.attempt.stage = "owned" /\ owned.attempt.requested = l.attempt.requested
      /\ owned.attempt.result = l.attempt.result
  BY <1>1, <1>5 DEF Attempts
<1>7. /\ m \in Lifecycles /\ m.phase \in {"Starting", "Active"}
      /\ m.required = l.required /\ m.evidence \in {l.evidence, {}}
      /\ m.outcome = l.outcome /\ m.local = l.local /\ m.attempt = owned.attempt
  BY <1>4, <1>5 DEF Lifecycles, Phases
<1>8. LcSound(m) /\ Codes(m) = Codes(l)
  BY <1>7 DEF LcSound, Ended, Codes, Told
<1>9. QED  BY <1>6, <1>7, <1>8 DEF m

\* The spawn succeeds: the session owns a child and starts its observers.
LEMMA SpawnChildKeeps ==
  ASSUME SessionInv, SpawnChild
  PROVE  Steady
<1> DEFINE s == [ses EXCEPT !.marker = TRUE, !.acquisition = "child", !.acquired = TRUE,
                            !.child = TRUE, !.lc = AdoptAttempt(@)]
           waits == s.lc.phase = "Starting"
           ts == world.streams \cup {"exit"} \cup IF waits THEN {"readiness"} ELSE {}
<1>1. /\ coord = "spawn" /\ UNCHANGED <<queue, control, world>>
      /\ ses' = s /\ coord' \in {"ready", "yielded"} /\ task' = Started(ts)
  BY DEF SpawnChild, Goto
<1>2. PICK members \in May("stuck"), escaped \in May("escape") :
        proc' = [NoProcess EXCEPT !.state = "running", !.members = members,
                                  !.escaped = escaped]
  BY DEF SpawnChild
<1>3. /\ Core(ses, world) /\ Placed(ses, proc, world, coord) /\ Supervised(ses, proc, world)
      /\ Watched(ses, proc, coord, task, queue) /\ world \in Worlds /\ Formed(ses)
  BY DEF SessionInv, Core
<1>4. /\ ses.lc.phase = "Starting" /\ ses.lc.attempt.stage = "producing"
      /\ ses.acquisition = "none" /\ (world.request.log => ses.logOpen)
      /\ ses.workspace /\ ses.status # 0
  BY <1>1, <1>3 DEF Placed, Working
<1>5. /\ ~ses.acquired /\ ~ses.lc.attempt.result.seen /\ ses.cleanup = "none"
      /\ ~ses.attemptFinished /\ ses.settlement = "none" /\ ses.lc.evidence = {}
      /\ ~ses.lc.attempt.requested
  BY <1>3, <1>4 DEF Core, Staged, Supervised
<1>6. world.streams \subseteq Streams
  BY <1>3, SessionConstants DEF World
<1>7. /\ proc' \in Processes /\ proc'.state = "running" /\ ~proc'.observed
      /\ ~proc'.requested /\ ~proc'.signalled /\ ~proc'.raced
      /\ ~proc'.disposed /\ proc'.stage = "idle" /\ proc'.artifact = {}
  <2>1. members \in BOOLEAN /\ escaped \in BOOLEAN
    BY DEF May
  <2>2. NoProcess \in Processes
    BY DEF NoProcess, Processes
  <2>3. /\ ~NoProcess.observed /\ ~NoProcess.requested /\ ~NoProcess.signalled
        /\ ~NoProcess.raced /\ ~NoProcess.disposed /\ NoProcess.stage = "idle"
        /\ NoProcess.artifact = {}
    BY DEF NoProcess
  <2>4. QED  BY <1>2, <2>1, <2>2, <2>3 DEF Processes
<1> DEFINE l == ses.lc
           m == AdoptAttempt(l)
<1>8. /\ LcSound(m) /\ Codes(m) = Codes(l) /\ m.phase \in {"Starting", "Active"}
      /\ m.attempt.stage = "owned" /\ m.attempt.requested = l.attempt.requested
      /\ m.attempt.result = l.attempt.result
      /\ m.required = l.required /\ m.evidence \in {l.evidence, {}}
  <2>1. LcSound(l) /\ l.phase = "Starting" /\ l.attempt.stage = "producing"
        /\ ~l.attempt.result.seen
    BY <1>3, <1>4, <1>5 DEF Formed
  <2> HIDE DEF l
  <2>2. QED  BY <2>1, Adopts
<1>9. /\ DOMAIN s = SessionFields /\ s.lc = m /\ s.marker = TRUE /\ s.acquisition = "child"
      /\ s.acquired = TRUE /\ s.child = TRUE
      /\ \A f \in SessionFields \ {"lc", "marker", "acquisition", "acquired", "child"} :
           s[f] = ses[f]
  BY <1>3 DEF Formed, SessionFields
<1> HIDE DEF m, s, waits, ts
<1>10. /\ s.order = ses.order /\ s.failures = ses.failures /\ s.finished = ses.finished
       /\ s.sigAccounted = ses.sigAccounted /\ s.leaseAccounted = ses.leaseAccounted
       /\ s.leaseLost = ses.leaseLost
  BY <1>9 DEF SessionFields
<1>11. /\ s.logOpen = ses.logOpen /\ s.settlement = ses.settlement
       /\ s.address = ses.address /\ s.cleanup = ses.cleanup
       /\ s.attemptFinished = ses.attemptFinished
       /\ s.workspace = ses.workspace /\ s.status = ses.status
  BY <1>9 DEF SessionFields
<1>12. Formed(s)
  BY <1>3, <1>8, <1>9, <1>10 DEF Formed
<1>13. Core(s, world)
  <2>1. Accounted(s)
    BY <1>3, <1>8, <1>9, <1>10 DEF Core, Accounted
  <2>2. Staged(s, world)
    BY <1>4, <1>5, <1>8, <1>9, <1>11 DEF Staged
  <2>3. Owned(s)
    BY <1>4, <1>9, <1>11 DEF Owned
  <2>4. QED  BY <1>12, <2>1, <2>2, <2>3 DEF Core
<1>14. Supervised(s, proc', world)
  <2>1. ~ChildDisposed(s)
    BY <1>5, <1>9, <1>11 DEF ChildDisposed
  <2>2. l.required = world.request.required
    BY <1>3, <1>4 DEF Supervised
  <2>3. /\ proc'.requested = (proc'.signalled \/ proc'.raced)
        /\ s.lc.evidence \subseteq proc'.artifact
        /\ ~s.lc.attempt.requested /\ ~s.lc.attempt.result.seen /\ s.cleanup = "none"
    BY <1>5, <1>7, <1>8, <1>9, <1>11 DEF Processes
  <2>4. QED  BY <1>7, <1>8, <1>9, <2>1, <2>2, <2>3 DEF Supervised
<1>15. AtWork(s)
  BY <1>4, <1>8, <1>9, <1>11 DEF AtWork
<1>16. /\ Watched(s, proc', coord, task', queue') /\ task'["control"] = task["control"]
  <2>1. /\ task' \in [Tasks -> TaskStates]
        /\ \A t \in Tasks : task'[t] = IF t \in ts THEN "on" ELSE task[t]
    BY <1>1, <1>3, StartedTasks
  <2>2. "cleanup" \notin ts /\ "control" \notin ts
    BY <1>6, Observer DEF ts
  <2>3. "cleanup" \in Tasks /\ "control" \in Tasks /\ ChildTasks \subseteq Tasks
        /\ "cleanup" \in ChildTasks
    BY DEF Tasks, SessionTasks, ChildTasks
  <2>4. queue' \in Seq(Observations)
        /\ \A i \in 1 .. Len(queue') :
             queue'[i].kind # "EXIT" /\ queue'[i].kind # "CLEANED"
    BY <1>1, <1>3, <1>4, <1>5 DEF Watched
  <2>5. \A t \in Tasks : task[t] # "EXIT"
    BY <1>3, <1>4 DEF Watched
  <2>6. task["cleanup"] \in {"off", "done"}
    BY <1>3, <1>5 DEF Watched
  <2>7. \A t \in Tasks : task'[t] # "EXIT" /\ (task'[t] = "CLEANED" => t = "cleanup")
    BY <1>3, <2>1, <2>5 DEF Watched
  <2>8. task'["cleanup"] \in {"off", "done"}
    BY <2>1, <2>2, <2>3, <2>6
  <2>9. ~Settled(s, coord)
    BY <1>1, <1>5, <1>11 DEF Settled
  <2>10. Watched(s, proc', coord, task', queue')
    BY <1>9, <2>1, <2>4, <2>7, <2>8, <2>9 DEF Watched
  <2>11. QED  BY <2>1, <2>2, <2>3, <2>10
<1>17. Noted(s, ses')
  BY <1>1, <1>12, NotedReflexive
<1>18. coord' \in Plain
  BY <1>1 DEF Plain
<1>19. QED  BY <1>1, <1>10, <1>13, <1>14, <1>15, <1>16, <1>17, <1>18, NotedFrom
            DEF Steady

\* The spawn fails: with no process, with one rolled back, or with one that is
\* leaked and stays marked.
LEMMA SpawnFailsKeeps ==
  ASSUME SessionInv, SpawnFails
  PROVE  Steady /\ coord' = "yielded"
<1>1. PICK result \in {"no process", "rolled back", "leaked"}, rc \in ReturnCodes,
           requested \in BOOLEAN, reaped \in BOOLEAN, admits \in Admissions :
        LET failed == Stop([ses EXCEPT !.marker = TRUE, !.acquisition = result,
                                       !.acquired = result # "no process"],
                           "startup_failure", "SPAWN_FAILURE")
            told   == IF requested THEN [failed EXCEPT !.lc = RecordChildTermination(@)]
                      ELSE failed
            exited == IF result # "no process" /\ reaped
                      THEN [told EXCEPT !.lc = ObserveChildExit(@, rc)] ELSE failed
        IN  /\ result = "rolled back" => reaped
            /\ result = "no process" => ~requested /\ ~reaped
            /\ ~reaped => rc = 0
            /\ Goto(LogDisposal(exited, result # "leaked", admits), "yielded")
            /\ task' = IF result = "leaked" THEN Cancelled({"log"}) ELSE task
            /\ proc' = IF result = "no process" THEN proc
                       ELSE [NoProcess EXCEPT
                               !.state = IF reaped THEN "reaped" ELSE "running",
                               !.rc = rc, !.requested = requested,
                               !.signalled = requested,
                               !.members = result = "leaked"]
  BY Zenon DEF SpawnFails
<1>2. coord = "spawn" /\ UNCHANGED <<queue, control, world>>
  BY DEF SpawnFails
<1> DEFINE spawned == [ses EXCEPT !.marker = TRUE, !.acquisition = result,
                                  !.acquired = result # "no process"]
           failed  == Stop(spawned, "startup_failure", "SPAWN_FAILURE")
           told    == IF requested THEN [failed EXCEPT !.lc = RecordChildTermination(@)]
                      ELSE failed
           exited  == IF result # "no process" /\ reaped
                      THEN [told EXCEPT !.lc = ObserveChildExit(@, rc)] ELSE failed
<1>3. /\ Core(ses, world) /\ Placed(ses, proc, world, coord) /\ Supervised(ses, proc, world)
      /\ Watched(ses, proc, coord, task, queue) /\ world \in Worlds /\ Formed(ses)
  BY DEF SessionInv, Core
<1>4. /\ ses.lc.phase = "Starting" /\ ses.lc.attempt.stage = "producing"
      /\ ses.acquisition = "none" /\ (world.request.log => ses.logOpen)
      /\ ses.workspace /\ ses.status # 0
  BY <1>2, <1>3 DEF Placed, Working
<1>5. /\ ~ses.acquired /\ ~ses.lc.attempt.result.seen /\ ses.cleanup = "none"
      /\ ~ses.attemptFinished /\ ses.settlement = "none" /\ ~ses.child
      /\ ~ses.lc.attempt.requested
  BY <1>3, <1>4 DEF Core, Staged, Supervised
<1>6. /\ ses' = LogDisposal(exited, result # "leaked", admits) /\ coord' = "yielded"
      /\ result = "rolled back" => reaped
      /\ result = "no process" => ~requested /\ ~reaped
      /\ task' = IF result = "leaked" THEN Cancelled({"log"}) ELSE task
      /\ proc' = IF result = "no process" THEN proc
                 ELSE [NoProcess EXCEPT
                         !.state = IF reaped THEN "reaped" ELSE "running",
                         !.rc = rc, !.requested = requested, !.signalled = requested,
                         !.members = result = "leaked"]
  BY <1>1 DEF Goto
<1>7. /\ DOMAIN spawned = SessionFields /\ spawned.marker = TRUE
      /\ spawned.acquisition = result /\ spawned.acquired = (result # "no process")
      /\ \A f \in SessionFields \ {"marker", "acquisition", "acquired"} :
           spawned[f] = ses[f]
  BY <1>3 DEF Formed, SessionFields
<1> HIDE DEF spawned
<1>8. /\ spawned.lc = ses.lc /\ spawned.order = ses.order
      /\ spawned.failures = ses.failures /\ spawned.finished = ses.finished
      /\ spawned.sigAccounted = ses.sigAccounted
      /\ spawned.leaseAccounted = ses.leaseAccounted
      /\ spawned.leaseLost = ses.leaseLost
  BY <1>7 DEF SessionFields
<1>9. /\ spawned.logOpen = ses.logOpen /\ spawned.settlement = ses.settlement
      /\ spawned.address = ses.address /\ spawned.cleanup = ses.cleanup
      /\ spawned.attemptFinished = ses.attemptFinished /\ spawned.child = ses.child
      /\ spawned.workspace = ses.workspace /\ spawned.status = ses.status
  BY <1>7 DEF SessionFields
<1>10. Formed(spawned) /\ Accounted(spawned)
  BY <1>3, <1>7, <1>8 DEF Formed, Core, Accounted
<1>11. Noted(spawned, failed) /\ Ended(failed.lc)
  <2>1. "startup_failure" \in Triggers /\ "SPAWN_FAILURE" \in SessionFailures
    BY DEF Triggers, SessionFailures
  <2>2. QED  BY <1>10, <2>1, NotedReflexive, NotedStops
<1> HIDE DEF failed
<1>12. /\ Formed(failed) /\ Accounted(failed) /\ LcSound(failed.lc)
       /\ failed.lc.phase = "Terminating" /\ failed.lc.attempt = ses.lc.attempt
       /\ SameHoldings(spawned, failed) /\ failed.leaseLost = ses.leaseLost
       /\ failed.order.ready = ses.order.ready
  BY <1>4, <1>8, <1>10, <1>11, NotedAccounted DEF Noted, Formed, Later, Ended
<1> DEFINE seen == result # "no process" /\ reaped
           old  == failed.lc
           new  == ObserveChildExit(IF requested THEN RecordChildTermination(old) ELSE old, rc)
<1>13. /\ LcOnly(failed, exited)
       /\ exited.lc = IF seen THEN new ELSE old
  BY <1>12 DEF LcOnly, Formed, SessionFields
<1>14. Exited(old, new, requested)
  <2>1. InProduction(old) /\ LcSound(old) /\ old.phase = "Terminating" /\ rc \in Int
        /\ ~old.attempt.requested
    BY <1>4, <1>5, <1>12, LifecycleConstants DEF InProduction
  <2> HIDE DEF old
  <2>2. QED  BY <2>1, ExitSeen DEF Ended
<1> HIDE DEF exited, old, new
<1>15. /\ LcSound(exited.lc) /\ Codes(old) \subseteq Codes(exited.lc)
       /\ exited.lc.phase = "Terminating" /\ exited.lc.attempt.stage = "producing"
       /\ exited.lc.attempt.result.seen = seen
       /\ seen => exited.lc.attempt.result.requested = requested
       /\ ~seen => ~exited.lc.attempt.requested
  <2>1. /\ LcSound(old) /\ old.phase = "Terminating" /\ old.attempt.stage = "producing"
        /\ ~old.attempt.result.seen /\ ~old.attempt.requested
    BY <1>4, <1>5, <1>12 DEF old
  <2>2. /\ old.attempt.result.seen \in BOOLEAN /\ seen \in BOOLEAN
    BY <2>1 DEF LcSound, Lifecycles, Attempts, Results
  <2>3. CASE seen
    <3>1. exited.lc = new
      BY <1>13, <2>3
    <3>2. new.attempt.result.seen \in BOOLEAN
      BY <1>14 DEF Exited, LcSound, Lifecycles, Attempts, Results
    <3>3. QED  BY <1>14, <2>1, <2>3, <3>1, <3>2 DEF Exited
  <2>4. CASE ~seen
    <3>1. exited.lc = old
      BY <1>13, <2>4
    <3>2. QED  BY <2>1, <2>2, <2>4, <3>1
  <2>5. QED  BY <2>3, <2>4
<1>16. /\ Formed(exited) /\ SameHoldings(failed, exited)
       /\ exited.sigAccounted = failed.sigAccounted
       /\ exited.leaseAccounted = failed.leaseAccounted
       /\ exited.leaseLost = failed.leaseLost /\ exited.order = failed.order
  BY <1>12, <1>13, <1>15, LcOnlyHolds
<1>17. /\ exited.acquisition = result /\ exited.acquired = (result # "no process")
       /\ exited.marker = TRUE /\ exited.workspace /\ exited.status # 0
       /\ exited.cleanup = "none" /\ ~exited.attemptFinished /\ ~exited.child
       /\ exited.settlement = "none" /\ (world.request.log => exited.logOpen)
       /\ exited.leaseLost = ses.leaseLost
  <2>1. /\ SameHoldings(spawned, exited) /\ exited.leaseLost = ses.leaseLost
    BY <1>12, <1>16 DEF SameHoldings
  <2>2. QED  BY <1>4, <1>5, <1>7, <1>9, <2>1 DEF SameHoldings
<1>18. Core(exited, world)
  <2>1. Accounted(exited)
    BY <1>12, <1>15, <1>16 DEF Accounted, old
  <2>2. Staged(exited, world)
    BY <1>15, <1>17 DEF Staged, Ended
  <2>3. Owned(exited)
    BY <1>17 DEF Owned
  <2>4. QED  BY <1>16, <2>1, <2>2, <2>3 DEF Core
<1>19. AtWork(exited)
  BY <1>15, <1>17 DEF AtWork
<1>20. Supervised(exited, proc', world)
  <2>1. CASE result = "no process"
    <3>1. proc' = proc /\ ~seen
      BY <1>6, <2>1
    <3>2. Quiet(proc) /\ proc.stage = "idle"
      BY <1>3, <1>4, <1>5 DEF Supervised, ChildDisposed
    <3>3. QED  BY <1>3, <1>15, <1>17, <3>1, <3>2 DEF Supervised, Ended
  <2>2. CASE result # "no process"
    <3>1. /\ proc' \in Processes /\ proc'.state = (IF reaped THEN "reaped" ELSE "running")
          /\ proc'.members = (result = "leaked") /\ ~proc'.observed
          /\ proc'.requested = requested /\ proc'.signalled = requested /\ ~proc'.raced
          /\ ~proc'.disposed /\ proc'.stage = "idle" /\ proc'.artifact = {}
      BY <1>6, <2>2, LifecycleConstants DEF NoProcess, Processes
    <3>2. ChildDisposed(exited) => Quiet(proc')
      BY <1>6, <1>17, <2>2, <3>1 DEF ChildDisposed, Quiet
    <3>3. seen = reaped
      BY <2>2
    <3>4. QED  BY <1>15, <1>17, <3>1, <3>2, <3>3 DEF Supervised, Ended
  <2>3. QED  BY <2>1, <2>2
<1>21. /\ Watched(exited, proc', coord, task', queue')
       /\ task'["control"] \in {task["control"], "done"}
  <2>1. /\ task' \in [Tasks -> TaskStates]
        /\ \A t \in Tasks : task'[t] \in {task[t], "done"}
    BY <1>3, <1>6, CancelledTasks DEF Watched
  <2>2. "cleanup" \in Tasks /\ "control" \in Tasks /\ ChildTasks \subseteq Tasks
    BY DEF Tasks, SessionTasks, ChildTasks
  <2>3. Watched(ses, proc, coord, task', queue)
    BY <1>3, <2>1, <2>2, Rewatched
  <2>4. queue' \in Seq(Observations)
        /\ \A i \in 1 .. Len(queue') :
             queue'[i].kind # "EXIT" /\ queue'[i].kind # "CLEANED"
    BY <1>2, <1>3, <1>4, <1>5 DEF Watched
  <2>5. \A t \in Tasks : task'[t] # "EXIT" /\ (task'[t] = "CLEANED" => t = "cleanup")
    BY <1>4, <2>3 DEF Watched
  <2>6. /\ task'["cleanup"] \in {"off", "done"}
        /\ \A t \in ChildTasks : task'[t] \in {"off", "done"}
    BY <1>4, <1>5, <2>3 DEF Watched
  <2>7. ~Settled(exited, coord)
    BY <1>2, <1>17 DEF Settled
  <2>8. Watched(exited, proc', coord, task', queue')
    BY <2>1, <2>4, <2>5, <2>6, <2>7 DEF Watched
  <2>9. QED  BY <2>1, <2>2, <2>8
<1>22. Noted(exited, ses')
  BY <1>6, <1>16, LogDisposes
<1>23. coord' \in Plain
  BY <1>6 DEF Plain
<1>24. QED BY <1>2, <1>6, <1>12, <1>16, <1>17, <1>18, <1>19, <1>20, <1>21, <1>22, <1>23,
      NotedFrom DEF Steady

----------------------------------------------------------------------------
\* The loop of the coordinator

\* The loop of the coordinator accounts what is recorded, and decides whether to
\* clean up, to wait or to end.
LEMMA CoordinateKeeps ==
  ASSUME SessionInv, Coordinate
  PROVE  Steady
<1>1. PICK admits \in Admissions :
        LET s     == LoopHead(Account(ses, admits))
            armed == IF s.drainStarted /\ ~ses.drainStarted
                     THEN Started({"log deadline"}) ELSE task
        IN  IF AttemptOver(s) /\ LogDecided(s)
            THEN /\ Goto([s EXCEPT !.relay = IF s.logOpen
                                             THEN Relay!Decide(@, FALSE, s.acquired)
                                             ELSE @], "ending")
                 /\ task' = armed
                 /\ queue' = << >>
                 /\ UNCHANGED proc
            ELSE IF NeedsCleanup(s)
            THEN /\ UNCHANGED queue
                 /\ Goto([s EXCEPT !.cleanup = "running"],
                         IF queue = << >> THEN "waiting" ELSE "take")
                 /\ task' = [armed EXCEPT !["cleanup"] = "on", !["readiness"] = "done"]
                 /\ proc' = [proc EXCEPT !.stage = "term"]
            ELSE /\ IF CanFinish(s)
                    THEN Goto(s, "settling") /\ task' = [t \in Tasks |->
                           IF t \in ChildTasks THEN "done" ELSE armed[t]]
                    ELSE /\ Goto(s, IF queue = << >> THEN "waiting" ELSE "take")
                         /\ task' = armed
                 /\ UNCHANGED <<queue, proc>>
  BY Zenon DEF Coordinate
<1>2. coord \in {"loop", "yielded"} /\ UNCHANGED <<control, world>>
  BY DEF Coordinate
<1> DEFINE a     == Account(ses, admits)
           s     == LoopHead(a)
           armed == IF s.drainStarted /\ ~ses.drainStarted
                    THEN Started({"log deadline"}) ELSE task
           relay == IF s.logOpen THEN Relay!Decide(s.relay, FALSE, s.acquired) ELSE s.relay
           e     == [s EXCEPT !.relay = relay]
           n     == [s EXCEPT !.cleanup = "running"]
<1>3. /\ Core(ses, world) /\ Placed(ses, proc, world, coord) /\ Supervised(ses, proc, world)
      /\ Watched(ses, proc, coord, task, queue)
  BY DEF SessionInv
<1>4. coord \in Working \ {"spawn"} /\ coord # "settling"
  BY <1>2 DEF Working
<1>5. IF AttemptOver(s) /\ LogDecided(s)
      THEN /\ ses' = e /\ coord' = "ending" /\ task' = armed /\ queue' = << >>
           /\ UNCHANGED proc
      ELSE IF NeedsCleanup(s)
      THEN /\ ses' = n /\ coord' \in {"waiting", "take"} /\ UNCHANGED queue
           /\ task' = [armed EXCEPT !["cleanup"] = "on", !["readiness"] = "done"]
           /\ proc' = [proc EXCEPT !.stage = "term"]
      ELSE /\ ses' = s /\ UNCHANGED <<queue, proc>>
           /\ IF CanFinish(s)
              THEN /\ coord' = "settling"
                   /\ task' = [t \in Tasks |-> IF t \in ChildTasks THEN "done" ELSE armed[t]]
              ELSE coord' \in {"waiting", "take"} /\ task' = armed
  BY <1>1 DEF Goto
<1>6. Noted(ses, a) /\ Formed(a)
  BY SessionAccounts
<1> HIDE DEF a
<1>7. Noted(ses, s) /\ Formed(s)
  <2>1. /\ DOMAIN s = SessionFields
        /\ \A f \in SessionFields \ Inessential : s[f] = a[f]
    BY <1>6 DEF LoopHead, Formed, Inessential
  <2> HIDE DEF s
  <2>2. Noted(a, s)
    BY <1>6, <2>1, Keeps
  <2>3. QED  BY <1>6, <2>2, NotedTransitive DEF Noted
<1> HIDE DEF s
<1>8. Core(s, world) /\ Supervised(s, proc, world) /\ AtWork(s)
  BY <1>3, <1>4, <1>7, NotedCore, NotedSupervised, PlacedAtWork, NotedAtWork
<1>9. /\ s.acquisition = ses.acquisition /\ s.cleanup = ses.cleanup
      /\ s.attemptFinished = ses.attemptFinished /\ s.leaseLost = ses.leaseLost
      /\ s.order.ready = ses.order.ready
  BY <1>7 DEF Noted, SameHoldings
<1>10. /\ armed \in [Tasks -> TaskStates]
       /\ \A t \in Tasks : armed[t] = task[t] \/ (t = "log deadline" /\ armed[t] = "on")
  <2>1. task \in [Tasks -> TaskStates]
    BY <1>3 DEF Watched
  <2>2. CASE armed = task
    BY <2>1, <2>2
  <2>3. CASE armed = Started({"log deadline"})
    <3>1. /\ Started({"log deadline"}) \in [Tasks -> TaskStates]
          /\ \A t \in Tasks : Started({"log deadline"})[t] =
                                IF t \in {"log deadline"} THEN "on" ELSE task[t]
      BY <1>3, StartedTasks
    <3> HIDE DEF armed
    <3>2. QED  BY <2>3, <3>1
  <2>4. QED  BY <2>2, <2>3
<1> HIDE DEF armed
<1>11. /\ "log deadline" \notin ChildTasks /\ ChildTasks \subseteq Tasks
       /\ "cleanup" \in ChildTasks /\ "readiness" \in ChildTasks /\ "control" \in Tasks
       /\ "control" \notin ChildTasks
  BY SessionConstants DEF SessionTasks, ChildTasks, Tasks
<1>12. Watched(s, proc, coord, armed, queue)
  <2>1. Watched(ses, proc, coord, armed, queue)
    BY <1>3, <1>10, <1>11, Rewatched
  <2>2. QED  BY <1>9, <2>1, WatchedOn
<1>13. armed["control"] = task["control"]
  BY <1>10, <1>11
<1>14. CASE AttemptOver(s) /\ LogDecided(s)
  <2>1. /\ ses' = e /\ coord' = "ending" /\ task' = armed /\ queue' = << >>
        /\ UNCHANGED proc
    BY <1>5, <1>14
  <2>2. Noted(s, e)
    <3> HIDE DEF relay
    <3>1. QED  BY <1>7, RelayTurns
  <2> HIDE DEF e
  <2>3. Core(e, world) /\ Supervised(e, proc, world) /\ AtWork(e)
    BY <1>8, <2>2, NotedCore, NotedSupervised, NotedAtWork
  <2>4. e.lc.phase = "Terminating"
    BY <1>14, <2>2 DEF AttemptOver, Noted, Later
  <2>5. Placed(e, proc, world, "ending")
    BY <2>3, <2>4 DEF Placed, AtWork, Working, Ending, Late
  <2>6. Watched(e, proc, "ending", task', queue')
    <3>1. /\ e.acquisition = s.acquisition /\ e.cleanup = s.cleanup
          /\ e.attemptFinished = s.attemptFinished
      BY <2>2 DEF Noted, SameHoldings
    <3>2. Watched(e, proc, "ending", armed, queue)
      BY <1>12, <3>1, WatchedOn
    <3>3. QED  BY <2>1, <3>2 DEF Watched
  <2>7. e.leaseLost = ses.leaseLost /\ e.order.ready = ses.order.ready
    BY <1>9, <2>2 DEF Noted
  <2>8. QED  BY <1>2, <1>13, <2>1, <2>3, <2>5, <2>6, <2>7, CoordinatorStep
             DEF Steady
<1>15. CASE ~(AttemptOver(s) /\ LogDecided(s)) /\ NeedsCleanup(s)
  <2>1. /\ ses' = n /\ coord' \in {"waiting", "take"} /\ UNCHANGED queue
        /\ task' = [armed EXCEPT !["cleanup"] = "on", !["readiness"] = "done"]
        /\ proc' = [proc EXCEPT !.stage = "term"]
    BY <1>5, <1>15
  <2>2. /\ s.child /\ s.cleanup = "none" /\ ~s.attemptFinished
        /\ Ended(s.lc) \/ s.lc.attempt.result.seen
    BY <1>15 DEF NeedsCleanup, Ended
  <2>3. s.acquisition = "child"
    BY <1>8, <2>2 DEF Core, Staged
  <2>4. /\ DOMAIN n = SessionFields /\ n.cleanup = "running"
        /\ \A f \in SessionFields \ {"cleanup"} : n[f] = s[f]
    BY <1>7 DEF Formed, SessionFields
  <2> HIDE DEF n
  <2>5. /\ n.lc = s.lc /\ n.order = s.order /\ n.failures = s.failures
        /\ n.finished = s.finished
        /\ n.sigAccounted = s.sigAccounted /\ n.leaseAccounted = s.leaseAccounted
        /\ n.leaseLost = s.leaseLost
    BY <2>4 DEF SessionFields
  <2>6. /\ n.logOpen = s.logOpen /\ n.child = s.child
        /\ n.acquired = s.acquired /\ n.acquisition = s.acquisition
        /\ n.settlement = s.settlement /\ n.address = s.address
        /\ n.attemptFinished = s.attemptFinished
        /\ n.workspace = s.workspace /\ n.marker = s.marker
        /\ n.status = s.status
    BY <2>4 DEF SessionFields
  <2>7. Formed(n)
    BY <1>7, <2>4, <2>5 DEF Formed
  <2>8. Core(n, world)
    BY <1>8, <2>3, <2>5, <2>6, <2>7 DEF Core, Accounted, Staged, Owned, ChildDisposed
  <2>9. Supervised(n, proc', world)
    <3>1. /\ proc' \in Processes /\ proc'.stage = "term"
          /\ proc'.state = proc.state /\ proc'.members = proc.members
          /\ proc'.observed = proc.observed
          /\ proc'.requested = proc.requested /\ proc'.signalled = proc.signalled
          /\ proc'.raced = proc.raced
          /\ proc'.disposed = proc.disposed /\ proc'.artifact = proc.artifact
      BY <1>8, <2>1 DEF Supervised, Processes
    <3>2. QED  BY <1>8, <2>2, <2>4, <2>5, <2>6, <3>1 DEF Supervised, ChildDisposed, Quiet
  <2>10. AtWork(n)
    BY <1>8, <2>5, <2>6 DEF AtWork
  <2>11. proc'.state = proc.state
    BY <1>8, <2>1 DEF Supervised, Processes
  <2>12. Watched(n, proc', coord, task', queue')
    <3>1. /\ task' \in [Tasks -> TaskStates] /\ task'["cleanup"] = "on"
          /\ \A t \in Tasks \ {"cleanup"} : task'[t] \in {armed[t], "done"}
      BY <1>10, <1>11, <2>1 DEF TaskStates
    <3>2. \A i \in 1 .. Len(queue) : queue[i].kind # "CLEANED"
      BY <1>12, <2>2 DEF Watched
    <3>3. \A t \in Tasks : /\ task'[t] = "EXIT" => armed[t] = "EXIT"
                           /\ task'[t] = "CLEANED" => armed[t] = "CLEANED"
      BY <3>1
    <3>4. ~Settled(n, coord)
      BY <1>4, <2>2, <2>6 DEF Settled
    <3>5. QED  BY <1>12, <2>1, <2>3, <2>4, <2>6, <2>11, <3>1, <3>2, <3>3, <3>4 DEF Watched
  <2>13. task'["control"] = task["control"]
    BY <1>10, <1>11, <1>13, <2>1
  <2>14. /\ n.leaseLost = ses.leaseLost /\ n.order.ready = ses.order.ready
         /\ Noted(n, n)
    BY <1>9, <2>5, <2>7, NotedReflexive
  <2>15. coord' \in Plain
    BY <2>1 DEF Plain
  <2>16. QED  BY <1>2, <2>1, <2>8, <2>9, <2>10, <2>12, <2>13, <2>14, <2>15, NotedFrom
              DEF Steady
<1>16. CASE /\ ~(AttemptOver(s) /\ LogDecided(s)) /\ ~NeedsCleanup(s)
            /\ CanFinish(s)
  <2>1. /\ ses' = s /\ UNCHANGED <<queue, proc>> /\ coord' = "settling"
        /\ task' = [t \in Tasks |-> IF t \in ChildTasks THEN "done" ELSE armed[t]]
    BY <1>5, <1>16
  <2>2. s.child /\ s.cleanup = "cleaned" /\ ~s.attemptFinished
    BY <1>16 DEF CanFinish
  <2>3. Placed(s, proc, world, "settling")
    BY <1>8, <2>2 DEF Placed, AtWork, Working, Ending, Late
  <2>4. Watched(s, proc, "settling", task', queue)
    <3>1. /\ task' \in [Tasks -> TaskStates]
          /\ \A t \in Tasks : task'[t] \in {armed[t], "done"}
          /\ \A t \in ChildTasks : task'[t] = "done"
      BY <1>10, <1>11, <2>1 DEF TaskStates
    <3>2. Watched(s, proc, coord, task', queue)
      BY <1>11, <1>12, <3>1, Rewatched
    <3>3. QED  BY <2>2, <3>1, <3>2 DEF Watched, Settled
  <2>5. task'["control"] = task["control"]
    BY <1>11, <1>13, <2>1
  <2>6. QED  BY <1>2, <1>8, <1>9, <2>1, <2>3, <2>4, <2>5, CoordinatorStep
             DEF Steady
<1>17. CASE /\ ~(AttemptOver(s) /\ LogDecided(s)) /\ ~NeedsCleanup(s)
            /\ ~CanFinish(s)
  <2>1. /\ ses' = s /\ UNCHANGED <<queue, proc>> /\ coord' \in {"waiting", "take"}
        /\ task' = armed
    BY <1>5, <1>17
  <2>2. Noted(s, ses') /\ coord' \in Plain
    BY <1>7, <2>1, NotedReflexive DEF Plain
  <2>3. QED  BY <1>2, <1>8, <1>9, <1>12, <1>13, <2>1, <2>2, NotedFrom DEF Steady
<1>18. QED  BY <1>14, <1>15, <1>16, <1>17

----------------------------------------------------------------------------
\* The end of the attempt

\* Settling forgets that an exit was asked for, and nothing else.
LEMMA Settles ==
  ASSUME NEW l, LcSound(l), l.phase # "Closed"
  PROVE  LET m == SettleAttempt(l, TRUE, TRUE) IN
         /\ LcSound(m) /\ Codes(m) = Codes(l) /\ m.phase = l.phase
         /\ m.outcome = l.outcome /\ m.local = l.local
         /\ m.required = l.required /\ m.evidence = l.evidence
         /\ m.attempt.result = l.attempt.result
         /\ m.attempt.requested \in {l.attempt.requested, FALSE}
         /\ m.attempt.stage \in {l.attempt.stage, "settled"}
         /\ l.phase = "Terminating" => ~InProduction(m)
<1> DEFINE m == SettleAttempt(l, TRUE, TRUE)
           a == [Attempt("settled") EXCEPT !.result = l.attempt.result]
<1>1. l \in Lifecycles /\ l.attempt \in Attempts /\ l.attempt.result \in Results
  BY DEF LcSound, Lifecycles, Attempts
<1>2. CASE l.attempt.stage # "none" /\ l.phase \in {"Starting", "Terminating"}
  <2>1. m = [l EXCEPT !.attempt = a]
    BY <1>2 DEF SettleAttempt
  <2>2. /\ a.stage = "settled" /\ a.requested = FALSE /\ a.result = l.attempt.result
        /\ a \in Attempts
    BY <1>1 DEF Attempt, Attempts, Stages, NoResult
  <2> HIDE DEF a
  <2>3. m \in Lifecycles
    BY <1>1, <2>1, <2>2 DEF Lifecycles
  <2>4. /\ m.phase = l.phase /\ m.outcome = l.outcome /\ m.local = l.local
        /\ m.required = l.required /\ m.evidence = l.evidence /\ m.attempt = a
    BY <1>1, <2>1 DEF Lifecycles
  <2>5. LcSound(m) /\ Codes(m) = Codes(l)
    BY <2>2, <2>3, <2>4 DEF LcSound, Ended, Codes, Told
  <2>6. ~InProduction(m)
    <3> HIDE DEF m
    <3>1. QED  BY <2>2, <2>4 DEF InProduction
  <2>7. m.attempt.result = l.attempt.result /\ m.attempt.requested = FALSE
        /\ m.attempt.stage = "settled"
    BY <2>2, <2>4
  <2> HIDE DEF m
  <2>8. QED  BY <2>4, <2>5, <2>6, <2>7 DEF m
<1>3. CASE ~(l.attempt.stage # "none" /\ l.phase \in {"Starting", "Terminating"})
  <2>1. m = l
    BY <1>3 DEF SettleAttempt
  <2>2. l.phase = "Terminating" => ~InProduction(l)
    BY <1>3 DEF InProduction
  <2>3. QED  BY <2>1, <2>2
<1>4. QED  BY <1>2, <1>3

\* The session while it settles: the child is owned, and its attempt not over.
Settling(s) ==
  /\ Core(s, world) /\ Supervised(s, proc, world) /\ AtWork(s)
  /\ s.child /\ s.acquisition = "child" /\ ~s.attemptFinished
  /\ s.cleanup = "cleaned" /\ s.leaseLost = ses.leaseLost
  /\ s.order.ready = ses.order.ready

\* Bookkeeping leaves an attempt settling.
LEMMA SettlingGoesOn ==
  ASSUME NEW s, Settling(s), NEW t, Noted(s, t)
  PROVE  Settling(t)
<1>1. Core(t, world) /\ Supervised(t, proc, world) /\ AtWork(t)
  BY NotedCore, NotedSupervised, NotedAtWork DEF Settling
<1>2. QED  BY <1>1 DEF Settling, Noted, SameHoldings

\* A session whose attempt is over.
FinishedAttempt(s) ==
  /\ Core(s, world) /\ Supervised(s, proc, world) /\ AtWork(s)
  /\ s.acquisition = "child" /\ s.attemptFinished /\ s.cleanup = "cleaned"
  /\ s.leaseLost = ses.leaseLost /\ s.order.ready = ses.order.ready

\* The attempt is over, and the child's disposal known.
LEMMA AttemptEnds ==
  ASSUME NEW s, Settling(s), NEW t,
         t = [s EXCEPT !.settlement = IF proc.disposed THEN "confirmed" ELSE "unconfirmed",
                       !.attemptFinished = TRUE]
  PROVE  FinishedAttempt(t)
<1> DEFINE settlement == IF proc.disposed THEN "confirmed" ELSE "unconfirmed"
<1>0. settlement = "confirmed" => proc.disposed
  OBVIOUS
<1> HIDE DEF settlement
<1>1. Formed(s) /\ AtWork(s)
  BY DEF Settling, Core
<1>2. /\ DOMAIN t = SessionFields /\ t.settlement = settlement /\ t.attemptFinished
      /\ \A f \in SessionFields \ {"settlement", "attemptFinished"} : t[f] = s[f]
  BY <1>1 DEF Formed, SessionFields, settlement
<1>3. /\ t.lc = s.lc /\ t.order = s.order /\ t.failures = s.failures
      /\ t.sigAccounted = s.sigAccounted /\ t.leaseAccounted = s.leaseAccounted
      /\ t.leaseLost = s.leaseLost
      /\ t.logOpen = s.logOpen /\ t.child = s.child
      /\ t.acquired = s.acquired /\ t.acquisition = s.acquisition
      /\ t.address = s.address /\ t.cleanup = s.cleanup
      /\ t.workspace = s.workspace /\ t.marker = s.marker /\ t.status = s.status
  BY <1>2 DEF SessionFields
<1>4. ~ChildDisposed(s)
  BY DEF ChildDisposed, Settling, Core, Staged
<1>5. s.marker /\ s.workspace
  BY <1>4 DEF Settling, Core, Owned
<1>6. ChildDisposed(t) => Quiet(proc)
  BY <1>0, <1>2, <1>3 DEF ChildDisposed, Settling, Supervised
<1>7. Core(t, world)
  <2>1. Formed(t) /\ Accounted(t)
    BY <1>1, <1>2, <1>3 DEF Formed, Settling, Core, Accounted
  <2>2. Staged(t, world)
    BY <1>2, <1>3 DEF Settling, Core, Staged
  <2>3. Owned(t)
    BY <1>3, <1>5 DEF Owned
  <2>4. QED  BY <2>1, <2>2, <2>3 DEF Core
<1>8. Supervised(t, proc, world)
  BY <1>3, <1>6 DEF Settling, Supervised
<1>9. AtWork(t)
  BY <1>1, <1>3 DEF AtWork
<1>10. QED  BY <1>2, <1>3, <1>7, <1>8, <1>9 DEF Settling, FinishedAttempt

\* Bookkeeping before the attempt is called over is as good as after it.
LEMMA NotedBeforeEnd ==
  ASSUME NEW s, NEW t, Noted(s, t), Formed(s), NEW u, NEW v,
         u = [s EXCEPT !.attemptFinished = TRUE], v = [t EXCEPT !.attemptFinished = TRUE]
  PROVE  Noted(u, v)
<1>1. /\ DOMAIN u = SessionFields /\ u.attemptFinished
      /\ \A f \in SessionFields \ {"attemptFinished"} : u[f] = s[f]
  BY DEF Formed, SessionFields
<1>2. /\ DOMAIN v = SessionFields /\ v.attemptFinished
      /\ \A f \in SessionFields \ {"attemptFinished"} : v[f] = t[f]
  BY DEF Noted, Formed, SessionFields
<1>3. /\ u.lc = s.lc /\ u.order = s.order /\ u.failures = s.failures
      /\ u.sigPending = s.sigPending /\ u.leaseLost = s.leaseLost
      /\ u.sigAccounted = s.sigAccounted /\ u.leaseAccounted = s.leaseAccounted
  BY <1>1 DEF SessionFields
<1>4. /\ v.lc = t.lc /\ v.order = t.order /\ v.failures = t.failures
      /\ v.sigPending = t.sigPending /\ v.leaseLost = t.leaseLost
      /\ v.sigAccounted = t.sigAccounted /\ v.leaseAccounted = t.leaseAccounted
  BY <1>2 DEF SessionFields
<1>5. SameHoldings(u, v)
  BY <1>1, <1>2 DEF SessionFields, Noted, SameHoldings
<1>6. Formed(v)
  BY <1>2, <1>4 DEF Noted, Formed
<1>7. QED  BY <1>3, <1>4, <1>5, <1>6 DEF Noted

\* _settle_attempt ends the observers of the child, reads what its streams still
\* hold, and records how its disposal went.
LEMMA SettleAttemptStepKeeps ==
  ASSUME SessionInv, SettleAttemptStep
  PROVE  Steady /\ coord' = "loop"
<1>1. PICK admits \in Admissions, stillOpen \in May("lease") :
       LET heard  == Hear(ses, ChildTasks, admits)
           exited == IF proc.observed \/ proc.state = "reaped"
                     THEN RecordExit(heard, proc) ELSE heard
           closed == IF exited.address /\ stillOpen THEN CleanupFails(exited)
                     ELSE [exited EXCEPT !.address = FALSE]
           told   == Account([closed EXCEPT !.settlement = IF proc.disposed
                                              THEN "confirmed" ELSE "unconfirmed"], admits)
           ended  == IF told.lc.phase = "Starting"
                     THEN Stop(told, "startup_failure", "STARTUP_EXIT") ELSE told
           done   == [ended EXCEPT !.attemptFinished = TRUE]
       IN  IF proc.disposed /\ ~done.address
           THEN /\ Goto([done EXCEPT !.lc = SettleAttempt(@, TRUE, TRUE),
                                     !.child = FALSE], "loop")
                /\ UNCHANGED task
           ELSE /\ Goto(LogDisposal(CleanupFails(done), FALSE, admits), "loop")
                /\ task' = IF done.relay.decision = "none" THEN Cancelled({"log"}) ELSE task
  BY Zenon DEF SettleAttemptStep
<1>2. coord = "settling" /\ UNCHANGED <<queue, control, proc, world>>
  BY DEF SettleAttemptStep
<1> DEFINE heard  == Hear(ses, ChildTasks, admits)
           exited == IF proc.observed \/ proc.state = "reaped"
                     THEN RecordExit(heard, proc) ELSE heard
           closed == IF exited.address /\ stillOpen THEN CleanupFails(exited)
                     ELSE [exited EXCEPT !.address = FALSE]
           settlement == IF proc.disposed THEN "confirmed" ELSE "unconfirmed"
           sett   == [closed EXCEPT !.settlement = settlement]
           told   == Account(sett, admits)
           ended  == IF told.lc.phase = "Starting"
                     THEN Stop(told, "startup_failure", "STARTUP_EXIT") ELSE told
           done   == [ended EXCEPT !.attemptFinished = TRUE]
           pre    == [sett EXCEPT !.attemptFinished = TRUE]
           over   == [done EXCEPT !.lc = SettleAttempt(@, TRUE, TRUE), !.child = FALSE]
           left   == LogDisposal(CleanupFails(done), FALSE, admits)
<1>3. /\ coord' = "loop"
      /\ IF proc.disposed /\ ~done.address THEN ses' = over /\ task' = task
         ELSE ses' = left /\ task' \in {Cancelled({"log"}), task}
  BY <1>1 DEF Goto
<1>4. /\ Core(ses, world) /\ Placed(ses, proc, world, coord) /\ Supervised(ses, proc, world)
      /\ Watched(ses, proc, coord, task, queue)
  BY DEF SessionInv
<1>5. Settling(ses)
  <2>1. coord \in Working \ {"spawn"}
    BY <1>2 DEF Working
  <2>2. AtWork(ses) /\ ses.child /\ ~ses.attemptFinished
    BY <1>2, <1>4, <2>1, PlacedAtWork DEF Placed
  <2>3. ses.cleanup = "cleaned"
    BY <1>2, <1>4 DEF Watched, Settled
  <2>4. ses.acquisition = "child"
    BY <1>4, <2>2 DEF Core, Staged
  <2>5. QED  BY <1>4, <2>2, <2>3, <2>4 DEF Settling
<1>6. Settling(heard)
  <2>1. Noted(ses, heard)
    BY <1>4, Hears DEF Core
  <2> HIDE DEF heard
  <2>2. QED  BY <1>5, <2>1, SettlingGoesOn
<1> HIDE DEF heard
<1>7. Settling(exited)
  <2>1. CASE proc.observed \/ proc.state = "reaped"
    <3> DEFINE r == RecordExit(heard, proc)
    <3>1. proc.state # "running" /\ heard.lc.phase # "Closed" /\ Formed(heard)
      BY <1>6, <2>1 DEF Settling, Supervised, AtWork, Core
    <3>2. /\ Core(r, world) /\ Supervised(r, proc, world) /\ LcOnly(heard, r)
          /\ LcSound(r.lc) /\ AtWork(r)
      BY <1>6, <3>1, ExitKeeps DEF Settling
    <3> HIDE DEF r
    <3>3. SameHoldings(heard, r) /\ r.leaseLost = heard.leaseLost /\ r.order = heard.order
      BY <3>1, <3>2, LcOnlyHolds
    <3>4. exited = r
      BY <2>1 DEF r
    <3> HIDE DEF exited
    <3>5. QED  BY <1>6, <3>2, <3>3, <3>4 DEF Settling, SameHoldings
  <2>2. CASE ~(proc.observed \/ proc.state = "reaped")
    BY <1>6, <2>2
  <2>3. QED  BY <2>1, <2>2
<1> HIDE DEF exited
<1>8. Settling(closed)
  <2>1. Formed(exited)
    BY <1>7 DEF Settling, Core
  <2>2. CASE closed = CleanupFails(exited)
    <3>1. Noted(exited, CleanupFails(exited))
      BY <2>1, NotedReflexive, CleanupFailureStops
    <3> HIDE DEF closed
    <3>2. QED  BY <1>7, <2>2, <3>1, SettlingGoesOn
  <2>3. CASE closed = [exited EXCEPT !.address = FALSE]
    <3>1. /\ DOMAIN closed = SessionFields
          /\ \A f \in SessionFields \ {"address"} : closed[f] = exited[f]
      BY <2>1, <2>3 DEF Formed, SessionFields
    <3> HIDE DEF closed
    <3>2. /\ closed.lc = exited.lc /\ closed.order = exited.order
          /\ closed.failures = exited.failures /\ closed.finished = exited.finished
          /\ closed.sigAccounted = exited.sigAccounted
          /\ closed.leaseAccounted = exited.leaseAccounted
          /\ closed.leaseLost = exited.leaseLost
      BY <3>1 DEF SessionFields
    <3>3. /\ closed.logOpen = exited.logOpen /\ closed.child = exited.child
          /\ closed.acquired = exited.acquired /\ closed.acquisition = exited.acquisition
          /\ closed.settlement = exited.settlement
          /\ closed.cleanup = exited.cleanup
          /\ closed.attemptFinished = exited.attemptFinished
          /\ closed.workspace = exited.workspace /\ closed.marker = exited.marker
          /\ closed.status = exited.status
      BY <3>1 DEF SessionFields
    <3>4. Formed(closed) /\ Accounted(closed)
      BY <1>7, <3>1, <3>2 DEF Formed, Settling, Core, Accounted
    <3>5. Staged(closed, world)
      BY <1>7, <3>2, <3>3 DEF Settling, Core, Staged
    <3>6. Owned(closed)
      BY <1>7, <3>3 DEF Settling, AtWork, Core, Owned, ChildDisposed
    <3>7. Supervised(closed, proc, world)
      BY <1>7, <3>2, <3>3 DEF Settling, Supervised, ChildDisposed
    <3>8. AtWork(closed)
      BY <1>7, <3>2, <3>3 DEF Settling, AtWork
    <3>9. QED  BY <1>7, <3>2, <3>3, <3>4, <3>5, <3>6, <3>7, <3>8 DEF Settling, Core
  <2>4. QED  BY <2>2, <2>3
<1> HIDE DEF closed
<1>9. FinishedAttempt(pre)
  <2>1. pre = [closed EXCEPT
                 !.settlement = IF proc.disposed THEN "confirmed" ELSE "unconfirmed",
                 !.attemptFinished = TRUE]
    OBVIOUS
  <2> HIDE DEF pre
  <2>2. QED  BY <1>8, <2>1, AttemptEnds
<1> HIDE DEF settlement
<1>11. Formed(sett) /\ Accounted(sett)
  <2>1. /\ DOMAIN sett = SessionFields
        /\ \A f \in SessionFields \ {"settlement"} : sett[f] = closed[f]
    BY <1>8 DEF Settling, Core, Formed, SessionFields
  <2> HIDE DEF sett
  <2>2. /\ sett.lc = closed.lc /\ sett.order = closed.order
        /\ sett.failures = closed.failures /\ sett.finished = closed.finished
        /\ sett.sigAccounted = closed.sigAccounted
        /\ sett.leaseAccounted = closed.leaseAccounted
    BY <2>1 DEF SessionFields
  <2>3. QED  BY <1>8, <2>1, <2>2 DEF Settling, Core, Formed, Accounted
<1>12. Noted(pre, done)
  <2> HIDE DEF sett
  <2>1. Noted(sett, told)
    BY <1>11, Accounts
  <2> HIDE DEF told
  <2>2. Noted(sett, ended)
    <3>1. "startup_failure" \in Triggers /\ "STARTUP_EXIT" \in SessionFailures
      BY DEF Triggers, SessionFailures
    <3>2. QED  BY <2>1, <3>1, NotedStops
  <2> HIDE DEF ended
  <2>3. QED  BY <1>11, <2>2, NotedBeforeEnd
<1> HIDE DEF pre
<1> HIDE DEF done
<1>13. /\ Core(done, world) /\ Supervised(done, proc, world) /\ AtWork(done)
       /\ done.acquisition = "child" /\ done.attemptFinished /\ done.cleanup = "cleaned"
       /\ done.leaseLost = ses.leaseLost /\ Formed(done)
       /\ done.order.ready = ses.order.ready
  BY <1>9, <1>12, NotedCore, NotedSupervised, NotedAtWork
     DEF FinishedAttempt, Noted, SameHoldings
<1>14. \A s : s.acquisition = "child" /\ s.attemptFinished /\ s.cleanup = "cleaned" =>
         Watched(s, proc, coord, task, queue)
  BY <1>2, <1>4, <1>5 DEF Watched, Settled, Settling
<1>15. "loop" \in Plain /\ UNCHANGED <<control, world>>
  BY <1>2 DEF Plain
<1>16. CASE proc.disposed /\ ~done.address
  <2>1. ses' = over /\ task' = task
    BY <1>3, <1>16
  <2> DEFINE l == SettleAttempt(done.lc, TRUE, TRUE)
  <2>2. /\ DOMAIN over = SessionFields /\ over.lc = l /\ ~over.child
        /\ \A f \in SessionFields \ {"lc", "child"} : over[f] = done[f]
    BY <1>13 DEF Formed, SessionFields
  <2>3. /\ LcSound(l) /\ Codes(l) = Codes(done.lc) /\ l.phase = done.lc.phase
        /\ l.required = done.lc.required /\ l.evidence = done.lc.evidence
        /\ l.attempt.result = done.lc.attempt.result
        /\ l.attempt.requested \in {done.lc.attempt.requested, FALSE}
    <3> DEFINE d == done.lc
    <3>1. LcSound(d) /\ d.phase # "Closed"
      BY <1>13 DEF Formed, AtWork
    <3> HIDE DEF d
    <3>2. LET m == SettleAttempt(d, TRUE, TRUE) IN
          /\ LcSound(m) /\ Codes(m) = Codes(d) /\ m.phase = d.phase
          /\ m.required = d.required /\ m.evidence = d.evidence
          /\ m.attempt.result = d.attempt.result
          /\ m.attempt.requested \in {d.attempt.requested, FALSE}
      BY <3>1, Settles
    <3>3. QED  BY <3>2 DEF d
  <2> HIDE DEF over, l
  <2>4. /\ over.order = done.order /\ over.failures = done.failures
        /\ over.finished = done.finished
        /\ over.sigAccounted = done.sigAccounted
        /\ over.leaseAccounted = done.leaseAccounted
        /\ over.leaseLost = done.leaseLost
    BY <2>2 DEF SessionFields
  <2>5. /\ over.logOpen = done.logOpen
        /\ over.acquired = done.acquired /\ over.acquisition = done.acquisition
        /\ over.settlement = done.settlement /\ over.address = done.address
        /\ over.cleanup = done.cleanup
        /\ over.attemptFinished = done.attemptFinished
        /\ over.workspace = done.workspace /\ over.marker = done.marker
        /\ over.status = done.status
    BY <2>2 DEF SessionFields
  <2>6. Formed(over) /\ Accounted(over)
    BY <1>13, <2>2, <2>3, <2>4 DEF Formed, Core, Accounted
  <2>7. Staged(over, world)
    BY <1>13, <2>2, <2>3, <2>5 DEF Core, Staged
  <2>8. Owned(over)
    BY <1>13, <2>5 DEF Core, Owned, ChildDisposed
  <2>9. Supervised(over, proc, world)
    BY <1>13, <2>2, <2>3, <2>5 DEF Supervised, Ended, ChildDisposed
  <2>10. AtWork(over)
    BY <1>13, <2>2, <2>3, <2>5 DEF AtWork
  <2>11. Core(over, world) /\ Noted(over, over)
    BY <2>6, <2>7, <2>8, NotedReflexive DEF Core
  <2>12. Watched(over, proc, coord, task, queue)
    BY <1>13, <1>14, <2>5
  <2>13. QED  BY <1>2, <1>3, <1>13, <1>15, <2>1, <2>4, <2>9, <2>10, <2>11, <2>12, NotedFrom
              DEF Steady
<1>17. CASE ~(proc.disposed /\ ~done.address)
  <2>1. ses' = left /\ task' \in {Cancelled({"log"}), task}
    BY <1>3, <1>17
  <2>2. Noted(done, left)
    <3> DEFINE failed == CleanupFails(done)
    <3>1. Noted(done, failed)
      BY <1>13, NotedReflexive, CleanupFailureStops
    <3> HIDE DEF failed
    <3>2. Noted(failed, LogDisposal(failed, FALSE, admits))
      BY <3>1, LogDisposes DEF Noted
    <3>3. QED  BY <3>1, <3>2, NotedTransitive DEF failed
  <2>3. Watched(done, proc, coord, task', queue)
    <3>1. Watched(done, proc, coord, task, queue)
      BY <1>13, <1>14
    <3>2. /\ Cancelled({"log"}) \in [Tasks -> TaskStates]
          /\ \A t \in Tasks : Cancelled({"log"})[t] \in {task[t], "done"}
      BY <1>4, CancelledTasks
    <3>3. "cleanup" \in Tasks /\ ChildTasks \subseteq Tasks
      BY DEF Tasks, ChildTasks
    <3>4. Watched(done, proc, coord, Cancelled({"log"}), queue)
      BY <3>1, <3>2, <3>3, Rewatched
    <3>5. QED  BY <2>1, <3>1, <3>4
  <2>4. task'["control"] \in {task["control"], "done"}
    <3>1. /\ "control" \in Tasks
          /\ \A t \in Tasks : Cancelled({"log"})[t] \in {task[t], "done"}
      BY <1>4, CancelledTasks, Observer
    <3>2. QED  BY <2>1, <3>1
  <2> HIDE DEF left
  <2>5. QED  BY <1>2, <1>3, <1>13, <1>15, <2>1, <2>2, <2>3, <2>4, NotedFrom
             DEF Steady
<1>18. QED  BY <1>16, <1>17

----------------------------------------------------------------------------
\* The end of the session

\* A session record that ends while its workspace is there.
Ends(s) ==
  /\ Core(s, world) /\ Supervised(s, proc, world)
  /\ s.lc.phase = "Terminating" /\ s.workspace /\ s.status # 0
  /\ ~(s.lc.attempt.stage = "producing" /\ s.acquisition = "none")
  /\ s.acquisition = ses.acquisition /\ s.cleanup = ses.cleanup
  /\ s.attemptFinished = ses.attemptFinished /\ s.leaseLost = ses.leaseLost
  /\ s.order.ready = ses.order.ready

\* The coordinator that ends has a terminating lifecycle and its workspace.
LEMMA EndsFrom ==
  ASSUME SessionInv, coord \in {"ending", "closing"}
  PROVE  Ends(ses)
  BY DEF SessionInv, Placed, Ending, Ends

\* Bookkeeping leaves it ending.
LEMMA NotedEnds ==
  ASSUME NEW s, NEW t, Ends(s), Noted(s, t)
  PROVE  Ends(t)
<1>1. Core(t, world) /\ Supervised(t, proc, world)
  BY NotedCore, NotedSupervised DEF Ends
<1>2. t.lc.phase = "Terminating" /\ t.lc.attempt = s.lc.attempt
  BY DEF Ends, Noted, Later
<1>3. QED  BY <1>1, <1>2 DEF Ends, Noted, SameHoldings

\* The coordinator that ends the session leaves what its tasks published.
LEMMA StillWatched ==
  ASSUME SessionInv, NEW s, s.acquisition = ses.acquisition, s.cleanup = ses.cleanup,
         s.attemptFinished = ses.attemptFinished, NEW c, c # "settling"
  PROVE  Watched(s, proc, c, task, queue)
  BY WatchedOn DEF SessionInv

\* _run_session_tasks cancels the session's tasks and hears their failures.
LEMMA CancelSessionTasksKeeps ==
  ASSUME SessionInv, CancelSessionTasks
  PROVE  Steady
<1>1. PICK admits \in Admissions : Goto(Hear(ses, SessionTasks, admits), "closing")
  BY DEF CancelSessionTasks
<1> DEFINE h == Hear(ses, SessionTasks, admits)
<1>2. /\ ses' = h /\ coord' = "closing" /\ task' = Cancelled(SessionTasks)
      /\ coord = "ending" /\ UNCHANGED <<queue, control, proc, world>>
  BY <1>1 DEF CancelSessionTasks, Goto
<1>3. Noted(ses, h)
  BY Hears DEF SessionInv, Core
<1> HIDE DEF h
<1>4. Ends(h)
  BY <1>2, <1>3, EndsFrom, NotedEnds
<1>5. Placed(h, proc, world, "closing")
  BY <1>4 DEF Ends, Placed, Working, Ending, Late
<1>6. Watched(h, proc, "closing", task', queue)
  <2>1. Watched(h, proc, "closing", task, queue)
    BY <1>4, StillWatched DEF Ends
  <2>2. /\ task' \in [Tasks -> TaskStates]
        /\ \A t \in Tasks : task'[t] \in {task[t], "done"}
    BY <1>2, CancelledTasks DEF SessionInv
  <2>3. ChildTasks \subseteq Tasks /\ "cleanup" \in Tasks
    BY DEF Tasks, ChildTasks
  <2>4. QED  BY <2>1, <2>2, <2>3, Rewatched
<1>7. task'["control"] \in {task["control"], "done"}
  <2>1. \A t \in Tasks : task'[t] \in {task[t], "done"}
    BY <1>2, CancelledTasks DEF SessionInv
  <2>2. QED  BY <2>1, Observer
<1>8. QED  BY <1>2, <1>4, <1>5, <1>6, <1>7, CoordinatorStep DEF Ends, Steady

\* What the session gives up at its end.
Given == {"address", "marker", "workspace", "status"}

\* Giving back the address or the workspace, after the child is disposed of, keeps
\* what the session says of itself and of its group.
LEMMA Frees ==
  ASSUME NEW s, NEW p, NEW w, Core(s, w), Supervised(s, p, w),
         NEW t, DOMAIN t = SessionFields, Owned(t),
         \A f \in SessionFields \ (Inessential \cup Given) : t[f] = s[f]
  PROVE  /\ Core(t, w) /\ Supervised(t, p, w) /\ t.lc = s.lc
         /\ t.order = s.order
         /\ t.acquisition = s.acquisition /\ t.cleanup = s.cleanup
         /\ t.settlement = s.settlement
         /\ t.attemptFinished = s.attemptFinished /\ t.leaseLost = s.leaseLost
<1>1. /\ t.lc = s.lc /\ t.order = s.order /\ t.failures = s.failures
      /\ t.finished = s.finished
      /\ t.sigAccounted = s.sigAccounted /\ t.leaseAccounted = s.leaseAccounted
      /\ t.leaseLost = s.leaseLost
  BY DEF SessionFields, Inessential, Given
<1>2. /\ t.logOpen = s.logOpen /\ t.child = s.child
      /\ t.acquired = s.acquired /\ t.acquisition = s.acquisition
      /\ t.settlement = s.settlement /\ t.cleanup = s.cleanup
      /\ t.attemptFinished = s.attemptFinished
  BY DEF SessionFields, Inessential, Given
<1>3. Formed(t) /\ Accounted(t) /\ Staged(t, w)
  BY <1>1, <1>2 DEF Core, Formed, Accounted, Staged
<1>4. Supervised(t, p, w)
  BY <1>1, <1>2 DEF Supervised, ChildDisposed
<1>5. QED  BY <1>1, <1>2, <1>3, <1>4 DEF Core

\* A cleanup that failed is told.
LEMMA CleanupFailureTold ==
  ASSUME NEW s, Formed(s)
  PROVE  /\ Noted(s, CleanupFails(s)) /\ Codes(CleanupFails(s).lc) # {}
<1>1. "helper_failure" \in Triggers /\ "CLEANUP_FAILURE" \in Failures \cup {NoFailure}
      /\ "CLEANUP_FAILURE" # NoFailure
  BY SessionConstants, LifecycleConstants DEF Triggers, SessionFailures
<1>2. QED  BY <1>1, Stops DEF CleanupFails

\* The address and the workspace are released, or the failure is told.
LEMMA ReleaseWorkspaceKeeps ==
  ASSUME SessionInv, ReleaseWorkspace
  PROVE  Steady
<1>1. PICK stillOpen \in May("lease"), stays \in May("remove") :
       LET s == IF ses.address /\ stillOpen THEN CleanupFails(ses)
                ELSE [ses EXCEPT !.address = FALSE]
           r == [s EXCEPT !.readiness = FALSE, !.stagingClosed = TRUE]
       IN  IF ~ChildDisposed(r) \/ r.address THEN Goto(CleanupFails(r), "freezing")
           ELSE IF stays
           THEN Goto(CleanupFails([r EXCEPT !.marker = FALSE]), "freezing")
           ELSE Goto([r EXCEPT !.marker = FALSE, !.workspace = FALSE], "freezing")
  BY Zenon DEF ReleaseWorkspace
<1> DEFINE s == IF ses.address /\ stillOpen THEN CleanupFails(ses)
                ELSE [ses EXCEPT !.address = FALSE]
           r == [s EXCEPT !.readiness = FALSE, !.stagingClosed = TRUE]
           m == [r EXCEPT !.marker = FALSE]
           g == [r EXCEPT !.marker = FALSE, !.workspace = FALSE]
<1>2. /\ coord = "closing" /\ coord' = "freezing"
      /\ UNCHANGED <<queue, task, control, proc, world>>
      /\ IF ~ChildDisposed(r) \/ r.address THEN ses' = CleanupFails(r)
         ELSE ses' = CleanupFails(m) \/ ses' = g
  BY <1>1 DEF ReleaseWorkspace, Goto
<1>3. Ends(ses) /\ Formed(ses)
  BY <1>2, EndsFrom DEF Ends, Core
<1>4. Ends(s)
  <2>1. CASE s = CleanupFails(ses)
    <3>1. Noted(ses, CleanupFails(ses))
      BY <1>3, CleanupFailureTold
    <3> HIDE DEF s
    <3>2. QED  BY <1>3, <2>1, <3>1, NotedEnds
  <2>2. CASE s = [ses EXCEPT !.address = FALSE]
    <3>1. /\ DOMAIN s = SessionFields /\ ~s.address
          /\ \A f \in SessionFields \ {"address"} : s[f] = ses[f]
      BY <1>3, <2>2 DEF Formed, SessionFields
    <3> HIDE DEF s
    <3>2. s.workspace = ses.workspace /\ s.marker = ses.marker /\ s.status = ses.status
          /\ s.acquisition = ses.acquisition /\ s.settlement = ses.settlement
      BY <3>1 DEF SessionFields
    <3>3. Owned(s)
      BY <1>3, <3>1, <3>2 DEF Ends, Core, Owned, ChildDisposed
    <3>4. \A f \in SessionFields \ (Inessential \cup Given) : s[f] = ses[f]
      BY <3>1 DEF Given
    <3>5. /\ Core(s, world) /\ Supervised(s, proc, world) /\ s.lc = ses.lc
          /\ s.order = ses.order
          /\ s.cleanup = ses.cleanup
          /\ s.attemptFinished = ses.attemptFinished /\ s.leaseLost = ses.leaseLost
      BY <1>3, <3>1, <3>3, <3>4, Frees DEF Ends
    <3>6. QED  BY <1>3, <3>2, <3>5 DEF Ends
  <2>3. QED  BY <2>1, <2>2
<1> HIDE DEF s
<1>5. Ends(r) /\ Formed(r)
  <2>1. Formed(s)
    BY <1>4 DEF Ends, Core
  <2>2. /\ DOMAIN r = SessionFields
        /\ \A f \in SessionFields \ Inessential : r[f] = s[f]
    BY <2>1 DEF Formed, Inessential
  <2> HIDE DEF r
  <2>3. Noted(s, r)
    BY <2>1, <2>2, Keeps
  <2>4. QED  BY <1>4, <2>3, NotedEnds DEF Ends, Core
<1> HIDE DEF r
<1>6. ASSUME NEW t, Ends(t), Codes(t.lc) # {}, ses' = t
      PROVE  Steady
  <2>1. Placed(t, proc, world, "freezing")
    BY <1>6 DEF Ends, Placed, Working, Ending, Late
  <2>2. Watched(t, proc, "freezing", task, queue)
    BY <1>6, StillWatched DEF Ends
  <2>3. QED  BY <1>2, <1>6, <2>1, <2>2, CoordinatorStep DEF Ends, Steady
<1>7. ASSUME NEW t, Ends(t) PROVE Ends(CleanupFails(t)) /\ Codes(CleanupFails(t).lc) # {}
  <2>1. Noted(t, CleanupFails(t)) /\ Codes(CleanupFails(t).lc) # {}
    BY <1>7, CleanupFailureTold DEF Ends, Core
  <2>2. QED  BY <1>7, <2>1, NotedEnds
<1>8. CASE ~ChildDisposed(r) \/ r.address
  BY <1>2, <1>5, <1>6, <1>7, <1>8
<1>9. CASE ChildDisposed(r) /\ ~r.address
  <2>1. CASE ses' = CleanupFails(m)
    <3>1. /\ DOMAIN m = SessionFields
          /\ \A f \in SessionFields \ {"marker"} : m[f] = r[f]
      BY <1>5 DEF Formed, SessionFields
    <3> HIDE DEF m
    <3>2. m.workspace = r.workspace /\ m.status = r.status
          /\ m.acquisition = r.acquisition /\ m.settlement = r.settlement
      BY <3>1 DEF SessionFields
    <3>3. Owned(m)
      BY <1>5, <1>9, <3>2 DEF Ends, Owned, ChildDisposed
    <3>4. \A f \in SessionFields \ (Inessential \cup Given) : m[f] = r[f]
      BY <3>1 DEF Given
    <3>5. /\ Core(m, world) /\ Supervised(m, proc, world) /\ m.lc = r.lc
          /\ m.order = r.order
          /\ m.cleanup = r.cleanup
          /\ m.attemptFinished = r.attemptFinished /\ m.leaseLost = r.leaseLost
      BY <1>5, <3>1, <3>3, <3>4, Frees DEF Ends
    <3>6. Ends(m)
      BY <1>5, <3>2, <3>5 DEF Ends
    <3>7. QED  BY <1>6, <1>7, <2>1, <3>6
  <2>2. CASE ses' = g
    <3>1. /\ DOMAIN g = SessionFields /\ ~g.workspace
          /\ \A f \in SessionFields \ {"marker", "workspace"} : g[f] = r[f]
      BY <1>5 DEF Formed, SessionFields
    <3> HIDE DEF g
    <3>2. g.address = r.address /\ g.status = r.status
          /\ g.acquisition = r.acquisition /\ g.settlement = r.settlement
      BY <3>1 DEF SessionFields
    <3>3. Owned(g)
      BY <1>9, <3>2 DEF Owned, ChildDisposed
    <3>4. \A f \in SessionFields \ (Inessential \cup Given) : g[f] = r[f]
      BY <3>1 DEF Given
    <3>5. /\ Core(g, world) /\ Supervised(g, proc, world) /\ g.lc = r.lc
          /\ g.order = r.order
          /\ g.cleanup = r.cleanup
          /\ g.attemptFinished = r.attemptFinished /\ g.leaseLost = r.leaseLost
      BY <1>5, <3>1, <3>3, <3>4, Frees DEF Ends
    <3>6. Placed(g, proc, world, "freezing")
      BY <1>5, <3>1, <3>2, <3>5 DEF Ends, Placed, Working, Ending, Late
    <3>7. Watched(g, proc, "freezing", task, queue)
      BY <1>5, <3>2, <3>5, StillWatched DEF Ends
    <3>8. QED  BY <1>2, <1>5, <2>2, <3>5, <3>6, <3>7, CoordinatorStep DEF Ends, Steady
  <2>3. QED  BY <1>2, <1>9, <2>1, <2>2
<1>10. QED  BY <1>8, <1>9

\* The snapshot of a terminating lifecycle.
LEMMA Freezes ==
  ASSUME NEW l, LcSound(l), l.phase = "Terminating", NEW cleanup \in Cleanups, NEW log \in Logs
  PROVE  LET m == Freeze(l, cleanup, log) IN
         /\ LcSound(m) /\ Codes(m) = Codes(l) /\ m.phase = "Closed"
         /\ m.cleanup = cleanup /\ m.log = log /\ m.outcome = l.outcome
         /\ m.attempt = l.attempt /\ m.evidence = l.evidence /\ m.local = l.local
<1> DEFINE m == Freeze(l, cleanup, log)
<1>1. m = [l EXCEPT !.phase = "Closed", !.cleanup = cleanup, !.log = log]
  BY DEF Freeze
<1>2. l \in Lifecycles
  BY DEF LcSound
<1> HIDE DEF m
<1>3. m \in Lifecycles
  BY <1>1, <1>2 DEF Lifecycles, Phases
<1>4. /\ m.phase = "Closed" /\ m.cleanup = cleanup /\ m.log = log
      /\ m.outcome = l.outcome /\ m.attempt = l.attempt
      /\ m.evidence = l.evidence /\ m.local = l.local
  BY <1>1, <1>2 DEF Lifecycles
<1>5. LcSound(m) /\ Codes(m) = Codes(l)
  BY <1>3, <1>4 DEF LcSound, Ended, Codes, Told
<1>6. QED  BY <1>4, <1>5 DEF m

\* _log_report calls the log complete for a child that was never confirmed only when
\* it was never opened.
LEMMA LogReports ==
  ASSUME NEW s, NEW cleanup
  PROVE  /\ LogReport(s, cleanup) \in Logs
         /\ LogReport(s, cleanup) = "complete" /\ cleanup.child = "unconfirmed" =>
              want.log /\ ~s.logOpen
  BY DEF LogReport, Logs, Relay!Report

\* What _cleanup_report says of the child and of the workspace.
LEMMA CleanupReports ==
  ASSUME NEW s
  PROVE  /\ CleanupReport(s) \in Cleanups
         /\ CleanupReport(s).child = "unconfirmed" <=> ~ChildDisposed(s) \/ s.address
         /\ CleanupReport(s).child = "not_acquired" => ~s.acquired
         /\ CleanupReport(s).workspace = "unconfirmed" <=> s.workspace
         /\ CleanupReport(s).workspace # "not_created"
  BY DEF CleanupReport, Cleanups, ChildDisposals, WorkspaceDisposals

\* Staged, except that the attempt of a child still in hand may be settled.
Reached(s, w) ==
  /\ s.acquisition \in {"none", "child", "no process", "rolled back", "leaked"}
  /\ s.acquisition # "none" => s.lc.phase # "Created" /\ (w.request.log => s.logOpen)
  /\ s.acquisition = "child" => s.acquired
  /\ s.acquisition = "none" =>
       /\ s.lc.attempt.stage \in {"none", "authorized", "producing"}
       /\ s.lc.evidence = {} /\ ~s.acquired
  /\ s.acquisition # "child" =>
       ~s.child /\ s.cleanup = "none" /\ ~s.attemptFinished /\ s.settlement = "none"
  /\ s.settlement = "confirmed" => s.attemptFinished
  /\ s.lc.attempt.result.seen => s.acquired

\* What the snapshot is made of: the session with its attempt settled.
Frozenable(s) ==
  /\ Formed(s) /\ Accounted(s) /\ Reached(s, world) /\ Owned(s)
  /\ Supervised(s, proc, world) /\ s.lc.phase = "Terminating"
  /\ ~(s.lc.attempt.stage = "producing" /\ s.acquisition = "none")
  /\ SameHoldings(ses, s) /\ s.leaseLost = ses.leaseLost
  /\ s.order.ready = ses.order.ready
  /\ s.workspace => Codes(s.lc) # {}

\* freeze() refuses the unopened log of an unreleased address only.
LEMMA FreezeAccepts ==
  ASSUME NEW s, Frozenable(s),
         InProduction(s.lc) => ~ChildDisposed(s) \/ s.address,
         ~CanFreeze(s.lc, CleanupReport(s), LogReport(s, CleanupReport(s)))
  PROVE  want.log /\ ~s.logOpen /\ s.address /\ ~s.acquired
<1> DEFINE cleanup == CleanupReport(s)
           log     == LogReport(s, cleanup)
<1>1. /\ cleanup.child = "unconfirmed" <=> ~ChildDisposed(s) \/ s.address
      /\ cleanup.child = "not_acquired" => ~s.acquired
      /\ cleanup.workspace = "unconfirmed" <=> s.workspace
      /\ cleanup \in Cleanups
  BY CleanupReports
<1>2. /\ log \in Logs
      /\ log = "complete" /\ cleanup.child = "unconfirmed" => want.log /\ ~s.logOpen
  BY LogReports
<1>3. ~CanFreeze(s.lc, cleanup, log)
  OBVIOUS
<1> HIDE DEF cleanup, log
<1>4. ValidCleanup(cleanup)
  BY <1>1 DEF ValidCleanup, Frozenable, Owned
<1>5. cleanup.child = "not_acquired" => ~s.lc.outcome.result.seen
  BY <1>1 DEF Frozenable, Reached, Formed, LcSound, Ended
<1>6. \/ CleanupConfirmed(cleanup)
      \/ s.lc.outcome.primary # NoFailure \/ s.lc.outcome.diagnostics # << >>
  <2>1. SUFFICES ASSUME s.workspace
                 PROVE  s.lc.outcome.primary # NoFailure \/ s.lc.outcome.diagnostics # << >>
    BY <1>1, <1>4 DEF CleanupConfirmed, ValidCleanup
  <2>2. Codes(s.lc) # {} /\ s.lc.local = << >>
    BY <2>1 DEF Frozenable, Formed, LcSound
  <2>3. Range(<< >>) = {}
    BY DEF Range
  <2>4. QED  BY <2>2, <2>3 DEF Codes, Told
<1>7. log = "complete" /\ cleanup.child = "unconfirmed"
  BY <1>1, <1>3, <1>4, <1>5, <1>6 DEF CanFreeze, ValidSnapshot, Frozenable
<1>8. want.log /\ ~s.logOpen
  BY <1>2, <1>7
<1>9. s.acquisition = "none" /\ ~s.acquired
  BY <1>8 DEF Frozenable, Reached, want
<1>10. s.address
  BY <1>1, <1>7, <1>9 DEF ChildDisposed
<1>11. QED  BY <1>8, <1>9, <1>10

\* The attempt that left nothing behind is settled before the snapshot.
LEMMA SettledForSnapshot ==
  ASSUME SessionInv, coord = "freezing", NEW settled,
         settled = IF ChildDisposed(ses) /\ ~ses.address /\ ses.acquisition # "none"
                   THEN [ses EXCEPT !.lc = SettleAttempt(@, TRUE, TRUE)] ELSE ses
  PROVE  /\ Frozenable(settled) /\ settled.sigPending = ses.sigPending
         /\ settled.order = ses.order
         /\ InProduction(settled.lc) => ~ChildDisposed(ses) \/ ses.address
<1>1. /\ Core(ses, world) /\ Placed(ses, proc, world, coord) /\ Supervised(ses, proc, world)
      /\ Watched(ses, proc, coord, task, queue)
  BY DEF SessionInv
<1>2. Frozenable(ses) /\ ses.status # 0
  <2>1. ses.lc.phase = "Terminating" /\ ses.status # 0 /\ (ses.workspace => Codes(ses.lc) # {})
        /\ ~(ses.lc.attempt.stage = "producing" /\ ses.acquisition = "none")
    BY <1>1 DEF Placed, Ending
  <2>2. Reached(ses, world)
    BY <1>1 DEF Core, Staged, Reached
  <2>3. QED  BY <1>1, <2>1, <2>2 DEF Core, Frozenable, SameHoldings
<1>3. /\ Frozenable(settled) /\ settled.sigPending = ses.sigPending
      /\ settled.order = ses.order
      /\ InProduction(settled.lc) => ~ChildDisposed(ses) \/ ses.address
  <2>1. CASE ChildDisposed(ses) /\ ~ses.address /\ ses.acquisition # "none"
    <3> DEFINE l == SettleAttempt(ses.lc, TRUE, TRUE)
    <3>1. /\ DOMAIN settled = SessionFields /\ settled.lc = l
          /\ LcOnly(ses, settled)
      BY <1>1, <2>1 DEF Core, Formed, SessionFields, LcOnly
    <3>2. /\ LcSound(l) /\ Codes(l) = Codes(ses.lc) /\ l.phase = ses.lc.phase
          /\ l.required = ses.lc.required /\ l.evidence = ses.lc.evidence
          /\ l.attempt.result = ses.lc.attempt.result
          /\ l.attempt.requested \in {ses.lc.attempt.requested, FALSE}
          /\ l.attempt.stage \in {ses.lc.attempt.stage, "settled"}
          /\ ~InProduction(l)
      <4> DEFINE d == ses.lc
      <4>1. LcSound(d) /\ d.phase = "Terminating"
        BY <1>2 DEF Frozenable, Formed
      <4> HIDE DEF d
      <4>2. LET m == SettleAttempt(d, TRUE, TRUE) IN
            /\ LcSound(m) /\ Codes(m) = Codes(d) /\ m.phase = d.phase
            /\ m.required = d.required /\ m.evidence = d.evidence
            /\ m.attempt.result = d.attempt.result
            /\ m.attempt.requested \in {d.attempt.requested, FALSE}
            /\ m.attempt.stage \in {d.attempt.stage, "settled"}
            /\ ~InProduction(m)
        BY <4>1, Settles
      <4>3. QED  BY <4>2 DEF d
    <3> HIDE DEF l
    <3>3. /\ Formed(settled) /\ SameHoldings(ses, settled)
          /\ settled.leaseLost = ses.leaseLost /\ settled.sigPending = ses.sigPending
          /\ settled.order = ses.order
          /\ settled.sigAccounted = ses.sigAccounted
          /\ settled.leaseAccounted = ses.leaseAccounted
      BY <1>1, <3>1, <3>2, LcOnlyHolds DEF Core
    <3>4. Accounted(settled)
      BY <1>1, <3>1, <3>2, <3>3 DEF Core, Accounted
    <3>5. Reached(settled, world)
      BY <1>2, <2>1, <3>1, <3>2, <3>3, ZenonT(60) DEF Frozenable, Reached, SameHoldings
    <3>6. Owned(settled)
      BY <1>1, <3>3 DEF Core, Owned, SameHoldings, ChildDisposed
    <3>7. Supervised(settled, proc, world)
      BY <1>1, <3>1, <3>2, <3>3 DEF Supervised, SameHoldings, ChildDisposed, Ended
    <3>8. settled.acquisition # "none"
      BY <2>1, <3>3 DEF SameHoldings
    <3>9. QED  BY <1>2, <3>1, <3>2, <3>3, <3>4, <3>5, <3>6, <3>7, <3>8
                DEF Frozenable, SameHoldings
  <2>2. CASE ~(ChildDisposed(ses) /\ ~ses.address /\ ses.acquisition # "none")
    <3>1. settled = ses
      BY <2>2
    <3>2. InProduction(ses.lc) => ses.acquisition # "none"
      BY <1>1 DEF InProduction, Core, Staged, Placed
    <3>3. QED  BY <1>2, <2>2, <3>1, <3>2
  <2>3. QED  BY <2>1, <2>2
<1>4. QED  BY <1>3

\* _freeze takes the snapshot, or freeze() raises on the one combination it refuses.
LEMMA FreezeSnapshotKeeps ==
  ASSUME SessionInv, FreezeSnapshot
  PROVE  Steady
<1>1. PICK admits \in Admissions :
       LET cleanup == CleanupReport(ses)
           settled == IF ChildDisposed(ses) /\ ~ses.address /\ ses.acquisition # "none"
                      THEN [ses EXCEPT !.lc = SettleAttempt(@, TRUE, TRUE)] ELSE ses
           s       == Account(settled, admits)
           log     == LogReport(s, cleanup)
       IN  IF CanFreeze(s.lc, cleanup, log)
           THEN Goto([s EXCEPT !.lc = Freeze(@, cleanup, log)], "delivering")
           ELSE Goto([s EXCEPT !.status = 1], "crashed")
  BY Zenon DEF FreezeSnapshot
<1> DEFINE cleanup == CleanupReport(ses)
           settled == IF ChildDisposed(ses) /\ ~ses.address /\ ses.acquisition # "none"
                      THEN [ses EXCEPT !.lc = SettleAttempt(@, TRUE, TRUE)] ELSE ses
           s       == Account(settled, admits)
           log     == LogReport(s, cleanup)
           f       == [s EXCEPT !.lc = Freeze(@, cleanup, log)]
           c       == [s EXCEPT !.status = 1]
<1>2. /\ coord = "freezing" /\ UNCHANGED <<queue, task, control, proc, world>>
      /\ IF CanFreeze(s.lc, cleanup, log) THEN ses' = f /\ coord' = "delivering"
         ELSE ses' = c /\ coord' = "crashed"
  BY <1>1 DEF FreezeSnapshot, Goto
<1>3. Core(ses, world) /\ ses.status # 0
  BY <1>2 DEF SessionInv, Placed
<1>4. settled = IF ChildDisposed(ses) /\ ~ses.address /\ ses.acquisition # "none"
                THEN [ses EXCEPT !.lc = SettleAttempt(@, TRUE, TRUE)] ELSE ses
  OBVIOUS
<1> HIDE DEF settled
<1>5. Frozenable(settled) /\ (InProduction(settled.lc) => ~ChildDisposed(ses) \/ ses.address)
  BY <1>2, <1>4, SettledForSnapshot
<1>6. Noted(settled, s)
  BY <1>5, Accounts DEF Frozenable
<1> HIDE DEF s
<1>7. Frozenable(s) /\ (InProduction(s.lc) => ~ChildDisposed(s) \/ s.address)
  <2>1. Formed(s) /\ Accounted(s) /\ Supervised(s, proc, world)
    BY <1>5, <1>6, NotedAccounted, NotedSupervised DEF Frozenable, Noted
  <2>2. /\ SameHoldings(ses, s) /\ s.leaseLost = ses.leaseLost
        /\ s.order.ready = ses.order.ready
    BY <1>5, <1>6 DEF Frozenable, Noted, SameHoldings
  <2>3. /\ s.lc.phase = "Terminating" /\ s.lc.attempt = settled.lc.attempt
        /\ Codes(settled.lc) \subseteq Codes(s.lc)
    BY <1>5, <1>6 DEF Frozenable, Noted, Later
  <2>4. s.workspace => Codes(s.lc) # {}
    BY <1>5, <1>6, <2>3 DEF Frozenable, Noted, SameHoldings
  <2>5. InProduction(s.lc) => ~ChildDisposed(s) \/ s.address
    BY <1>5, <2>2, <2>3 DEF InProduction, SameHoldings, ChildDisposed
  <2>6. s.lc.evidence = {}
    BY <2>1, <2>3 DEF Formed, LcSound, Ended
  <2>7. SameHoldings(settled, s)
    BY <1>6 DEF Noted
  <2>8. Reached(s, world) /\ Owned(s)
    BY <1>5, <2>3, <2>6, <2>7, ZenonT(60) DEF Frozenable, Reached, Owned, SameHoldings,
       ChildDisposed
  <2>9. ~(s.lc.attempt.stage = "producing" /\ s.acquisition = "none")
    BY <1>5, <2>3, <2>7 DEF Frozenable, SameHoldings
  <2>10. QED  BY <2>1, <2>2, <2>3, <2>4, <2>5, <2>8, <2>9 DEF Frozenable
<1>8. CleanupReport(s) = cleanup
  BY <1>7 DEF Frozenable, SameHoldings, CleanupReport, ChildDisposed
<1>9. cleanup \in Cleanups /\ log \in Logs
  BY CleanupReports, LogReports
<1>10. Formed(s) /\ s.status # 0
  BY <1>3, <1>7 DEF Frozenable, SameHoldings
<1>11. CASE CanFreeze(s.lc, cleanup, log)
  <2> DEFINE l == Freeze(s.lc, cleanup, log)
  <2>1. ses' = f /\ coord' = "delivering"
    BY <1>2, <1>11
  <2>2. f.lc = l /\ LcOnly(s, f)
    BY <1>10 DEF Formed, SessionFields, LcOnly
  <2> HIDE DEF cleanup, log
  <2>3. /\ LcSound(l) /\ Codes(l) = Codes(s.lc) /\ l.phase = "Closed"
        /\ l.cleanup = cleanup
        /\ l.attempt = s.lc.attempt /\ l.evidence = s.lc.evidence
    <3> DEFINE d == s.lc
    <3>1. LcSound(d) /\ d.phase = "Terminating"
      BY <1>7, <1>10 DEF Frozenable, Formed
    <3> HIDE DEF d
    <3>2. LET m == Freeze(d, cleanup, log) IN
          /\ LcSound(m) /\ Codes(m) = Codes(d) /\ m.phase = "Closed"
          /\ m.cleanup = cleanup
          /\ m.attempt = d.attempt /\ m.evidence = d.evidence
      BY <1>9, <3>1, Freezes
    <3>3. QED  BY <3>2 DEF d
  <2> HIDE DEF l, f
  <2>4. /\ Formed(f) /\ SameHoldings(s, f) /\ f.leaseLost = s.leaseLost
        /\ f.order = s.order
        /\ f.sigAccounted = s.sigAccounted /\ f.leaseAccounted = s.leaseAccounted
    BY <1>10, <2>2, <2>3, LcOnlyHolds
  <2>5. Accounted(f) /\ Owned(f)
    BY <1>7, <2>2, <2>3, <2>4
       DEF Frozenable, Accounted, Owned, SameHoldings, ChildDisposed
  <2>6. Staged(f, world)
    BY <1>7, <2>2, <2>3, <2>4, ZenonT(60) DEF Frozenable, Reached, Staged, SameHoldings, Ended
  <2>7. Supervised(f, proc, world)
    BY <1>7, <2>2, <2>3, <2>4 DEF Frozenable, Supervised, SameHoldings, ChildDisposed, Ended
  <2>8. f.lc.cleanup = CleanupReport(f)
    BY <1>8, <2>2, <2>3, <2>4 DEF SameHoldings, CleanupReport, ChildDisposed
  <2>9. ~(f.lc.attempt.stage = "producing" /\ f.acquisition = "none")
    BY <1>7, <2>2, <2>3, <2>4 DEF Frozenable, SameHoldings
  <2>10. Placed(f, proc, world, "delivering")
    BY <1>10, <2>2, <2>3, <2>4, <2>8, <2>9 DEF Placed, Working, Ending, Late, SameHoldings
  <2>11. Watched(f, proc, "delivering", task, queue)
    BY <1>7, <2>4, StillWatched DEF Frozenable, SameHoldings
  <2>12. QED  BY <1>2, <1>7, <2>1, <2>4, <2>5, <2>6, <2>7, <2>10, <2>11, CoordinatorStep
              DEF Core, Frozenable, Steady
<1>12. CASE ~CanFreeze(s.lc, cleanup, log)
  <2>1. ses' = c /\ coord' = "crashed"
    BY <1>2, <1>12
  <2>2. want.log /\ ~s.logOpen /\ s.address /\ ~s.acquired
    BY <1>7, <1>8, <1>12, FreezeAccepts
  <2>3. s.acquisition = "none" /\ Core(ses, world) /\ Noted(ses, s)
    <3>1. s.acquisition = "none"
      BY <1>7, <2>2 DEF Frozenable, Reached, want
    <3>2. ses.acquisition = "none"
      BY <1>7, <3>1 DEF Frozenable, SameHoldings
    <3>3. settled = ses
      BY <1>4, <3>2
    <3>4. QED  BY <1>3, <1>6, <3>1, <3>3
  <2>4. Core(s, world)
    BY <2>3, NotedCore
  <2>5. /\ DOMAIN c = SessionFields /\ c.status = 1
        /\ \A x \in SessionFields \ {"status"} : c[x] = s[x]
    BY <1>10 DEF Formed, SessionFields
  <2> HIDE DEF c
  <2>6. c.workspace = s.workspace /\ c.address = s.address /\ c.marker = s.marker
        /\ c.acquisition = s.acquisition /\ c.settlement = s.settlement
        /\ c.logOpen = s.logOpen /\ c.acquired = s.acquired
    BY <2>5 DEF SessionFields
  <2>7. Owned(c)
    BY <1>7, <2>6 DEF Frozenable, Owned, ChildDisposed
  <2>8. \A x \in SessionFields \ (Inessential \cup Given) : c[x] = s[x]
    BY <2>5 DEF Given
  <2>9. /\ Core(c, world) /\ Supervised(c, proc, world) /\ c.lc = s.lc
        /\ c.order = s.order
        /\ c.cleanup = s.cleanup
        /\ c.attemptFinished = s.attemptFinished /\ c.leaseLost = s.leaseLost
    BY <1>7, <2>4, <2>5, <2>7, <2>8, Frees DEF Frozenable
  <2>10. ~(c.lc.attempt.stage = "producing" /\ c.acquisition = "none")
    BY <1>7, <2>6, <2>9 DEF Frozenable
  <2>11. Placed(c, proc, world, "crashed")
    BY <1>7, <2>2, <2>5, <2>6, <2>9, <2>10
       DEF Frozenable, Placed, Working, Ending, Late, want
  <2>12. Watched(c, proc, "crashed", task, queue)
    BY <1>7, <2>6, <2>9, StillWatched DEF Frozenable, SameHoldings
  <2>13. QED  BY <1>2, <1>7, <2>1, <2>9, <2>11, <2>12, CoordinatorStep
              DEF Frozenable, Steady
<1>13. QED  BY <1>11, <1>12

\* A failure that comes after the snapshot is kept beside it.
LEMMA LateFailure ==
  ASSUME NEW l, LcSound(l), l.phase = "Closed", NEW trigger, NEW failure \in Failures
  PROVE  Terminate(l, trigger, failure).local # << >>
<1> DEFINE m == Terminate(l, trigger, failure)
<1>1. failure # NoFailure /\ l \in Lifecycles
  BY LifecycleConstants DEF LcSound
<1>2. m = [l EXCEPT !.local = Append(l.local, failure)]
  BY <1>1 DEF Terminate
<1>3. l.local \in Seq(Failures)
  BY <1>1 DEF Lifecycles
<1>4. m.local = Append(l.local, failure)
  BY <1>1, <1>2 DEF Lifecycles
<1>5. Append(l.local, failure) # << >>
  BY <1>3, Appended
<1>6. QED  BY <1>4, <1>5

\* The terminal event is delivered, or its failure told by the exit status.
LEMMA TerminalStops ==
  ASSUME NEW s, Formed(s), s.lc.phase = "Closed"
  PROVE  LET t == Stop(s, "output_failure", "TERMINAL_DELIVERY") IN
         Noted(s, t) /\ t.lc.local # << >>
<1> DEFINE t == Stop(s, "output_failure", "TERMINAL_DELIVERY")
           l == s.lc
<1>1. /\ "output_failure" \in Triggers /\ "TERMINAL_DELIVERY" \in SessionFailures
      /\ "TERMINAL_DELIVERY" \in Failures
  BY SessionConstants DEF Triggers, SessionFailures
<1>2. Noted(s, s)
  BY NotedReflexive
<1>3. Noted(s, t)
  BY <1>1, <1>2, NotedStops
<1>4. t.lc = Terminate(l, "output_failure", "TERMINAL_DELIVERY")
  BY DEF Stop, Formed, SessionFields
<1>5. LcSound(l) /\ l.phase = "Closed"
  BY DEF Formed
<1> HIDE DEF l
<1>6. t.lc.local # << >>
  BY <1>1, <1>4, <1>5, LateFailure
<1>7. QED  BY <1>3, <1>6

\* The terminal event ends the client's event stream or faults it.
LEMMA TerminalEventKeeps ==
  ASSUME NEW o, DOMAIN o = EventFields, NEW result, NEW child, NEW workspace, NEW log,
         NEW count
  PROVE  LET n == Order!SessionEnded(o, result, child, workspace, log, count) IN
         DOMAIN n = EventFields /\ n.ready = o.ready /\ Delivered(n)
  BY DEF Order!SessionEnded, Order!Judge, EventFields, Delivered

\* Bookkeeping after the snapshot.
LEMMA LateStep ==
  ASSUME SessionInv, coord \in Late \ {"exited"}, coord' \in {"draining", "exiting"},
         Noted(ses, ses'),
         (ses'.lc.local # << >> /\ coord' = "exiting") \/ Delivered(ses'.order),
         UNCHANGED <<queue, task, control, proc, world>>
  PROVE  Steady
<1>1. /\ Core(ses, world) /\ Placed(ses, proc, world, coord) /\ Supervised(ses, proc, world)
      /\ Watched(ses, proc, coord, task, queue)
  BY DEF SessionInv
<1>2. Core(ses', world) /\ Supervised(ses', proc, world)
  BY <1>1, NotedCore, NotedSupervised
<1>3. SameHoldings(ses, ses') /\ Later(ses.lc, ses'.lc) /\ ses'.leaseLost = ses.leaseLost
  BY DEF Noted
<1>4. /\ ses.lc.phase = "Closed" /\ ses.lc.cleanup = CleanupReport(ses) /\ ses.status # 0
      /\ ~(ses.lc.attempt.stage = "producing" /\ ses.acquisition = "none")
  BY <1>1 DEF Placed, Late
<1>5. CleanupReport(ses') = CleanupReport(ses)
  BY <1>3 DEF SameHoldings, CleanupReport, ChildDisposed
<1>6. Placed(ses', proc, world, coord')
  BY <1>3, <1>4, <1>5 DEF SameHoldings, Later, Placed, Working, Ending, Late
<1>7. coord' # "settling" /\ coord' # "exited"
  OBVIOUS
<1>8. Watched(ses', proc, coord', task, queue)
  BY <1>3, <1>7, StillWatched DEF SameHoldings
<1>9. QED  BY <1>2, <1>3, <1>6, <1>7, <1>8, CoordinatorStep DEF Noted, Steady

\* _emit_terminal sends the snapshot to the client.
LEMMA EmitTerminalKeeps ==
  ASSUME SessionInv, EmitTerminal
  PROVE  Steady
<1>1. /\ coord = "delivering" /\ UNCHANGED <<queue, task, control, proc, world>>
      /\ \/ ses' = Stop(ses, "output_failure", "TERMINAL_DELIVERY") /\ coord' = "exiting"
         \/ /\ ses' = [ses EXCEPT !.order =
                  Order!SessionEnded(@, ses.lc.outcome.result.seen, ses.lc.cleanup.child,
                                     ses.lc.cleanup.workspace, ses.lc.log,
                                     IF ses.logOpen THEN ses.relay.admitted ELSE 0)]
            /\ coord' = "draining"
  BY DEF EmitTerminal, Goto
<1>2. Formed(ses) /\ ses.lc.phase = "Closed"
  BY <1>1 DEF SessionInv, Core, Placed, Late
<1>3. CASE ses' = Stop(ses, "output_failure", "TERMINAL_DELIVERY") /\ coord' = "exiting"
  <2>1. Noted(ses, ses') /\ ses'.lc.local # << >>
    BY <1>2, <1>3, TerminalStops
  <2>2. QED  BY <1>1, <1>3, <2>1, LateStep DEF Late
<1>4. CASE coord' = "draining"
  <2> DEFINE order ==
        Order!SessionEnded(ses.order, ses.lc.outcome.result.seen, ses.lc.cleanup.child,
                           ses.lc.cleanup.workspace, ses.lc.log,
                           IF ses.logOpen THEN ses.relay.admitted ELSE 0)
  <2>1. ses' = [ses EXCEPT !.order = order]
    BY <1>1, <1>4
  <2>2. DOMAIN order = EventFields /\ order.ready = ses.order.ready /\ Delivered(order)
    BY <1>2, TerminalEventKeeps DEF Formed
  <2> HIDE DEF order
  <2>3. Noted(ses, ses')
    BY <1>2, <2>1, <2>2, Events
  <2>4. Delivered(ses'.order)
    BY <1>2, <2>1, <2>2 DEF Formed, SessionFields
  <2>5. QED  BY <1>1, <1>4, <2>3, <2>4, LateStep DEF Late
<1>5. QED  BY <1>1, <1>3, <1>4

\* The rest of the output is written, or its failure told beside the snapshot.
LEMMA DrainOutputKeeps ==
  ASSUME SessionInv, DrainOutput
  PROVE  Steady
<1>1. /\ coord = "draining" /\ coord' = "exiting"
      /\ UNCHANGED <<queue, task, control, proc, world>>
      /\ ses' \in {ses, Stop(ses, "output_failure", "TERMINAL_DELIVERY")}
  BY DEF DrainOutput, Goto
<1>2. Formed(ses) /\ ses.lc.phase = "Closed" /\ Delivered(ses.order)
  BY <1>1 DEF SessionInv, Core, Placed, Late
<1>3. Noted(ses, ses')
  BY <1>1, <1>2, NotedReflexive, TerminalStops
<1>4. Delivered(ses'.order)
  BY <1>2, <1>3 DEF Noted
<1>5. QED  BY <1>1, <1>3, <1>4, LateStep DEF Late

----------------------------------------------------------------------------
\* The exit status

\* A snapshot that did not fail, with no failure after it, carries no
\* diagnostic at all.
LEMMA SuccessIsClean ==
  ASSUME NEW l, LcSound(l), l.local = << >>, NEW policy \in Policies,
         ~SnapshotFailed(l, policy)
  PROVE  Codes(l) = {} /\ l.outcome.primary = NoFailure /\ CleanupConfirmed(l.cleanup)
<1>1. CleanupConfirmed(l.cleanup) /\ ~OutcomeFailed(l.outcome, policy)
  BY DEF SnapshotFailed
<1>2. l.outcome.primary = NoFailure
  BY <1>1 DEF OutcomeFailed
<1>3. ~NaturalFailure(l.outcome.result)
  BY <1>1 DEF OutcomeFailed, Policies, NaturalFailure
<1>4. l.outcome.diagnostics = << >>
  BY <1>2, <1>3 DEF LcSound
<1>5. Range(<< >>) = {}
  BY DEF Range
<1>6. QED  BY <1>1, <1>2, <1>4, <1>5 DEF Codes, Told

\* The last accounting leaves an exit status that ExitStatusIsHonest allows.
LEMMA ExitIsHonest ==
  ASSUME SessionInv, Exit
  PROVE  Steady
<1> DEFINE s      == Account(ses, FALSE)
           policy == IF s.started THEN want.policy ELSE "live_server"
           status == IF s.lc.local # << >> \/ SnapshotFailed(s.lc, policy) THEN 1 ELSE 0
           e      == [s EXCEPT !.status = status]
<1>1. /\ coord = "exiting" /\ coord' = "exited" /\ ses' = e /\ task' = Cancelled(Tasks)
      /\ UNCHANGED <<queue, control, proc, world>>
  BY DEF Exit, Goto
<1>2. /\ Core(ses, world) /\ Placed(ses, proc, world, coord) /\ Supervised(ses, proc, world)
      /\ Watched(ses, proc, coord, task, queue) /\ Heard(ses, task, control)
      /\ world \in Worlds
  BY DEF SessionInv
<1>3. /\ Noted(ses, s) /\ Formed(s)
      /\ ses.sigPending => "REMOTE_SIGNAL" \in Codes(s.lc)
      /\ ses.leaseLost => "CONTROLLER_LEASE_LOST" \in Codes(s.lc)
  BY SessionAccounts
<1>4. policy \in Policies
  BY <1>2, SessionConstants DEF want, World, Policies
<1> HIDE DEF s, policy
<1>5. status = 0 => s.lc.local = << >> /\ ~SnapshotFailed(s.lc, policy)
  OBVIOUS
<1> HIDE DEF status
<1>6. Core(s, world) /\ Supervised(s, proc, world)
  BY <1>2, <1>3, NotedCore, NotedSupervised
<1>7. /\ DOMAIN e = SessionFields /\ e.status = status
      /\ \A f \in SessionFields \ {"status"} : e[f] = s[f]
  BY <1>3 DEF Formed, SessionFields
<1> HIDE DEF e
<1>8. /\ e.workspace = s.workspace /\ e.address = s.address /\ e.marker = s.marker
      /\ e.acquisition = s.acquisition /\ e.settlement = s.settlement
      /\ e.acquired = s.acquired /\ e.child = s.child
      /\ e.order = s.order /\ e.sigPending = s.sigPending
  BY <1>7 DEF SessionFields
<1>9. Owned(e)
  BY <1>6, <1>8 DEF Core, Owned, ChildDisposed
<1>10. \A f \in SessionFields \ (Inessential \cup Given) : e[f] = s[f]
  BY <1>7 DEF Given
<1>11. /\ Core(e, world) /\ Supervised(e, proc, world) /\ e.lc = s.lc
       /\ e.cleanup = s.cleanup
       /\ e.attemptFinished = s.attemptFinished /\ e.leaseLost = s.leaseLost
  BY <1>6, <1>7, <1>9, <1>10, Frees
<1>12. SameHoldings(ses, s) /\ Later(ses.lc, s.lc)
  BY <1>3 DEF Noted
<1>13. /\ ses.lc.phase = "Closed" /\ ses.lc.cleanup = CleanupReport(ses)
       /\ ~(ses.lc.attempt.stage = "producing" /\ ses.acquisition = "none")
       /\ ses.lc.local # << >> \/ Delivered(ses.order)
  BY <1>1, <1>2 DEF Placed, Late
<1>14. CleanupReport(e) = CleanupReport(ses)
  BY <1>8, <1>12 DEF SameHoldings, CleanupReport, ChildDisposed
<1>15. /\ e.lc.phase = "Closed" /\ e.lc.cleanup = CleanupReport(e)
       /\ ~(e.lc.attempt.stage = "producing" /\ e.acquisition = "none")
       /\ e.lc.local # << >> \/ Delivered(e.order)
  BY <1>3, <1>8, <1>11, <1>12, <1>13, <1>14 DEF Later, Noted, SameHoldings
<1>16. Placed(e, proc, world, "exited")
  BY <1>15 DEF Placed, Working, Ending, Late
<1>17. \A t \in Tasks : task'[t] = "done"
  BY <1>1 DEF Cancelled
<1>18. Watched(e, proc, "exited", task', queue)
  <2>1. Watched(e, proc, "exited", task, queue)
    BY <1>8, <1>11, <1>12, StillWatched DEF SameHoldings
  <2>2. /\ task' \in [Tasks -> TaskStates]
        /\ \A t \in Tasks : task'[t] \in {task[t], "done"}
    BY <1>1, <1>2, CancelledTasks
  <2>3. ChildTasks \subseteq Tasks /\ "cleanup" \in Tasks
    BY DEF Tasks, ChildTasks
  <2>4. QED  BY <2>1, <2>2, <2>3, Rewatched
<1>19. Heard(e, task', control)
  <2>1. e.leaseLost = ses.leaseLost
    BY <1>3, <1>11 DEF Noted
  <2>2. task'["control"] = "done"
    BY <1>17, Observer
  <2>3. QED  BY <1>2, <2>1, <2>2 DEF Heard, Continues
<1>20. ASSUME e.status = 0
       PROVE  /\ control # "lost" /\ ~e.sigPending
              /\ e.lc.outcome.primary = NoFailure /\ e.lc.local = << >>
              /\ Gone /\ ~e.address /\ ~e.workspace
              /\ e.order.ended \/ e.order.fault # "none"
  <2> DEFINE l == e.lc
  <2>1. LcSound(l) /\ l.local = << >> /\ ~SnapshotFailed(l, policy)
    BY <1>5, <1>7, <1>11, <1>20 DEF Core, Formed
  <2>2. Codes(l) = {} /\ l.outcome.primary = NoFailure /\ CleanupConfirmed(l.cleanup)
    <3> HIDE DEF l
    <3>1. QED  BY <1>4, <2>1, SuccessIsClean
  <2>3. ~ses.sigPending /\ ~ses.leaseLost
    BY <1>3, <1>11, <2>2
  <2>4. control # "lost" /\ ~e.sigPending
    BY <1>2, <1>3, <1>8, <2>3 DEF Heard, Noted
  <2>5. ChildDisposed(e) /\ ~e.address /\ ~e.workspace
    BY <1>15, <2>2, CleanupReports DEF CleanupConfirmed
  <2>6. Gone
    BY <1>11, <2>5 DEF Supervised, Quiet, Gone
  <2>7. Delivered(e.order)
    BY <1>15, <2>1
  <2>8. QED  BY <2>1, <2>2, <2>4, <2>5, <2>6, <2>7 DEF Delivered
<1>21. ExitStatusIsHonest'
  BY <1>1, <1>20 DEF ExitStatusIsHonest, Gone
<1>22. ses'.order.ready = ses.order.ready
  BY <1>1, <1>3, <1>8 DEF Noted
<1>23. QED  BY <1>1, <1>2, <1>11, <1>16, <1>18, <1>19, <1>21, <1>22 DEF SessionInv, Steady

----------------------------------------------------------------------------
\* The session keeps its invariant.

\* The initial states satisfy the invariant.
LEMMA SessionBegins ==
  ASSUME Init
  PROVE  SessionInv
<1>1. /\ world \in Worlds /\ ses = NewSession /\ coord = "boot" /\ queue = << >>
      /\ control = "none" /\ proc = NoProcess
      /\ task = [t \in Tasks |-> IF t \in {"writer", "control", "signal"} THEN "on" ELSE "off"]
  BY DEF Init
<1>2. LcSound(Created) /\ Codes(Created) = {}
  <2>1. NoResult \in Results /\ NoResult.seen = FALSE
    BY DEF NoResult, Results
  <2>2. NoOutcome \in Outcomes
    BY <2>1 DEF NoOutcome, Outcomes
  <2>3. Attempt("none") \in Attempts
    BY <2>1 DEF Attempt, Attempts, Stages
  <2>4. NoCleanup \in Cleanups
    BY DEF NoCleanup, Cleanups, ChildDisposals, WorkspaceDisposals
  <2>5. Created \in Lifecycles
    BY <2>2, <2>3, <2>4 DEF Created, Lifecycles, Phases, Logs
  <2>6. /\ Created.phase = "Created" /\ Created.outcome = NoOutcome
        /\ Created.local = << >>
    BY DEF Created
  <2>7. Range(<< >>) = {}
    BY DEF Range
  <2>8. NoOutcome.primary = NoFailure /\ NoOutcome.diagnostics = << >>
    BY DEF NoOutcome
  <2>9. Codes(Created) = {}
    BY <2>6, <2>7, <2>8 DEF Codes, Told
  <2>10. LcSound(Created)
    BY <2>5, <2>6, <2>8 DEF LcSound, Ended
  <2>11. QED  BY <2>9, <2>10
<1>3. /\ Created.phase = "Created" /\ Created.attempt.stage = "none"
      /\ ~Created.attempt.requested /\ ~Created.attempt.result.seen
      /\ Created.evidence = {}
  BY DEF Created, Attempt, NoResult
<1>4. /\ DOMAIN ses = SessionFields /\ ses.lc = Created /\ DOMAIN ses.order = EventFields
      /\ ses.failures = << >> /\ ses.finished = {}
      /\ ~ses.sigAccounted /\ ~ses.leaseAccounted
  BY <1>1 DEF NewSession, SessionFields, Order!NoEvents, EventFields
<1>5. /\ ~ses.child /\ ~ses.acquired /\ ses.acquisition = "none"
      /\ ses.settlement = "none" /\ ses.cleanup = "none" /\ ~ses.attemptFinished
      /\ ses.workspace /\ ses.status = -1
  BY <1>1 DEF NewSession
<1>6. Core(ses, world)
  <2>1. Formed(ses) /\ Accounted(ses)
    BY <1>2, <1>4 DEF Formed, Accounted
  <2>2. Staged(ses, world)
    BY <1>3, <1>4, <1>5 DEF Staged
  <2>3. Owned(ses)
    BY <1>5 DEF Owned, ChildDisposed
  <2>4. QED  BY <2>1, <2>2, <2>3 DEF Core
<1>7. Placed(ses, proc, world, coord)
  BY <1>1, <1>3, <1>4, <1>5 DEF Placed, Working, Ending, Late
<1>8. Supervised(ses, proc, world)
  <2>1. /\ proc \in Processes /\ proc.state = "none" /\ ~proc.members /\ ~proc.observed
        /\ proc.requested = FALSE /\ proc.signalled = FALSE /\ proc.raced = FALSE
        /\ ~proc.disposed /\ proc.stage = "idle"
    BY <1>1 DEF NoProcess, Processes
  <2>2. QED  BY <1>3, <1>4, <1>5, <2>1 DEF Supervised, ChildDisposed, Quiet
<1>9. Watched(ses, proc, coord, task, queue)
  <2>1. \A t \in ChildTasks : t \notin {"writer", "control", "signal"}
    BY SessionConstants DEF ChildTasks, SessionTasks
  <2>2. ChildTasks \subseteq Tasks /\ "cleanup" \in ChildTasks
    BY DEF Tasks, ChildTasks
  <2>3. /\ task \in [Tasks -> TaskStates]
        /\ \A t \in Tasks : task[t] \in {"on", "off"}
        /\ \A t \in ChildTasks : task[t] = "off"
    BY <1>1, <2>1, <2>2 DEF TaskStates
  <2>4. queue \in Seq(Observations) /\ Len(queue) = 0
    BY <1>1
  <2>5. ~Settled(ses, coord)
    BY <1>1, <1>5 DEF Settled
  <2>6. QED  BY <1>5, <2>2, <2>3, <2>4, <2>5 DEF Watched
<1>10. Heard(ses, task, control) /\ ExitStatusIsHonest
  BY <1>1, <1>5 DEF Heard, ExitStatusIsHonest
<1>11. QED  BY <1>1, <1>6, <1>7, <1>8, <1>9, <1>10 DEF SessionInv

\* Every handler of an observation keeps the invariant.
LEMMA HandleKeeps ==
  ASSUME SessionInv, Handle
  PROVE  Steady
<1>1. CASE HandleStart
  BY <1>1, HandleStartKeeps
<1>2. CASE HandleEOF \/ HandleSignal \/ HandleFailure \/ HandleReadiness
  BY <1>2, HandleFactsKeeps
<1>3. CASE HandleOutput
  BY <1>3, HandleOutputKeeps
<1>4. CASE HandleLog \/ HandleLogDeadline
  BY <1>4, HandleLogKeeps
<1>5. CASE HandleExit
  BY <1>5, HandleExitKeeps
<1>6. CASE HandleCleaned
  BY <1>6, HandleCleanedKeeps
<1>7. CASE HandleDrain
  BY <1>7, HandleDrainKeeps
<1>8. QED  BY <1>1, <1>2, <1>3, <1>4, <1>5, <1>6, <1>7 DEF Handle

\* Every step of the coordinator keeps it.
LEMMA CoordinatorKeeps ==
  ASSUME SessionInv, Coordinator
  PROVE  SessionInv' /\ (CommitReady \/ ses'.order.ready = ses.order.ready)
<1>1. CASE Announce
  BY <1>1, AnnounceKeeps DEF Steady
<1>2. CASE Coordinate
  BY <1>2, CoordinateKeeps DEF Steady
<1>3. CASE Handle
  BY <1>3, HandleKeeps DEF Steady
<1>4. CASE CreateEntries
  BY <1>4, CreateEntriesKeeps DEF Steady
<1>5. CASE SpawnChild
  BY <1>5, SpawnChildKeeps DEF Steady
<1>6. CASE SpawnFails
  BY <1>6, SpawnFailsKeeps DEF Steady
<1>7. CASE CheckReady
  BY <1>7, CheckReadyKeeps DEF Steady
<1>8. CASE CommitReady
  BY <1>8, CommitReadyKeeps
<1>9. CASE SettleAttemptStep
  BY <1>9, SettleAttemptStepKeeps DEF Steady
<1>10. CASE CancelSessionTasks
  BY <1>10, CancelSessionTasksKeeps DEF Steady
<1>11. CASE ReleaseWorkspace
  BY <1>11, ReleaseWorkspaceKeeps DEF Steady
<1>12. CASE FreezeSnapshot
  BY <1>12, FreezeSnapshotKeeps DEF Steady
<1>13. CASE EmitTerminal
  BY <1>13, EmitTerminalKeeps DEF Steady
<1>14. CASE DrainOutput
  BY <1>14, DrainOutputKeeps DEF Steady
<1>15. CASE Exit
  BY <1>15, ExitIsHonest DEF Steady
<1>16. QED  BY <1>1, <1>2, <1>3, <1>4, <1>5, <1>6, <1>7, <1>8, <1>9, <1>10, <1>11,
               <1>12, <1>13, <1>14, <1>15 DEF Coordinator

\* Every step of the specification keeps it.
LEMMA SessionStep ==
  ASSUME SessionInv, [Next]_vars
  PROVE  SessionInv'
<1>1. CASE Observe
  BY <1>1, ObserveKeeps DEF Steady
<1>2. CASE Coordinator
  BY <1>2, CoordinatorKeeps
<1>3. CASE Environment
  BY <1>3, EnvironmentKeeps DEF Steady
<1>4. CASE UNCHANGED vars
  <2>1. /\ ses' = ses /\ coord' = coord /\ queue' = queue /\ task' = task
        /\ control' = control /\ proc' = proc /\ world' = world
    BY <1>4 DEF vars
  <2>2. Gone' = Gone
    BY <2>1 DEF Gone
  <2>3. QED  BY <2>1, <2>2 DEF SessionInv, ExitStatusIsHonest
<1>5. QED  BY <1>1, <1>2, <1>3, <1>4 DEF Next, Finished, Steady

\* Every state of a helper session satisfies the inductive invariant.
THEOREM AlwaysSessionInv == Spec => []SessionInv
<1>1. Init => SessionInv
  BY SessionBegins
<1>2. SessionInv /\ [Next]_vars => SessionInv'
  BY SessionStep
<1>3. QED  BY <1>1, <1>2, PTL DEF Spec

----------------------------------------------------------------------------
\* What the invariant says of a session

\* The helper exits with 0 only if the outcome it told has no failure and its
\* cleanup is confirmed, and no fact it knew of is left untold (run, SUCCESS).
THEOREM AlwaysExitHonest == Spec => []ExitStatusIsHonest
<1>1. SessionInv => ExitStatusIsHonest
  BY DEF SessionInv
<1>2. QED  BY <1>1, AlwaysSessionInv, PTL

\* While a process of the child's group may live, the workspace and its marker stay
\* for the next helper to find (_create_entries, _release_workspace).
THEOREM AlwaysMarked == Spec => []MarkerCoversLiveChild
<1>1. SessionInv => MarkerCoversLiveChild
  <2>1. SUFFICES ASSUME SessionInv, ~Gone PROVE ses.marker /\ ses.workspace
    BY DEF MarkerCoversLiveChild
  <2>2. ~ChildDisposed(ses)
    BY <2>1 DEF SessionInv, Supervised, Quiet, Gone
  <2>3. QED  BY <2>1, <2>2 DEF SessionInv, Core, Owned
<1>2. QED  BY <1>1, AlwaysSessionInv, PTL

\* An exit is recorded as requested exactly if the supervisor had signalled the
\* child (record_exit, _terminate_group).
THEOREM AlwaysAttributed == Spec => []RequestedIffSignalled
<1>1. SessionInv => RequestedIffSignalled
  <2>1. SUFFICES ASSUME SessionInv, ses.lc.attempt.result.seen, ~proc.raced
                 PROVE  ses.lc.attempt.result.requested = proc.signalled
    BY DEF RequestedIffSignalled
  <2>2. /\ ses.lc.attempt.result.requested = proc.requested
        /\ proc.requested = (proc.signalled \/ proc.raced) /\ proc \in Processes
    BY <2>1 DEF SessionInv, Supervised
  <2>3. proc.signalled \in BOOLEAN
    BY <2>2 DEF Processes
  <2>4. QED  BY <2>1, <2>2, <2>3
<1>2. QED  BY <1>1, AlwaysSessionInv, PTL

\* A cleanup told as confirmed is real: nothing of the group is left and the
\* workspace is gone (_cleanup_report).
THEOREM AlwaysCleanedUp == Spec => []ConfirmedCleanupIsReal
<1>1. SessionInv => ConfirmedCleanupIsReal
  <2>1. SUFFICES ASSUME SessionInv, Frozen
                 PROVE  /\ ses.lc.cleanup.child # "unconfirmed" =>
                             /\ Gone /\ ~ses.address
                             /\ \A t \in ChildTasks : task[t] \notin {"on"} \cup Kinds
                        /\ ses.lc.cleanup.workspace = "confirmed" => ~ses.workspace
    BY DEF ConfirmedCleanupIsReal
  <2>2. ses.lc.cleanup = CleanupReport(ses)
    BY <2>1 DEF SessionInv, Placed, Frozen, Working, Ending, Late
  <2>3. ses.lc.cleanup.workspace = "confirmed" => ~ses.workspace
    BY <2>2 DEF CleanupReport
  <2>4. ASSUME ses.lc.cleanup.child # "unconfirmed"
        PROVE  /\ Gone /\ ~ses.address
               /\ \A t \in ChildTasks : task[t] \notin {"on"} \cup Kinds
    <3>1. ChildDisposed(ses) /\ ~ses.address
      BY <2>2, <2>4, CleanupReports
    <3>2. Gone
      BY <2>1, <3>1 DEF SessionInv, Supervised, Quiet, Gone
    <3>3. ses.acquisition # "child" \/ Settled(ses, coord)
      BY <2>1, <3>1 DEF SessionInv, Core, Staged, Settled, ChildDisposed
    <3>4. \A t \in ChildTasks : task[t] \in {"off", "done"}
      BY <2>1, <3>3 DEF SessionInv, Watched
    <3>5. QED  BY <3>1, <3>2, <3>4 DEF Kinds
  <2>5. QED  BY <2>3, <2>4
<1>2. QED  BY <1>1, AlwaysSessionInv, PTL

\* freeze() raises only on a log that was never opened beside an address that could
\* not be given back (freeze, _log_report).
THEOREM AlwaysFreezable == Spec => []FreezeRefusesUnopenedLog
<1>1. SessionInv => FreezeRefusesUnopenedLog
  BY DEF SessionInv, Placed, FreezeRefusesUnopenedLog, want
<1>2. QED  BY <1>1, AlwaysSessionInv, PTL

\* Only the commit of the snapshot leads from the work to what comes after it.
LEMMA OnlyFreezeCloses ==
  ASSUME SessionInv, Next, coord \notin Late, coord' \in Late
  PROVE  FreezeSnapshot
<1>1. coord' \in Late => coord' \notin Working \cup Ending
  BY DEF Working, Ending, Late
<1>2. coord' # coord
  OBVIOUS
<1>3. ~Observe
  <2>1. \A t \in Tasks : ~FinishPut(t) /\ ~ObserverFails(t)
    BY <1>2 DEF FinishPut, ObserverFails
  <2>2. \A t \in Streams : ~ReadOutput(t) /\ ~ReadOutputEOF(t)
    BY <1>2 DEF ReadOutput, ReadOutputEOF
  <2>3. ~(ReadStart \/ ReadRelease \/ ReadEOF \/ ObserveSignal \/ ObserveExit
          \/ PollReadiness \/ ReadinessExpires \/ DrainExpires)
    BY <1>2 DEF ReadStart, ReadRelease, ReadEOF, ObserveSignal, ObserveExit, PollReadiness,
                ReadinessExpires, DrainExpires
  <2>4. ~(ReadLog \/ ReadLogEOF \/ WriteLogFrame \/ ReturnCredit \/ LogDrainExpires
          \/ SendTerm \/ LeaderWaitEnds \/ SendKill \/ GroupWaitEnds)
    BY <1>2 DEF ReadLog, ReadLogEOF, WriteLogFrame, ReturnCredit, LogDrainExpires, SendTerm,
                LeaderWaitEnds, SendKill, GroupWaitEnds
  <2>5. QED  BY <2>1, <2>2, <2>3, <2>4 DEF Observe
<1>4. ~Environment /\ ~Finished
  BY <1>2 DEF Environment, ClientStarts, SignalArrives, ChildExits, ChildPublishes,
              ChildLogs, Finished, vars
<1>5. Late \cap {"loop", "yielded", "entries", "spawn", "ready", "ready deadline", "commit",
                 "commit deadline", "waiting", "take", "settling", "ending", "closing",
                 "freezing", "crashed"} = {}
  BY DEF Late
<1>6. ~Handle
  <2>1. ~(HandleStart \/ HandleReadiness \/ HandleEOF \/ HandleSignal \/ HandleFailure)
    BY <1>5 DEF HandleStart, HandleReadiness, HandleEOF, HandleSignal, HandleFailure, Goto
  <2>2. ~(HandleOutput \/ HandleLog \/ HandleLogDeadline)
    BY <1>5 DEF HandleOutput, HandleLog, HandleLogDeadline, Goto
  <2>3. ~(HandleExit \/ HandleCleaned \/ HandleDrain)
    BY <1>5 DEF HandleExit, HandleCleaned, HandleDrain, Goto
  <2>4. QED  BY <2>1, <2>2, <2>3 DEF Handle
<1>7. ~(Announce \/ CreateEntries \/ SpawnChild \/ SpawnFails)
  <2>1. ~Announce
    BY <1>5 DEF Announce, Goto
  <2>2. ~CreateEntries
    BY <1>5 DEF CreateEntries, Goto
  <2>3. ~SpawnChild
    BY <1>5 DEF SpawnChild, Goto
  <2>4. ~SpawnFails
    BY <1>5, SpawnFailsKeeps
  <2>5. QED  BY <2>1, <2>2, <2>3, <2>4
<1>8. ~Coordinate
  BY <1>5 DEF Coordinate, Goto
<1>9. ~(CheckReady \/ CommitReady)
  BY <1>5 DEF CheckReady, CommitReady, Goto
<1>10. ~(SettleAttemptStep \/ CancelSessionTasks \/ ReleaseWorkspace)
  <2>1. ~SettleAttemptStep
    BY <1>5, SettleAttemptStepKeeps
  <2>2. ~CancelSessionTasks
    BY <1>5 DEF CancelSessionTasks, Goto
  <2>3. ~ReleaseWorkspace
    BY <1>5 DEF ReleaseWorkspace, Goto
  <2>4. QED  BY <2>1, <2>2, <2>3
<1>11. ~(EmitTerminal \/ DrainOutput \/ Exit)
  BY DEF EmitTerminal, DrainOutput, Exit, Late
<1>12. QED  BY <1>3, <1>4, <1>6, <1>7, <1>8, <1>9, <1>10, <1>11 DEF Next, Coordinator

\* _freeze accounts every recorded fact before it takes the snapshot.
LEMMA SnapshotTellsFacts ==
  ASSUME SessionInv, FreezeSnapshot, coord' \in Late
  PROVE  /\ control = "lost" => "CONTROLLER_LEASE_LOST" \in Told(ses'.lc)
         /\ ses.sigPending => "REMOTE_SIGNAL" \in Told(ses'.lc)
         /\ ses'.failures = << >>
<1>1. PICK admits \in Admissions :
       LET cleanup == CleanupReport(ses)
           settled == IF ChildDisposed(ses) /\ ~ses.address /\ ses.acquisition # "none"
                      THEN [ses EXCEPT !.lc = SettleAttempt(@, TRUE, TRUE)] ELSE ses
           s       == Account(settled, admits)
           log     == LogReport(s, cleanup)
       IN  IF CanFreeze(s.lc, cleanup, log)
           THEN Goto([s EXCEPT !.lc = Freeze(@, cleanup, log)], "delivering")
           ELSE Goto([s EXCEPT !.status = 1], "crashed")
  BY Zenon DEF FreezeSnapshot
<1> DEFINE cleanup == CleanupReport(ses)
           settled == IF ChildDisposed(ses) /\ ~ses.address /\ ses.acquisition # "none"
                      THEN [ses EXCEPT !.lc = SettleAttempt(@, TRUE, TRUE)] ELSE ses
           s       == Account(settled, admits)
           log     == LogReport(s, cleanup)
           f       == [s EXCEPT !.lc = Freeze(@, cleanup, log)]
<1>2. coord = "freezing" /\ ses' = f /\ s.lc.phase = "Terminating"
  BY <1>1 DEF FreezeSnapshot, Goto, Late, CanFreeze
<1>3. settled = IF ChildDisposed(ses) /\ ~ses.address /\ ses.acquisition # "none"
                THEN [ses EXCEPT !.lc = SettleAttempt(@, TRUE, TRUE)] ELSE ses
  OBVIOUS
<1> HIDE DEF settled
<1>4. Frozenable(settled) /\ settled.sigPending = ses.sigPending
  BY <1>2, <1>3, SettledForSnapshot
<1>5. /\ Noted(settled, s) /\ s.failures = << >>
      /\ settled.sigPending => "REMOTE_SIGNAL" \in Codes(s.lc)
      /\ settled.leaseLost => "CONTROLLER_LEASE_LOST" \in Codes(s.lc)
  BY <1>4, Accounts DEF Frozenable
<1> HIDE DEF s
<1>6. cleanup \in Cleanups /\ log \in Logs
  BY CleanupReports, LogReports
<1> HIDE DEF cleanup, log
<1>7. Formed(s) /\ LcSound(s.lc) /\ s.lc.local = << >>
  BY <1>2, <1>5 DEF Noted, Formed, LcSound
<1>8. f.failures = << >> /\ f.lc = Freeze(s.lc, cleanup, log)
  BY <1>5, <1>7 DEF Formed, SessionFields
<1>9. Codes(f.lc) = Codes(s.lc) /\ f.lc.local = << >>
  <2> DEFINE d == s.lc
  <2>1. LcSound(d) /\ d.phase = "Terminating" /\ d.local = << >>
    BY <1>2, <1>7
  <2> HIDE DEF d
  <2>2. LET m == Freeze(d, cleanup, log) IN Codes(m) = Codes(d) /\ m.local = d.local
    BY <1>6, <2>1, Freezes
  <2>3. f.lc = Freeze(d, cleanup, log)
    BY <1>8 DEF d
  <2> HIDE DEF f
  <2>4. QED  BY <2>1, <2>2, <2>3 DEF d
<1> HIDE DEF f
<1>10. Codes(f.lc) \subseteq Told(f.lc)
  <2>1. Range(<< >>) = {}
    BY DEF Range
  <2>2. QED  BY <1>9, <2>1 DEF Codes
<1>11. control = "lost" => settled.leaseLost
  BY <1>4 DEF SessionInv, Heard, Frozenable
<1>12. QED  BY <1>2, <1>4, <1>5, <1>8, <1>9, <1>10, <1>11

\* A lost lease and a signal that are known when the snapshot is taken are in it
\* (_freeze, _account_recorded_failures).
THEOREM AlwaysTold == Spec => FatalFactsReachTheSnapshot
<1>1. SessionInv /\ SessionInv' /\ [Next]_vars =>
        [~Frozen /\ Frozen' =>
           /\ control = "lost" => "CONTROLLER_LEASE_LOST" \in Told(ses'.lc)
           /\ ses.sigPending => "REMOTE_SIGNAL" \in Told(ses'.lc)]_vars
  <2>1. SUFFICES ASSUME SessionInv, SessionInv', Next, ~Frozen, Frozen'
                 PROVE  /\ control = "lost" => "CONTROLLER_LEASE_LOST" \in Told(ses'.lc)
                        /\ ses.sigPending => "REMOTE_SIGNAL" \in Told(ses'.lc)
    OBVIOUS
  <2>2. coord \notin Late
    BY <2>1 DEF SessionInv, Placed, Frozen
  <2>3. coord' \in Late
    BY <2>1 DEF SessionInv, Placed, Frozen, Ending
  <2>4. QED  BY <2>1, <2>2, <2>3, OnlyFreezeCloses, SnapshotTellsFacts
<1>2. QED  BY <1>1, AlwaysSessionInv, PTL DEF Spec, FatalFactsReachTheSnapshot

\* Only the commit tells READY, and what it accounted first tells whether the
\* session ends: then its lifecycle is not starting any more.
LEMMA CommitTellsReady ==
  ASSUME SessionInv, CommitReady, ~ses.order.ready, ses'.order.ready
  PROVE  /\ ~ses.sigPending /\ control # "lost" /\ ses.failures = << >>
         /\ want.required \subseteq proc.artifact /\ ~proc.observed
<1>1. PICK admits \in Admissions, admitted \in Admissions :
        LET a == Account(ses, admits) IN
        IF a.lc.phase # "Starting" THEN Goto(AfterReady(a), "yielded") /\ UNCHANGED task
        ELSE IF ~admitted
        THEN /\ Goto(AfterReady(Stop(a, "output_failure", "READY_ADMISSION")), "yielded")
             /\ UNCHANGED task
        ELSE /\ Goto([a EXCEPT !.order = Order!ReadyReported(@),
                               !.lc = Ready(@, TRUE, TRUE)], "yielded")
             /\ task' = Cancelled({"readiness"})
  BY Zenon DEF CommitReady
<1>2. coord \in {"commit", "commit deadline"}
  BY DEF CommitReady
<1> DEFINE a == Account(ses, admits)
           f == Stop(a, "output_failure", "READY_ADMISSION")
<1>3. /\ Noted(ses, a) /\ Formed(a)
      /\ ses.sigPending => "REMOTE_SIGNAL" \in Codes(a.lc)
      /\ ses.leaseLost => "CONTROLLER_LEASE_LOST" \in Codes(a.lc)
      /\ ses.child /\ ses.failures # << >> => Ended(a.lc)
  BY SessionAccounts
<1> HIDE DEF a
<1>4. a.lc.phase = "Starting"
  <2>1. SUFFICES ASSUME a.lc.phase # "Starting" PROVE ses'.order.ready = ses.order.ready
    OBVIOUS
  <2>2. ses' = AfterReady(a)
    BY <1>1, <2>1 DEF a, Goto
  <2>3. Noted(ses, ses')
    BY <1>3, <2>2, ReadinessDecided
  <2>4. QED  BY <2>3 DEF Noted
<1>5. Codes(a.lc) = {} /\ ~Ended(a.lc) /\ ses.lc.phase = "Starting" /\ a.lc = ses.lc
  BY <1>3, <1>4, CodesEnd DEF Noted, Later, Formed, Ended
<1>6. /\ Placed(ses, proc, world, coord) /\ Supervised(ses, proc, world)
      /\ Heard(ses, task, control)
  BY DEF SessionInv
<1>7. ses.child /\ ~proc.observed /\ ses.lc.required \subseteq ses.lc.evidence
  BY <1>2, <1>6 DEF Placed
<1>8. ses.lc.required = want.required /\ ses.lc.evidence \subseteq proc.artifact
  BY <1>5, <1>6 DEF Supervised, want
<1>9. QED  BY <1>3, <1>5, <1>6, <1>7, <1>8 DEF Heard

\* READY reaches the client only for a child whose evidence is all there, and
\* never after a signal, a lost lease or an observer's failure that is known (_ready,
\* commit).
THEOREM AlwaysWanted == Spec => ReadyOnlyWhileWanted
<1>1. SessionInv /\ [Next]_vars =>
        [~ses.order.ready /\ ses'.order.ready =>
           /\ ~ses.sigPending /\ control # "lost" /\ ses.failures = << >>
           /\ want.required \subseteq proc.artifact /\ ~proc.observed]_vars
  <2>1. SUFFICES ASSUME SessionInv, Next, ~ses.order.ready, ses'.order.ready
                 PROVE  /\ ~ses.sigPending /\ control # "lost" /\ ses.failures = << >>
                        /\ want.required \subseteq proc.artifact /\ ~proc.observed
    OBVIOUS
  <2>2. ~Observe /\ ~Environment /\ ~Finished
    BY <2>1, ObserveKeeps, EnvironmentKeeps DEF Steady, Finished, vars
  <2>3. CommitReady
    BY <2>1, <2>2, CoordinatorKeeps DEF Next
  <2>4. QED  BY <2>1, <2>3, CommitTellsReady
<1>2. QED  BY <1>1, AlwaysSessionInv, PTL DEF Spec, ReadyOnlyWhileWanted

----------------------------------------------------------------------------
\* How the observers' failures are counted

\* What the session knows of failed observers: what it tells, and what it has
\* recorded and not told yet.  No step loses any of it.
Known(s) == ObserverFailures(s.lc) + Cardinality(Range(s.failures))

\* An observer of the child has failed only while the child is owned.
Owning(s) == s.child \/ Range(s.failures) \cap ChildTasks = {}

\* The child acquired is owned until the attempt is finished.
Held(s) == s.acquisition = "child" /\ ~s.attemptFinished => s.child

\* t is s after recorded failures of observers were told, each once.
Tells(s, t) ==
  /\ Formed(t) /\ Known(t) = Known(s) /\ Range(t.failures) \subseteq Range(s.failures)
  /\ t.child = s.child /\ t.acquisition = s.acquisition
  /\ t.attemptFinished = s.attemptFinished

\* The codes of a sequence can be counted.
LEMMA TellsCounted ==
  ASSUME NEW S, NEW q \in Seq(S)
  PROVE  LET T == {i \in DOMAIN q : q[i] = "OBSERVER_FAILURE"} IN
         /\ IsFiniteSet(T) /\ T \subseteq 1 .. Len(q) /\ TellsIn(q) \in Nat
         /\ q = << >> => TellsIn(q) = 0
<1> DEFINE T == {i \in DOMAIN q : q[i] = "OBSERVER_FAILURE"}
<1>1. T \subseteq 1 .. Len(q) /\ Len(q) \in Nat
  OBVIOUS
<1>2. IsFiniteSet(1 .. Len(q))
  BY <1>1, FS_Interval
<1>3. IsFiniteSet(T)
  BY <1>1, <1>2, FS_Subset
<1>4. TellsIn(q) = Cardinality(T)
  BY DEF TellsIn
<1>5. q = << >> => T = {}
  OBVIOUS
<1> HIDE DEF T
<1>6. TellsIn(q) \in Nat /\ (q = << >> => TellsIn(q) = 0)
  BY <1>3, <1>4, <1>5, FS_CardinalityType, FS_EmptySet
<1>7. QED  BY <1>1, <1>3, <1>6 DEF T

\* Append tells one more if it adds an observer's failure.
LEMMA TellsAppended ==
  ASSUME NEW S, NEW q \in Seq(S), NEW code \in S
  PROVE  TellsIn(Append(q, code)) =
           TellsIn(q) + (IF code = "OBSERVER_FAILURE" THEN 1 ELSE 0)
<1> DEFINE r == Append(q, code)
           T == {i \in DOMAIN q : q[i] = "OBSERVER_FAILURE"}
           U == {i \in DOMAIN r : r[i] = "OBSERVER_FAILURE"}
<1>1. /\ Len(q) \in Nat /\ DOMAIN r = 1 .. (Len(q) + 1) /\ DOMAIN q = 1 .. Len(q)
      /\ r[Len(q) + 1] = code /\ \A i \in 1 .. Len(q) : r[i] = q[i]
  OBVIOUS
<1>2. U = T \cup (IF code = "OBSERVER_FAILURE" THEN {Len(q) + 1} ELSE {})
  <2>1. \A i : i \in 1 .. (Len(q) + 1) <=> i \in 1 .. Len(q) \/ i = Len(q) + 1
    BY <1>1
  <2> HIDE DEF r
  <2>2. QED  BY <1>1, <2>1
<1>3. IsFiniteSet(T) /\ T \subseteq 1 .. Len(q) /\ Cardinality(T) \in Nat
  BY TellsCounted DEF TellsIn
<1>4. Len(q) + 1 \notin T
  BY <1>1, <1>3
<1>5. TellsIn(q) = Cardinality(T) /\ TellsIn(r) = Cardinality(U)
  BY DEF TellsIn
<1> HIDE DEF T, U, r
<1>6. CASE code = "OBSERVER_FAILURE"
  BY <1>2, <1>3, <1>4, <1>5, <1>6, FS_AddElement DEF r
<1>7. CASE code # "OBSERVER_FAILURE"
  BY <1>2, <1>3, <1>5, <1>7 DEF r
<1>8. QED  BY <1>6, <1>7

\* A single code tells one failure or none.
LEMMA TellsOne ==
  ASSUME NEW code
  PROVE  TellsIn(<<code>>) = IF code = "OBSERVER_FAILURE" THEN 1 ELSE 0
<1> DEFINE T == {i \in DOMAIN <<code>> : <<code>>[i] = "OBSERVER_FAILURE"}
<1>1. DOMAIN <<code>> = {1} /\ <<code>>[1] = code
  OBVIOUS
<1>2. T = IF code = "OBSERVER_FAILURE" THEN {1} ELSE {}
  BY <1>1
<1>3. TellsIn(<<code>>) = Cardinality(T)
  BY DEF TellsIn
<1> HIDE DEF T
<1>4. QED  BY <1>2, <1>3, FS_Singleton, FS_EmptySet

\* What a lifecycle tells is a number, and depends on its outcome and on what
\* it added after the snapshot.
LEMMA ToldCounted ==
  ASSUME NEW l \in Lifecycles
  PROVE  /\ TellsIn(<<l.outcome.primary>>) \in Nat
         /\ TellsIn(l.outcome.diagnostics) \in Nat /\ TellsIn(l.local) \in Nat
         /\ ObserverFailures(l) \in Nat
<1>1. l.outcome.diagnostics \in Seq(Failures) /\ l.local \in Seq(Failures)
  BY DEF Lifecycles, Outcomes
<1>2. TellsIn(<<l.outcome.primary>>) \in Nat
  BY TellsOne
<1>3. TellsIn(l.outcome.diagnostics) \in Nat /\ TellsIn(l.local) \in Nat
  BY <1>1, TellsCounted
<1>4. QED  BY <1>2, <1>3 DEF ObserverFailures

\* A lifecycle that has not ended tells nothing.
LEMMA NothingTold ==
  ASSUME NEW l, LcSound(l), ~Ended(l)
  PROVE  ObserverFailures(l) = 0
<1>1. l.local = << >> /\ l.outcome = NoOutcome
  BY DEF LcSound, Ended
<1>2. l.outcome.primary = NoFailure /\ l.outcome.diagnostics = << >>
  BY <1>1 DEF NoOutcome
<1>3. NoFailure # "OBSERVER_FAILURE"
  BY SessionConstants, LifecycleConstants DEF SessionFailures
<1>4. TellsIn(<<l.outcome.primary>>) = 0
  BY <1>2, <1>3, TellsOne
<1>5. << >> \in Seq(Failures)
  OBVIOUS
<1>6. TellsIn(<< >>) = 0
  BY <1>5, TellsCounted
<1>7. QED  BY <1>1, <1>2, <1>4, <1>6 DEF ObserverFailures

\* terminate() tells the failure it is given, once, and unlearns none.
LEMMA TerminateTells ==
  ASSUME NEW l, LcSound(l), NEW trigger, NEW failure \in Failures \cup {NoFailure}
  PROVE  ObserverFailures(Terminate(l, trigger, failure)) =
           ObserverFailures(l) + (IF failure = "OBSERVER_FAILURE" THEN 1 ELSE 0)
<1> DEFINE m == Terminate(l, trigger, failure)
           one == IF failure = "OBSERVER_FAILURE" THEN 1 ELSE 0
<1>1. /\ l \in Lifecycles /\ l.outcome \in Outcomes
      /\ l.local \in Seq(Failures) /\ l.outcome.diagnostics \in Seq(Failures)
  BY DEF LcSound, Lifecycles, Outcomes
<1>2. /\ TellsIn(<<l.outcome.primary>>) \in Nat
      /\ TellsIn(l.outcome.diagnostics) \in Nat /\ TellsIn(l.local) \in Nat
      /\ ObserverFailures(l) \in Nat
  BY <1>1, ToldCounted
<1>3. NoFailure # "OBSERVER_FAILURE" /\ NoFailure \notin Failures
  BY SessionConstants, LifecycleConstants DEF SessionFailures
<1>4. CASE l.phase = "Closed" /\ failure # NoFailure
  <2>1. m.outcome = l.outcome /\ m.local = Append(l.local, failure)
    BY <1>1, <1>4 DEF Terminate, Lifecycles
  <2>2. TellsIn(m.local) = TellsIn(l.local) + one
    BY <1>1, <1>4, <2>1, TellsAppended
  <2> HIDE DEF m, one
  <2>3. one \in Nat
    BY DEF one
  <2>4. QED  BY <1>2, <2>1, <2>2, <2>3 DEF ObserverFailures, m, one
<1>5. CASE l.phase = "Terminating" /\ failure # NoFailure
  <2> DEFINE o == WithFailure(l.outcome, failure)
  <2>1. m.outcome = o /\ m.local = l.local
    BY <1>1, <1>5 DEF Terminate, Lifecycles
  <2>2. \/ /\ l.outcome.primary = NoFailure
           /\ o.primary = failure /\ o.diagnostics = l.outcome.diagnostics
        \/ /\ o.primary = l.outcome.primary
           /\ o.diagnostics = Append(l.outcome.diagnostics, failure)
    BY <1>1 DEF WithFailure, Outcomes
  <2> HIDE DEF m, o, one
  <2>3. one = IF failure = "OBSERVER_FAILURE" THEN 1 ELSE 0
    BY DEF one
  <2>4. CASE /\ l.outcome.primary = NoFailure
             /\ o.primary = failure /\ o.diagnostics = l.outcome.diagnostics
    <3>1. TellsIn(<<o.primary>>) = one /\ TellsIn(<<l.outcome.primary>>) = 0
      BY <1>3, <2>3, <2>4, TellsOne
    <3>2. QED  BY <1>2, <2>1, <2>3, <2>4, <3>1 DEF ObserverFailures, m, one
  <2>5. CASE /\ o.primary = l.outcome.primary
             /\ o.diagnostics = Append(l.outcome.diagnostics, failure)
    <3>1. TellsIn(o.diagnostics) = TellsIn(l.outcome.diagnostics) + one
      BY <1>1, <1>5, <2>3, <2>5, TellsAppended
    <3>2. QED  BY <1>2, <2>1, <2>3, <2>5, <3>1 DEF ObserverFailures, m, one
  <2>6. QED  BY <2>2, <2>4, <2>5
<1>6. CASE ~Ended(l)
  <2>1. /\ m.outcome.primary = failure /\ m.outcome.diagnostics = << >>
        /\ m.local = << >>
    BY <1>1, <1>6 DEF Terminate, Ended, LcSound, Lifecycles
  <2>2. ObserverFailures(l) = 0
    BY <1>6, NothingTold
  <2> HIDE DEF m, one
  <2>3. TellsIn(<<m.outcome.primary>>) = one /\ one \in Nat
    BY <2>1, TellsOne DEF one
  <2>4. << >> \in Seq(Failures)
    OBVIOUS
  <2>5. TellsIn(<< >>) = 0
    BY <2>4, TellsCounted
  <2>6. QED  BY <2>1, <2>2, <2>3, <2>5 DEF ObserverFailures, m, one
<1>7. CASE Ended(l) /\ failure = NoFailure
  <2>1. m = l
    BY <1>7 DEF Terminate, Ended
  <2>2. QED  BY <1>2, <1>3, <1>7, <2>1
<1>8. QED  BY <1>4, <1>5, <1>6, <1>7 DEF Ended

\* The recorded failures can be counted.
LEMMA RecordsCounted ==
  ASSUME NEW S, NEW q \in Seq(S)
  PROVE  IsFiniteSet(Range(q)) /\ Cardinality(Range(q)) \in Nat
<1>1. DOMAIN q = 1 .. Len(q) /\ Len(q) \in Nat
  OBVIOUS
<1>2. q \in [1 .. Len(q) -> Range(q)]
  BY <1>1 DEF Range
<1>3. q \in Surjection(1 .. Len(q), Range(q))
  BY <1>1, <1>2 DEF Surjection, Range
<1>4. IsFiniteSet(1 .. Len(q))
  BY <1>1, FS_Interval
<1>5. QED  BY <1>3, <1>4, FS_Surjection, FS_CardinalityType

\* What is known is a number.
LEMMA KnownCounted ==
  ASSUME NEW s, Formed(s)
  PROVE  /\ ObserverFailures(s.lc) \in Nat /\ Known(s) \in Nat
         /\ IsFiniteSet(Range(s.failures)) /\ Cardinality(Range(s.failures)) \in Nat
<1>1. s.lc \in Lifecycles /\ s.failures \in Seq(Tasks)
  BY DEF Formed, LcSound
<1>2. ObserverFailures(s.lc) \in Nat
  BY <1>1, ToldCounted
<1>3. IsFiniteSet(Range(s.failures)) /\ Cardinality(Range(s.failures)) \in Nat
  BY <1>1, RecordsCounted
<1>4. QED  BY <1>2, <1>3 DEF Known

\* Telling nothing is telling what was recorded.
LEMMA TellsReflexive ==
  ASSUME NEW s, Formed(s)
  PROVE  Tells(s, s)
  BY DEF Tells

\* Telling in two parts is telling.
LEMMA TellsTransitive ==
  ASSUME NEW s, NEW t, NEW u, Tells(s, t), Tells(t, u)
  PROVE  Tells(s, u)
  BY DEF Tells

\* Telling keeps the owner of the child.
LEMMA TellsOwning ==
  ASSUME NEW s, NEW t, Tells(s, t)
  PROVE  /\ Owning(s) => Owning(t)
         /\ Held(s) => Held(t)
  BY DEF Tells, Owning, Held

\* A change beside the lifecycle and the recorded failures tells nothing.
LEMMA TellsAside ==
  ASSUME NEW s, Formed(s), NEW t, DOMAIN t = SessionFields,
         DOMAIN t.order = EventFields, t.finished \subseteq Streams,
         t.lc = s.lc, t.failures = s.failures, t.child = s.child,
         t.acquisition = s.acquisition, t.attemptFinished = s.attemptFinished
  PROVE  Tells(s, t)
  BY DEF Tells, Formed, Known

\* Nor does a change of the lifecycle that tells no more and no less.
LEMMA TellsLifecycle ==
  ASSUME NEW s, Formed(s), NEW t, LcOnly(s, t), LcSound(t.lc),
         ObserverFailures(t.lc) = ObserverFailures(s.lc)
  PROVE  Tells(s, t)
<1>1. /\ t.order = s.order /\ t.failures = s.failures /\ t.finished = s.finished
      /\ t.child = s.child /\ t.acquisition = s.acquisition
      /\ t.attemptFinished = s.attemptFinished
  BY DEF LcOnly, SessionFields
<1>2. Formed(t)
  BY <1>1 DEF LcOnly, Formed
<1>3. QED  BY <1>1, <1>2 DEF Tells, Known

\* _stop tells nothing of the observers, unless it is given their failure.
LEMMA StopTells ==
  ASSUME NEW s, Formed(s), NEW trigger \in Triggers,
         NEW failure \in (SessionFailures \cup {NoFailure}) \ {"OBSERVER_FAILURE"}
  PROVE  Tells(s, Stop(s, trigger, failure))
<1> DEFINE t == Stop(s, trigger, failure)
<1>1. /\ failure \in Failures \cup {NoFailure} /\ failure # "OBSERVER_FAILURE"
      /\ s.lc \in Lifecycles /\ LcSound(s.lc)
  BY SessionConstants DEF Formed, LcSound
<1>2. LcOnly(s, t) /\ t.lc = Terminate(s.lc, trigger, failure)
  BY DEF Stop, LcOnly, Formed, SessionFields
<1>3. LcSound(t.lc)
  BY <1>1, <1>2, Terminates DEF Later
<1>4. ObserverFailures(t.lc) = ObserverFailures(s.lc)
  <2>1. ObserverFailures(s.lc) \in Nat
    BY <1>1, ToldCounted
  <2>2. ObserverFailures(t.lc) = ObserverFailures(s.lc) + 0
    BY <1>1, <1>2, TerminateTells
  <2>3. QED  BY <2>1, <2>2
<1> HIDE DEF t
<1>5. QED  BY <1>2, <1>3, <1>4, TellsLifecycle DEF t

\* The same after other steps that tell.
LEMMA StoppedTells ==
  ASSUME NEW s, NEW t, Tells(s, t), NEW trigger \in Triggers,
         NEW failure \in (SessionFailures \cup {NoFailure}) \ {"OBSERVER_FAILURE"}
  PROVE  Tells(s, Stop(t, trigger, failure))
<1>1. Tells(t, Stop(t, trigger, failure))
  BY StopTells DEF Tells
<1>2. QED  BY <1>1, TellsTransitive

\* A turn of the relay tells nothing.
LEMMA RelayTells ==
  ASSUME NEW s, Formed(s), NEW t, NEW relay, t = [s EXCEPT !.relay = relay]
  PROVE  Tells(s, t)
<1>1. /\ DOMAIN t = SessionFields /\ t.order = s.order /\ t.finished = s.finished
      /\ t.lc = s.lc /\ t.failures = s.failures /\ t.child = s.child
      /\ t.acquisition = s.acquisition /\ t.attemptFinished = s.attemptFinished
  BY DEF Formed, SessionFields
<1>2. QED  BY <1>1, TellsAside DEF Formed

\* Nor does an event for the client.
LEMMA EventTells ==
  ASSUME NEW s, Formed(s), NEW t, NEW order, DOMAIN order = EventFields,
         t = [s EXCEPT !.order = order]
  PROVE  Tells(s, t)
<1>1. /\ DOMAIN t = SessionFields /\ t.order = order /\ t.finished = s.finished
      /\ t.lc = s.lc /\ t.failures = s.failures /\ t.child = s.child
      /\ t.acquisition = s.acquisition /\ t.attemptFinished = s.attemptFinished
  BY DEF Formed, SessionFields
<1>2. QED  BY <1>1, TellsAside DEF Formed

\* Nor a change of fields no property is about.
LEMMA InessentialTells ==
  ASSUME NEW s, Formed(s), NEW t, DOMAIN t = SessionFields,
         \A f \in SessionFields \ Inessential : t[f] = s[f]
  PROVE  Tells(s, t)
<1>1. /\ t.order = s.order /\ t.finished = s.finished
      /\ t.lc = s.lc /\ t.failures = s.failures /\ t.child = s.child
      /\ t.acquisition = s.acquisition /\ t.attemptFinished = s.attemptFinished
  BY DEF SessionFields, Inessential
<1>2. QED  BY <1>1, TellsAside DEF Formed

\* Nor the end of the child's output.
LEMMA FinishedTells ==
  ASSUME NEW s, Formed(s), NEW ended \in SUBSET Streams, NEW t,
         t = [s EXCEPT !.finished = ended]
  PROVE  Tells(s, t)
<1>1. /\ DOMAIN t = SessionFields /\ t.order = s.order /\ t.finished = ended
      /\ t.lc = s.lc /\ t.failures = s.failures /\ t.child = s.child
      /\ t.acquisition = s.acquisition /\ t.attemptFinished = s.attemptFinished
  BY DEF Formed, SessionFields
<1>2. QED  BY <1>1, TellsAside DEF Formed

\* _log_progress tells the client log data and no failure.
LEMMA LogProgressTells ==
  ASSUME NEW s, Formed(s), NEW admits
  PROVE  Tells(s, LogProgress(s, admits))
<1>0. DOMAIN s = SessionFields /\ DOMAIN s.order = EventFields /\ s.finished \subseteq Streams
  BY DEF Formed
<1> DEFINE size   == Len(s.relay.buffer)
           pumped ==
             IF size = 0 \/ s.logInFlight THEN s
             ELSE IF admits
             THEN [s EXCEPT !.relay = Relay!Admit(@, size), !.logInFlight = TRUE,
                            !.order = Order!LogDataRelayed(@, s.relay.admitted, size)]
             ELSE [s EXCEPT !.relay = Relay!AdmissionFails(@)]
<1>1. Tells(s, pumped)
  <2>1. CASE size = 0 \/ s.logInFlight
    BY <2>1, TellsReflexive
  <2>2. CASE ~(size = 0 \/ s.logInFlight) /\ admits
    <3> DEFINE order == Order!LogDataRelayed(s.order, s.relay.admitted, size)
    <3>1. DOMAIN order = EventFields
      BY <1>0, LogDataKeeps
    <3>2. pumped = [s EXCEPT !.relay = Relay!Admit(s.relay, size), !.logInFlight = TRUE,
                             !.order = order]
      BY <2>2
    <3> HIDE DEF order, pumped
    <3>3. /\ DOMAIN pumped = SessionFields /\ pumped.order = order
          /\ pumped.finished = s.finished
          /\ pumped.lc = s.lc /\ pumped.failures = s.failures /\ pumped.child = s.child
          /\ pumped.acquisition = s.acquisition
          /\ pumped.attemptFinished = s.attemptFinished
      BY <1>0, <3>2 DEF SessionFields
    <3>4. QED  BY <1>0, <3>1, <3>3, TellsAside
  <2>3. CASE ~(size = 0 \/ s.logInFlight) /\ ~admits
    <3>1. pumped = [s EXCEPT !.relay = Relay!AdmissionFails(s.relay)]
      BY <2>3
    <3> HIDE DEF pumped
    <3>2. QED  BY <3>1, RelayTells
  <2>4. QED  BY <2>1, <2>2, <2>3
<1>2. LogProgress(s, admits) =
        IF s.logOpen THEN [pumped EXCEPT !.relay = Relay!DecideIfReady(pumped.relay)] ELSE s
  BY DEF LogProgress
<1> HIDE DEF pumped
<1>3. CASE s.logOpen
  <2> DEFINE t == [pumped EXCEPT !.relay = Relay!DecideIfReady(pumped.relay)]
  <2>1. Tells(pumped, t)
    BY <1>1, RelayTells DEF Tells
  <2> HIDE DEF t
  <2>2. Tells(s, t)
    BY <1>1, <2>1, TellsTransitive
  <2>3. QED  BY <1>2, <1>3, <2>2 DEF t
<1>4. CASE ~s.logOpen
  BY <1>2, <1>4, TellsReflexive
<1>5. QED  BY <1>3, <1>4

\* So does _log_disposal.
LEMMA LogDisposalTells ==
  ASSUME NEW s, Formed(s), NEW confirmed, NEW admits
  PROVE  Tells(s, LogDisposal(s, confirmed, admits))
<1>1. CASE ~s.logOpen \/ s.relay.decision # "none"
  BY <1>1, TellsReflexive DEF LogDisposal
<1>2. CASE s.logOpen /\ s.relay.decision = "none"
  <2> DEFINE t == [s EXCEPT !.relay = IF confirmed THEN Relay!ConfirmDisposal(@)
                                      ELSE Relay!Cut(@)]
  <2>1. Tells(s, t)
    BY RelayTells
  <2>2. LogDisposal(s, confirmed, admits) = LogProgress(t, admits)
    BY <1>2 DEF LogDisposal
  <2> HIDE DEF t
  <2>3. Tells(t, LogProgress(t, admits))
    BY <2>1, LogProgressTells DEF Tells
  <2>4. QED  BY <2>1, <2>2, <2>3, TellsTransitive
<1>3. QED  BY <1>1, <1>2

\* _observation_failed deletes one record and tells one failure more.  A record
\* of the child's observers is not dropped untold, as the child is still owned.
LEMMA ObservationFailedTells ==
  ASSUME NEW s, Formed(s), Owning(s), NEW t \in Tasks, NEW admits
  PROVE  Tells(s, ObservationFailed(s, t, admits))
<1> DEFINE dropped == [s EXCEPT !.failures = Without(@, t)]
           ended   == [dropped EXCEPT !.finished = @ \cup ({t} \cap Streams)]
           failing == [ended EXCEPT !.relay = Relay!ReadFailed(@)]
           read    == IF t = "log" /\ s.logOpen THEN LogProgress(failing, admits) ELSE ended
           stopped == Stop(read, FailureTrigger(t), "OBSERVER_FAILURE")
           u       == ObservationFailed(s, t, admits)
<1>1. u = IF t \notin Range(s.failures) THEN s
          ELSE IF t \in ChildTasks /\ ~s.child THEN dropped
          ELSE stopped
  BY DEF ObservationFailed
<1>2. /\ Formed(dropped) /\ dropped.lc = s.lc /\ dropped.child = s.child
      /\ dropped.acquisition = s.acquisition
      /\ dropped.attemptFinished = s.attemptFinished
      /\ Range(dropped.failures) = Range(s.failures) \ {t}
  <2>1. /\ dropped.lc = s.lc /\ dropped.child = s.child
        /\ dropped.acquisition = s.acquisition
        /\ dropped.attemptFinished = s.attemptFinished
        /\ dropped.failures = Without(s.failures, t)
    BY DEF Formed, SessionFields
  <2>2. Formed(dropped)
    BY FailureDrops DEF Noted
  <2>3. Range(dropped.failures) = Range(s.failures) \ {t}
    BY <2>1, WithoutDrops DEF Formed
  <2>4. QED  BY <2>1, <2>2, <2>3
<1> HIDE DEF dropped
<1>3. Tells(dropped, ended) /\ Formed(ended)
  <2> DEFINE finished == dropped.finished \cup ({t} \cap Streams)
  <2>1. finished \in SUBSET Streams /\ ended = [dropped EXCEPT !.finished = finished]
    BY <1>2 DEF Formed
  <2> HIDE DEF ended, finished
  <2>2. QED  BY <1>2, <2>1, FinishedTells DEF Tells
<1> HIDE DEF ended
<1>4. Tells(dropped, failing) /\ Formed(failing)
  <2>1. failing = [ended EXCEPT !.relay = Relay!ReadFailed(ended.relay)]
    OBVIOUS
  <2> HIDE DEF failing
  <2>2. Tells(ended, failing)
    BY <1>3, <2>1, RelayTells
  <2>3. QED  BY <1>3, <2>2, TellsTransitive DEF Tells
<1> HIDE DEF failing
<1>5. Tells(dropped, read) /\ Formed(read)
  <2>1. Tells(failing, LogProgress(failing, admits))
    BY <1>4, LogProgressTells
  <2>2. Tells(dropped, LogProgress(failing, admits))
    BY <1>4, <2>1, TellsTransitive
  <2>3. Tells(dropped, read)
    BY <1>3, <2>2
  <2>4. QED  BY <2>3 DEF Tells
<1> HIDE DEF read
<1>6. /\ Formed(stopped) /\ stopped.failures = read.failures
      /\ stopped.child = read.child /\ stopped.acquisition = read.acquisition
      /\ stopped.attemptFinished = read.attemptFinished
  <2>1. FailureTrigger(t) \in Triggers
    BY DEF FailureTrigger, Triggers
  <2>2. "OBSERVER_FAILURE" \in Failures
    BY SessionConstants DEF SessionFailures
  <2>3. Noted(read, stopped) /\ stopped.failures = read.failures
    BY <1>5, <2>1, <2>2, Stops
  <2>4. QED  BY <2>3 DEF Noted, SameHoldings
<1>7. ObserverFailures(stopped.lc) = ObserverFailures(read.lc) + 1
  <2>1. stopped.lc = Terminate(read.lc, FailureTrigger(t), "OBSERVER_FAILURE")
    BY <1>5 DEF Stop, Formed, SessionFields
  <2>2. LcSound(read.lc) /\ "OBSERVER_FAILURE" \in Failures
    BY <1>5, SessionConstants DEF Formed, SessionFailures
  <2> HIDE DEF stopped
  <2>3. QED  BY <2>1, <2>2, TerminateTells
<1> HIDE DEF stopped, u
<1>8. CASE t \notin Range(s.failures)
  BY <1>1, <1>8, TellsReflexive DEF u
<1>9. CASE t \in Range(s.failures)
  <2>1. u = stopped
    BY <1>1, <1>9 DEF Owning
  <2>2. /\ Known(read) = Known(dropped) /\ Range(read.failures) \subseteq Range(dropped.failures)
        /\ read.child = s.child /\ read.acquisition = s.acquisition
        /\ read.attemptFinished = s.attemptFinished
    BY <1>2, <1>5 DEF Tells
  <2>3. Cardinality(Range(dropped.failures)) = Cardinality(Range(s.failures)) - 1
    <3>1. IsFiniteSet(Range(s.failures))
      BY KnownCounted
    <3>2. QED  BY <1>2, <1>9, <3>1, FS_RemoveElement
  <2>4. Known(u) = Known(s)
    <3>1. /\ ObserverFailures(s.lc) \in Nat /\ Cardinality(Range(s.failures)) \in Nat
      BY KnownCounted
    <3>2. /\ ObserverFailures(read.lc) \in Nat /\ Cardinality(Range(read.failures)) \in Nat
      BY <1>5, KnownCounted
    <3>3. Known(dropped) = ObserverFailures(s.lc) + (Cardinality(Range(s.failures)) - 1)
      BY <1>2, <2>3 DEF Known
    <3>4. Known(read) = ObserverFailures(read.lc) + Cardinality(Range(read.failures))
      BY DEF Known
    <3>5. Known(u) = (ObserverFailures(read.lc) + 1) + Cardinality(Range(read.failures))
      BY <1>6, <1>7, <2>1 DEF Known
    <3>6. Known(s) = ObserverFailures(s.lc) + Cardinality(Range(s.failures))
      BY DEF Known
    <3>7. QED  BY <2>2, <3>1, <3>2, <3>3, <3>4, <3>5, <3>6
  <2>5. Tells(s, u)
    BY <1>2, <1>6, <2>1, <2>2, <2>4 DEF Tells
  <2>6. QED  BY <2>5 DEF u
<1>10. QED  BY <1>8, <1>9

\* Hearing any tasks' failures tells each of them once.
LEMMA HearTells ==
  ASSUME NEW s, Formed(s), Owning(s), NEW tasks, NEW admits
  PROVE  Tells(s, Hear(s, tasks, admits))
<1> DEFINE heard[n \in 0 .. Len(s.failures)] ==
             IF n = 0 THEN s
             ELSE IF s.failures[n] \in tasks
             THEN ObservationFailed(heard[n - 1], s.failures[n], admits)
             ELSE heard[n - 1]
           T == {k \in Nat : k <= Len(s.failures) => Tells(s, heard[k])}
<1>0. s.failures \in Seq(Tasks) /\ Len(s.failures) \in Nat
  BY DEF Formed
<1>1. heard = CHOOSE g : Hearing(g, s, tasks, admits, Len(s.failures))
  BY DEF Hearing
<1>2. Hear(s, tasks, admits) = heard[Len(s.failures)]
  BY DEF Hear
<1> HIDE DEF heard
<1>3. Hearing(heard, s, tasks, admits, Len(s.failures))
  <2>1. \E g : Hearing(g, s, tasks, admits, Len(s.failures))
    BY <1>0, HearingExists
  <2>2. QED  BY <1>1, <2>1
<1>4. \A n \in 0 .. Len(s.failures) :
        heard[n] = IF n = 0 THEN s
                   ELSE IF s.failures[n] \in tasks
                   THEN ObservationFailed(heard[n - 1], s.failures[n], admits)
                   ELSE heard[n - 1]
  BY <1>3 DEF Hearing
<1>5. 0 \in T
  <2>1. heard[0] = s
    BY <1>0, <1>4
  <2>2. QED  BY <2>1, TellsReflexive
<1>6. ASSUME NEW k \in Nat, k \in T PROVE k + 1 \in T
  <2> SUFFICES ASSUME k + 1 <= Len(s.failures) PROVE Tells(s, heard[k + 1])
    OBVIOUS
  <2>1. Tells(s, heard[k]) /\ s.failures[k + 1] \in Tasks
    BY <1>0, <1>6
  <2>2. heard[k + 1] = IF s.failures[k + 1] \in tasks
                       THEN ObservationFailed(heard[k], s.failures[k + 1], admits)
                       ELSE heard[k]
    BY <1>0, <1>4
  <2>3. Formed(heard[k]) /\ Owning(heard[k])
    BY <2>1, TellsOwning DEF Tells
  <2>4. Tells(heard[k], ObservationFailed(heard[k], s.failures[k + 1], admits))
    BY <2>1, <2>3, ObservationFailedTells
  <2>5. Tells(s, ObservationFailed(heard[k], s.failures[k + 1], admits))
    BY <2>1, <2>4, TellsTransitive
  <2>6. QED  BY <2>1, <2>2, <2>5
<1>7. Nat \subseteq T
  BY <1>5, <1>6, Induction
<1>8. QED  BY <1>0, <1>2, <1>7

\* account_recorded_failures tells every failure that is recorded, and leaves none.
LEMMA AccountTells ==
  ASSUME NEW s, Formed(s), Owning(s), NEW admits
  PROVE  Tells(s, Account(s, admits)) /\ Account(s, admits).failures = << >>
<1> DEFINE a == AccountSignal(s)
           b == AccountLease(a)
<1>1. Tells(s, a)
  <2> DEFINE u == [s EXCEPT !.sigAccounted = TRUE]
  <2>1. a = IF s.sigPending /\ ~s.sigAccounted THEN Stop(u, "signal", "REMOTE_SIGNAL")
            ELSE s
    BY DEF AccountSignal
  <2>2. /\ DOMAIN u = SessionFields /\ u.order = s.order /\ u.finished = s.finished
        /\ u.lc = s.lc /\ u.failures = s.failures /\ u.child = s.child
        /\ u.acquisition = s.acquisition /\ u.attemptFinished = s.attemptFinished
    BY DEF Formed, SessionFields
  <2> HIDE DEF u, a
  <2>3. Tells(s, u)
    BY <2>2, TellsAside DEF Formed
  <2>4. "signal" \in Triggers /\ "REMOTE_SIGNAL" \in SessionFailures
    BY DEF Triggers, SessionFailures
  <2>5. Tells(s, Stop(u, "signal", "REMOTE_SIGNAL"))
    BY <2>3, <2>4, StoppedTells
  <2>6. QED  BY <2>1, <2>5, TellsReflexive
<1> HIDE DEF a
<1>2. Tells(s, b)
  <2> DEFINE u == [a EXCEPT !.leaseAccounted = TRUE]
  <2>1. b = IF a.leaseLost /\ ~a.leaseAccounted
            THEN Stop(u, "controller_eof", "CONTROLLER_LEASE_LOST") ELSE a
    BY DEF AccountLease
  <2>2. Formed(a)
    BY <1>1 DEF Tells
  <2>3. /\ DOMAIN u = SessionFields /\ u.order = a.order /\ u.finished = a.finished
        /\ u.lc = a.lc /\ u.failures = a.failures /\ u.child = a.child
        /\ u.acquisition = a.acquisition /\ u.attemptFinished = a.attemptFinished
    BY <2>2 DEF Formed, SessionFields
  <2> HIDE DEF u, b
  <2>4. Tells(s, u)
    BY <1>1, <2>2, <2>3, TellsAside, TellsTransitive DEF Formed
  <2>5. "controller_eof" \in Triggers /\ "CONTROLLER_LEASE_LOST" \in SessionFailures
    BY DEF Triggers, SessionFailures
  <2>6. Tells(s, Stop(u, "controller_eof", "CONTROLLER_LEASE_LOST"))
    BY <2>4, <2>5, StoppedTells
  <2>7. QED  BY <1>1, <2>1, <2>6
<1> HIDE DEF b
<1>3. Formed(b) /\ Owning(b)
  BY <1>2, TellsOwning DEF Tells
<1>4. Tells(b, Hear(b, Tasks, admits)) /\ Hear(b, Tasks, admits).failures = << >>
  BY <1>3, HearTells, Hears
<1>5. Account(s, admits) = Hear(b, Tasks, admits)
  BY DEF Account, a, b
<1>6. QED  BY <1>2, <1>4, <1>5, TellsTransitive

\* What is told is in the outcome's codes and in those added after the snapshot.
LEMMA SameTold ==
  ASSUME NEW l, NEW m, m.outcome.primary = l.outcome.primary,
         m.outcome.diagnostics = l.outcome.diagnostics, m.local = l.local
  PROVE  ObserverFailures(m) = ObserverFailures(l)
  BY DEF ObserverFailures

\* Seeing the child's exit tells nothing of the observers.
LEMMA ExitUntold ==
  ASSUME NEW l, l \in Lifecycles, ~Ended(l) => l.outcome = NoOutcome, NEW rc
  PROVE  ObserverFailures(ObserveChildExit(l, rc)) = ObserverFailures(l)
<1> DEFINE result == ChildResult(rc, l.attempt.requested)
           seen   == [l EXCEPT !.attempt.result = result]
           m      == ObserveChildExit(l, rc)
<1>1. l.outcome \in Outcomes
  BY DEF Lifecycles
<1> HIDE DEF result
<1>2. /\ seen.phase = l.phase /\ seen.outcome = l.outcome /\ seen.local = l.local
      /\ DOMAIN seen = DOMAIN l
  BY DEF Lifecycles
<1>3. \/ m = l \/ m = seen
      \/ m = [seen EXCEPT !.outcome.result = result]
      \/ l.phase = "Active" /\ m = Terminate(seen, "child_exit", NoFailure)
  BY DEF ObserveChildExit, result
<1> HIDE DEF m, seen
<1>4. CASE m = l
  BY <1>4 DEF m
<1>5. CASE m = seen
  BY <1>2, <1>5, SameTold DEF m
<1>6. CASE m = [seen EXCEPT !.outcome.result = result]
  <2>1. m = [seen EXCEPT !.outcome = [l.outcome EXCEPT !.result = result]]
    BY <1>2, <1>6
  <2>2. m.outcome = [l.outcome EXCEPT !.result = result] /\ m.local = l.local
    BY <1>2, <2>1 DEF Lifecycles
  <2>3. m.outcome.primary = l.outcome.primary /\ m.outcome.diagnostics = l.outcome.diagnostics
    BY <1>1, <2>2 DEF Outcomes
  <2>4. QED  BY <2>2, <2>3, SameTold DEF m
<1>7. CASE l.phase = "Active" /\ m = Terminate(seen, "child_exit", NoFailure)
  <2>1. /\ m.outcome.primary = NoFailure /\ m.outcome.diagnostics = << >>
        /\ m.local = l.local
    BY <1>2, <1>7 DEF Terminate, Lifecycles
  <2>2. l.outcome.primary = NoFailure /\ l.outcome.diagnostics = << >>
    BY <1>7 DEF Ended, NoOutcome
  <2>3. QED  BY <2>1, <2>2, SameTold DEF m
<1>8. QED  BY <1>3, <1>4, <1>5, <1>6, <1>7

\* Whether or not the helper had asked for it.
LEMMA ExitToldOnce ==
  ASSUME NEW l, LcSound(l), NEW rc, NEW requested
  PROVE  LET told == IF requested THEN RecordChildTermination(l) ELSE l IN
         ObserverFailures(ObserveChildExit(told, rc)) = ObserverFailures(l)
<1> DEFINE told == IF requested THEN RecordChildTermination(l) ELSE l
<1>1. l \in Lifecycles /\ l.attempt \in Attempts /\ (~Ended(l) => l.outcome = NoOutcome)
  BY DEF LcSound, Lifecycles
<1>2. told \in {l, [l EXCEPT !.attempt = [l.attempt EXCEPT !.requested = TRUE]]}
  BY <1>1 DEF RecordChildTermination, Lifecycles
<1> HIDE DEF told
<1>3. [l.attempt EXCEPT !.requested = TRUE] \in Attempts
  BY <1>1 DEF Attempts
<1>4. /\ told \in Lifecycles /\ told.phase = l.phase
      /\ told.outcome = l.outcome /\ told.local = l.local
  BY <1>1, <1>2, <1>3 DEF Lifecycles
<1>5. ObserverFailures(ObserveChildExit(told, rc)) = ObserverFailures(told)
  BY <1>1, <1>4, ExitUntold DEF Ended
<1>6. ObserverFailures(told) = ObserverFailures(l)
  BY <1>4, SameTold
<1>7. QED  BY <1>5, <1>6 DEF told

\* Nor does record_exit.
LEMMA RecordExitTells ==
  ASSUME NEW s, Formed(s), s.lc.phase # "Closed", InProduction(s.lc), NEW p \in Processes,
         s.lc.attempt.requested => s.lc.attempt.result.seen,
         p.requested => Ended(s.lc) \/ s.lc.attempt.result.seen
  PROVE  Tells(s, RecordExit(s, p))
<1> DEFINE told == IF p.requested THEN [s EXCEPT !.lc = RecordChildTermination(@)] ELSE s
           seen == [told EXCEPT !.lc = ObserveChildExit(@, p.rc)]
           t    == Stop(seen, "startup_failure", "STARTUP_EXIT")
<1>1. p.requested \in BOOLEAN /\ p.rc \in Int /\ LcSound(s.lc)
  BY DEF Processes, Formed
<1>2. LcOnly(s, seen)
  BY DEF LcOnly, Formed
<1>3. seen.lc = ObserveChildExit(IF p.requested THEN RecordChildTermination(s.lc) ELSE s.lc,
                                 p.rc)
  BY DEF Formed, SessionFields
<1>4. LcSound(seen.lc)
  BY <1>1, <1>3, ExitSeen DEF Exited
<1>5. ObserverFailures(seen.lc) = ObserverFailures(s.lc)
  BY <1>1, <1>3, ExitToldOnce
<1>6. RecordExit(s, p) \in {seen, t}
  BY DEF RecordExit
<1> HIDE DEF seen
<1>7. Tells(s, seen)
  BY <1>2, <1>4, <1>5, TellsLifecycle
<1>8. "startup_failure" \in Triggers /\ "STARTUP_EXIT" \in SessionFailures
  BY DEF SessionFailures, Triggers
<1>9. Tells(s, t)
  BY <1>7, <1>8, StoppedTells
<1>10. QED  BY <1>6, <1>7, <1>9

----------------------------------------------------------------------------
\* What each step tells

\* Accounting for the facts tells every failure recorded and hides none.
LEMMA SessionTells ==
  ASSUME SessionInv, Owning(ses), NEW admits
  PROVE  /\ Formed(ses) /\ Tells(ses, ses) /\ Tells(ses, Account(ses, admits))
         /\ Formed(Account(ses, admits))
<1>1. Formed(ses)
  BY DEF SessionInv, Core
<1>2. Tells(ses, ses) /\ Tells(ses, Account(ses, admits))
  BY <1>1, TellsReflexive, AccountTells
<1>3. QED  BY <1>1, <1>2 DEF Tells

\* _announce.
LEMMA AnnounceTells ==
  ASSUME SessionInv, Announce
  PROVE  Tells(ses, ses')
<1>1. Formed(ses)
  BY DEF SessionInv, Core
<1>2. \/ ses' = [ses EXCEPT !.order = Order!SessionCreated(@)]
      \/ ses' = Stop(ses, "output_failure", "SESSION_CREATED_ADMISSION")
  BY DEF Announce, Goto
<1>3. CASE ses' = [ses EXCEPT !.order = Order!SessionCreated(@)]
  <2> DEFINE order == Order!SessionCreated(ses.order)
  <2>1. DOMAIN order = EventFields
    BY <1>1 DEF Formed, Order!SessionCreated, Order!Judge, EventFields
  <2>2. ses' = [ses EXCEPT !.order = order]
    BY <1>3
  <2> HIDE DEF order
  <2>3. QED  BY <1>1, <2>1, <2>2, EventTells
<1>4. CASE ses' = Stop(ses, "output_failure", "SESSION_CREATED_ADMISSION")
  <2>1. /\ "output_failure" \in Triggers
        /\ "SESSION_CREATED_ADMISSION" \in
             (SessionFailures \cup {NoFailure}) \ {"OBSERVER_FAILURE"}
    BY DEF Triggers, SessionFailures
  <2>2. QED  BY <1>1, <1>4, <2>1, StopTells
<1>5. QED  BY <1>2, <1>3, <1>4

\* The end of an output, a signal, a failure and a check of readiness that is due.
LEMMA HandleFactsTells ==
  ASSUME SessionInv, Owning(ses),
         HandleEOF \/ HandleSignal \/ HandleFailure \/ HandleReadiness
  PROVE  Tells(ses, ses')
<1>1. Formed(ses) /\ Tells(ses, ses)
  BY SessionTells
<1>2. CASE HandleEOF
  <2>1. PICK admits \in Admissions :
          ses' = Stop(Account(ses, admits), "controller_eof", NoFailure)
    BY <1>2 DEF HandleEOF, Goto
  <2>2. /\ "controller_eof" \in Triggers
        /\ NoFailure \in (SessionFailures \cup {NoFailure}) \ {"OBSERVER_FAILURE"}
    BY SessionConstants, LifecycleConstants DEF Triggers, SessionFailures
  <2>3. Tells(ses, Account(ses, admits))
    BY SessionTells
  <2>4. QED  BY <2>1, <2>2, <2>3, StoppedTells
<1>3. CASE HandleSignal
  <2>1. PICK admits \in Admissions : ses' = Account(ses, admits)
    BY <1>3 DEF HandleSignal, Goto
  <2>2. QED  BY <2>1, SessionTells
<1>4. CASE HandleFailure
  <2>1. PICK admits \in Admissions :
          ses' = ObservationFailed(ses, Head(queue).src, admits)
    BY <1>4 DEF HandleFailure, Goto
  <2>2. Head(queue).src \in Tasks
    BY <1>4, Takes DEF HandleFailure, Observations
  <2>3. QED  BY <1>1, <2>1, <2>2, ObservationFailedTells
<1>5. CASE HandleReadiness
  BY <1>1, <1>5 DEF HandleReadiness
<1>6. QED  BY <1>2, <1>3, <1>4, <1>5

\* The child's output.
LEMMA HandleOutputTells ==
  ASSUME SessionInv, HandleOutput
  PROVE  Tells(ses, ses')
<1>1. Formed(ses) /\ Tells(ses, ses)
  BY TellsReflexive DEF SessionInv, Core
<1>2. PICK fragment \in BOOLEAN, admitted \in Admissions :
        LET s == IF ~fragment \/ ~ses.outputAvailable THEN ses
                 ELSE IF admitted
                 THEN [ses EXCEPT !.order = Order!ChildOutputRelayed(@)]
                 ELSE Stop([ses EXCEPT !.outputAvailable = FALSE],
                           "output_failure", "CHILD_OUTPUT_ADMISSION")
            ended == {Head(queue).src} \cap
                     (IF Head(queue).kind = "OUTEOF" THEN Streams ELSE {})
        IN  Goto(IF ses.child THEN [s EXCEPT !.finished = @ \cup ended] ELSE ses,
                 "yielded")
  BY DEF HandleOutput
<1> DEFINE order  == Order!ChildOutputRelayed(ses.order)
           silent == [ses EXCEPT !.outputAvailable = FALSE]
           s      == IF ~fragment \/ ~ses.outputAvailable THEN ses
                     ELSE IF admitted THEN [ses EXCEPT !.order = order]
                     ELSE Stop(silent, "output_failure", "CHILD_OUTPUT_ADMISSION")
           ended  == {Head(queue).src} \cap
                     (IF Head(queue).kind = "OUTEOF" THEN Streams ELSE {})
<1>3. ses' = (IF ses.child THEN [s EXCEPT !.finished = @ \cup ended] ELSE ses)
  BY <1>2 DEF Goto
<1>4. Tells(ses, s)
  <2>1. Tells(ses, [ses EXCEPT !.order = order])
    <3>1. DOMAIN order = EventFields
      BY <1>1 DEF Formed, Order!ChildOutputRelayed, Order!Judge, EventFields
    <3> HIDE DEF order
    <3>2. QED  BY <1>1, <3>1, EventTells
  <2>2. Tells(ses, Stop(silent, "output_failure", "CHILD_OUTPUT_ADMISSION"))
    <3>1. /\ DOMAIN silent = SessionFields
          /\ \A f \in SessionFields \ Inessential : silent[f] = ses[f]
      BY <1>1 DEF Formed, Inessential
    <3>2. /\ "output_failure" \in Triggers
          /\ "CHILD_OUTPUT_ADMISSION" \in
               (SessionFailures \cup {NoFailure}) \ {"OBSERVER_FAILURE"}
      BY DEF Triggers, SessionFailures
    <3> HIDE DEF silent
    <3>3. Tells(ses, silent)
      BY <1>1, <3>1, InessentialTells
    <3>4. QED  BY <3>2, <3>3, StoppedTells
  <2> HIDE DEF order, silent
  <2>3. QED  BY <1>1, <2>1, <2>2
<1> HIDE DEF s, ended
<1> DEFINE finished == s.finished \cup ended
           u        == [s EXCEPT !.finished = finished]
<1>5. Formed(s) /\ finished \in SUBSET Streams /\ ses' = (IF ses.child THEN u ELSE ses)
  BY <1>3, <1>4 DEF Tells, Formed, ended
<1> HIDE DEF finished
<1>6. Tells(s, u)
  BY <1>5, FinishedTells
<1> HIDE DEF u
<1>7. QED  BY <1>1, <1>4, <1>5, <1>6, TellsTransitive

\* The log's growth, its end and its deadline.
LEMMA HandleLogTells ==
  ASSUME SessionInv, HandleLog \/ HandleLogDeadline
  PROVE  Tells(ses, ses')
<1>1. Formed(ses)
  BY DEF SessionInv, Core
<1>2. CASE HandleLog
  <2>1. PICK admits \in Admissions :
          LET taken == [ses EXCEPT !.relay =
                          CASE Head(queue).kind = "LOG"    -> Relay!Accept(@, <<"b">>)
                            [] Head(queue).kind = "LOGEOF" -> Relay!AcceptEOF(@)
                            [] OTHER                       -> @]
          IN  Goto(LogProgress(taken, admits), "yielded")
    BY <1>2 DEF HandleLog
  <2> DEFINE relay == CASE Head(queue).kind = "LOG"    -> Relay!Accept(ses.relay, <<"b">>)
                        [] Head(queue).kind = "LOGEOF" -> Relay!AcceptEOF(ses.relay)
                        [] OTHER                       -> ses.relay
             taken == [ses EXCEPT !.relay = relay]
  <2>2. ses' = LogProgress(taken, admits)
    BY <2>1 DEF Goto
  <2> HIDE DEF relay
  <2>3. Tells(ses, taken)
    BY <1>1, RelayTells
  <2> HIDE DEF taken
  <2>4. Tells(taken, ses')
    BY <2>2, <2>3, LogProgressTells DEF Tells
  <2>5. QED  BY <2>3, <2>4, TellsTransitive
<1>3. CASE HandleLogDeadline
  <2>1. ses' = [ses EXCEPT !.relay = Relay!Decide(ses.relay, TRUE, TRUE)]
    BY <1>3 DEF HandleLogDeadline, Goto
  <2>2. QED  BY <1>1, <2>1, RelayTells
<1>4. QED  BY <1>2, <1>3

\* The failure of a cleanup is no observer's.
LEMMA CleanupFailsTells ==
  ASSUME NEW s, NEW t, Tells(s, t)
  PROVE  Tells(s, CleanupFails(t))
<1>1. /\ "helper_failure" \in Triggers
      /\ "CLEANUP_FAILURE" \in (SessionFailures \cup {NoFailure}) \ {"OBSERVER_FAILURE"}
  BY DEF Triggers, SessionFailures
<1>2. QED  BY <1>1, StoppedTells DEF CleanupFails

\* The deadline of the child's streams after its exit.
LEMMA HandleDrainTells ==
  ASSUME SessionInv, HandleDrain
  PROVE  Tells(ses, ses')
<1>1. Formed(ses) /\ Tells(ses, ses)
  BY TellsReflexive DEF SessionInv, Core
<1> DEFINE s == CleanupFails(ses)
           t == [s EXCEPT !.finished = world.streams]
<1>2. ses' \in {ses, t}
  BY DEF HandleDrain, Goto
<1>3. Tells(ses, s)
  BY <1>1, CleanupFailsTells
<1> HIDE DEF s
<1>4. Tells(s, t)
  <2>1. world.streams \in SUBSET Streams
    BY SessionConstants DEF SessionInv, World
  <2>2. QED  BY <1>3, <2>1, FinishedTells DEF Tells
<1> HIDE DEF t
<1>5. QED  BY <1>1, <1>2, <1>3, <1>4, TellsTransitive

\* A step that changes the lifecycle, but not what it tells, tells nothing.
LEMMA TellsNothing ==
  ASSUME NEW s, Formed(s), NEW t, DOMAIN t = SessionFields,
         DOMAIN t.order = EventFields, t.finished \subseteq Streams, LcSound(t.lc),
         ObserverFailures(t.lc) = ObserverFailures(s.lc), t.failures = s.failures,
         t.child = s.child, t.acquisition = s.acquisition,
         t.attemptFinished = s.attemptFinished
  PROVE  Tells(s, t)
  BY DEF Tells, Formed, Known

\* Reading the evidence tells nothing.
LEMMA EvidenceTells ==
  ASSUME NEW s, NEW w, Core(s, w), Supervised(s, proc, w)
  PROVE  Tells(s, ReadEvidence(s))
<1> DEFINE e == ReadEvidence(s)
<1>1. Formed(s) /\ LcSound(s.lc)
  BY DEF Core, Formed
<1>2. CASE ~AwaitsReadiness(s.lc)
  BY <1>1, <1>2, TellsReflexive DEF ReadEvidence
<1>3. CASE AwaitsReadiness(s.lc)
  <2>1. LcOnly(s, e) /\ LcSound(e.lc) /\ e.lc.phase = s.lc.phase
    BY EvidenceKeeps
  <2>2. ~Ended(s.lc) /\ ~Ended(e.lc)
    BY <1>3, <2>1 DEF AwaitsReadiness, Ended
  <2> HIDE DEF e
  <2>3. ObserverFailures(s.lc) = 0 /\ ObserverFailures(e.lc) = 0
    BY <1>1, <2>1, <2>2, NothingTold
  <2>4. Tells(s, e)
    BY <1>1, <2>1, <2>3, TellsLifecycle
  <2>5. QED  BY <2>4 DEF e
<1>4. QED  BY <1>2, <1>3

\* Nor does the decision after a check of readiness tell an observer's failure.
LEMMA ReadinessTells ==
  ASSUME NEW s, NEW t, Tells(s, t)
  PROVE  Tells(s, AfterReady(t))
<1>1. /\ "startup_failure" \in Triggers
      /\ "READINESS_TIMEOUT" \in (SessionFailures \cup {NoFailure}) \ {"OBSERVER_FAILURE"}
  BY DEF Triggers, SessionFailures
<1>2. QED  BY <1>1, StoppedTells DEF AfterReady

\* Nor does the exit of an owned child.
LEMMA OwnedExitTells ==
  ASSUME NEW s, NEW p, NEW w, Core(s, w), Supervised(s, p, w), s.child,
         s.lc.phase # "Closed"
  PROVE  Tells(s, RecordExit(s, p))
<1>1. /\ Formed(s) /\ s.lc.attempt.stage = "owned" /\ p \in Processes
  BY DEF Core, Staged, Supervised
<1>2. InProduction(s.lc)
  BY <1>1 DEF InProduction
<1>3. QED  BY <1>1, <1>2, RecordExitTells DEF Supervised

\* What holds after accounting while the coordinator is at work.
LEMMA WorkTells ==
  ASSUME SessionInv, Owning(ses), coord \in Working \ {"spawn"}, NEW admits
  PROVE  LET a == Account(ses, admits) IN
         /\ Tells(ses, a) /\ Formed(a) /\ Core(a, world) /\ Supervised(a, proc, world)
         /\ AtWork(a)
<1>1. /\ Core(ses, world) /\ Placed(ses, proc, world, coord) /\ Supervised(ses, proc, world)
  BY DEF SessionInv
<1> DEFINE a == Account(ses, admits)
<1>2. Noted(ses, a) /\ Formed(a) /\ Tells(ses, a)
  BY SessionAccounts, SessionTells
<1> HIDE DEF a
<1>3. Core(a, world) /\ Supervised(a, proc, world) /\ AtWork(a)
  BY <1>1, <1>2, NotedCore, NotedSupervised, PlacedAtWork, NotedAtWork
<1>4. QED  BY <1>2, <1>3 DEF a

\* _ready's check.
LEMMA CheckReadyTells ==
  ASSUME SessionInv, Owning(ses), CheckReady
  PROVE  Tells(ses, ses')
<1>1. PICK admits \in Admissions, unreadable \in May("artifact") :
        LET a == Account(ses, admits)
            e == ReadEvidence(a)
        IN  IF a.lc.phase # "Starting" \/ ~a.child
            THEN Goto(AfterReady(a), "yielded") /\ UNCHANGED proc
            ELSE IF unreadable /\ a.lc.required # {}
            THEN /\ Goto(AfterReady(Stop(a, "helper_failure", "READINESS_ARTIFACT_FAILURE")),
                         "yielded")
                 /\ UNCHANGED proc
            ELSE IF ~AwaitsReadiness(e.lc) \/ ~(e.lc.required \subseteq e.lc.evidence)
            THEN Goto(AfterReady(e), "yielded") /\ UNCHANGED proc
            ELSE IF proc.state # "running"
            THEN /\ Goto(AfterReady(RecordExit(e, proc)), "yielded")
                 /\ proc' = [proc EXCEPT !.observed = TRUE]
            ELSE /\ Goto(e, IF coord = "ready" THEN "commit" ELSE "commit deadline")
                 /\ UNCHANGED proc
  BY Zenon DEF CheckReady
<1>2. coord \in Working \ {"spawn"}
  BY DEF CheckReady, Working
<1> DEFINE a == Account(ses, admits)
           e == ReadEvidence(a)
           x == RecordExit(e, proc)
           f == Stop(a, "helper_failure", "READINESS_ARTIFACT_FAILURE")
<1>3. /\ \/ ses' \in {AfterReady(a), AfterReady(f), AfterReady(e), e}
         \/ ses' = AfterReady(x) /\ a.child /\ a.lc.phase = "Starting"
  BY <1>1 DEF Goto
<1>4. Tells(ses, a) /\ Core(a, world) /\ Supervised(a, proc, world)
  BY <1>2, WorkTells
<1> HIDE DEF a
<1>5. /\ Tells(ses, e) /\ Core(e, world) /\ Supervised(e, proc, world)
      /\ e.lc.phase = a.lc.phase /\ e.child = a.child
  <2>1. Tells(a, e) /\ Core(e, world) /\ Supervised(e, proc, world)
        /\ e.lc.phase = a.lc.phase
    BY <1>4, EvidenceTells, EvidenceKeeps
  <2> HIDE DEF e
  <2>2. QED  BY <1>4, <2>1, TellsTransitive DEF Tells
<1>6. Tells(ses, f)
  <2>1. /\ "helper_failure" \in Triggers
        /\ "READINESS_ARTIFACT_FAILURE" \in
             (SessionFailures \cup {NoFailure}) \ {"OBSERVER_FAILURE"}
    BY DEF Triggers, SessionFailures
  <2>2. QED  BY <1>4, <2>1, StoppedTells
<1> HIDE DEF e, f
<1>7. a.child /\ a.lc.phase = "Starting" => Tells(ses, x)
  <2>1. a.child /\ a.lc.phase = "Starting" => Tells(e, x)
    BY <1>5, OwnedExitTells
  <2> HIDE DEF x
  <2>2. QED  BY <1>5, <2>1, TellsTransitive
<1> HIDE DEF x
<1>8. QED  BY <1>3, <1>4, <1>5, <1>6, <1>7, ReadinessTells

\* READY's commit.
LEMMA CommitReadyTells ==
  ASSUME SessionInv, Owning(ses), CommitReady
  PROVE  Tells(ses, ses')
<1>1. PICK admits \in Admissions, admitted \in Admissions :
        LET a == Account(ses, admits) IN
        IF a.lc.phase # "Starting" THEN Goto(AfterReady(a), "yielded") /\ UNCHANGED task
        ELSE IF ~admitted
        THEN /\ Goto(AfterReady(Stop(a, "output_failure", "READY_ADMISSION")), "yielded")
             /\ UNCHANGED task
        ELSE /\ Goto([a EXCEPT !.order = Order!ReadyReported(@),
                               !.lc = Ready(@, TRUE, TRUE)], "yielded")
             /\ task' = Cancelled({"readiness"})
  BY Zenon DEF CommitReady
<1>2. coord \in Working \ {"spawn"}
  BY DEF CommitReady, Working
<1> DEFINE a == Account(ses, admits)
           f == Stop(a, "output_failure", "READY_ADMISSION")
           t == [a EXCEPT !.order = Order!ReadyReported(a.order),
                          !.lc = Ready(a.lc, TRUE, TRUE)]
<1>3. \/ ses' \in {AfterReady(a), AfterReady(f)}
      \/ ses' = t /\ a.lc.phase = "Starting"
  BY <1>1 DEF Goto
<1>4. Tells(ses, a) /\ Formed(a)
  BY <1>2, WorkTells
<1> HIDE DEF a
<1>5. Tells(ses, f)
  <2>1. /\ "output_failure" \in Triggers
        /\ "READY_ADMISSION" \in (SessionFailures \cup {NoFailure}) \ {"OBSERVER_FAILURE"}
    BY DEF Triggers, SessionFailures
  <2>2. QED  BY <1>4, <2>1, StoppedTells
<1>6. ASSUME a.lc.phase = "Starting" PROVE Tells(ses, t)
  <2> DEFINE l == a.lc
             m == Ready(l, TRUE, TRUE)
  <2>1. /\ DOMAIN t = SessionFields /\ t.lc = m
        /\ t.order = Order!ReadyReported(a.order)
        /\ \A g \in SessionFields \ {"lc", "order"} : t[g] = a[g]
    BY <1>4 DEF Formed, SessionFields
  <2> HIDE DEF t
  <2>2. /\ t.failures = a.failures /\ t.finished = a.finished /\ t.child = a.child
        /\ t.acquisition = a.acquisition /\ t.attemptFinished = a.attemptFinished
    BY <2>1 DEF SessionFields
  <2>3. LcSound(l) /\ ~Ended(l) /\ l.phase = "Starting"
    BY <1>4, <1>6 DEF Formed, Ended
  <2>4. DOMAIN t.order = EventFields
    BY <1>4, <2>1 DEF Formed, Order!ReadyReported, Order!Judge, EventFields
  <2> HIDE DEF l
  <2>5. LcSound(m) /\ m.phase \in {"Starting", "Active"}
    BY <2>3, ReadyAdmitted
  <2> HIDE DEF m
  <2>6. ObserverFailures(l) = 0 /\ ObserverFailures(m) = 0
    BY <2>3, <2>5, NothingTold DEF Ended
  <2>7. Tells(a, t)
    BY <1>4, <2>1, <2>2, <2>4, <2>5, <2>6, TellsNothing DEF Formed, l
  <2>8. QED  BY <1>4, <2>7, TellsTransitive
<1> HIDE DEF t, f
<1>7. QED  BY <1>3, <1>4, <1>5, <1>6, ReadinessTells

\* _child_exited.
LEMMA HandleExitTells ==
  ASSUME SessionInv, HandleExit
  PROVE  Tells(ses, ses')
<1>1. Take("EXIT") /\ ses' = IF ses.child THEN RecordExit(ses, proc) ELSE ses
  BY DEF HandleExit, Goto
<1>2. /\ Core(ses, world) /\ Placed(ses, proc, world, coord) /\ Supervised(ses, proc, world)
      /\ Formed(ses)
  BY DEF SessionInv, Core
<1>3. ses.lc.phase # "Closed"
  BY <1>1, <1>2, Takes DEF Placed
<1>4. QED  BY <1>1, <1>2, <1>3, OwnedExitTells, TellsReflexive

\* _group_cleaned.
LEMMA HandleCleanedTells ==
  ASSUME SessionInv, HandleCleaned
  PROVE  Tells(ses, ses')
<1> DEFINE stored == [ses EXCEPT !.cleanup = "cleaned"]
           failed == IF proc.disposed THEN stored ELSE CleanupFails(stored)
<1>1. PICK admits \in Admissions : Goto(LogDisposal(failed, proc.disposed, admits), "yielded")
  BY DEF HandleCleaned
<1>2. Formed(ses)
  BY DEF SessionInv, Core
<1>3. /\ DOMAIN stored = SessionFields
      /\ stored.lc = ses.lc /\ stored.order = ses.order /\ stored.failures = ses.failures
      /\ stored.finished = ses.finished /\ stored.child = ses.child
      /\ stored.acquisition = ses.acquisition
      /\ stored.attemptFinished = ses.attemptFinished
  BY <1>2 DEF Formed, SessionFields
<1> HIDE DEF stored
<1>4. Tells(ses, stored)
  BY <1>2, <1>3, TellsAside DEF Formed
<1>5. Tells(ses, failed)
  BY <1>4, CleanupFailsTells
<1>6. ses' = LogDisposal(failed, proc.disposed, admits)
  BY <1>1 DEF Goto
<1> HIDE DEF failed
<1>7. Tells(failed, ses')
  BY <1>5, <1>6, LogDisposalTells DEF Tells
<1>8. QED  BY <1>5, <1>7, TellsTransitive

\* t knows of as many failures of observers as s, with none recorded that was not.
Conveyed(s, t) ==
  Formed(t) /\ Known(t) = Known(s) /\ Range(t.failures) \subseteq Range(s.failures)

\* Telling carries every failure.
LEMMA TellsCarried ==
  ASSUME NEW s, NEW t, Tells(s, t), Owning(s), Held(s)
  PROVE  Conveyed(s, t) /\ Owning(t) /\ Held(t)
  BY TellsOwning DEF Tells, Conveyed

\* _start.
LEMMA HandleStartTells ==
  ASSUME SessionInv, Owning(ses), HandleStart
  PROVE  Tells(ses, ses')
<1>1. PICK admits \in Admissions, refused \in May("startup"), invalid \in May("startup") :
        LET s == Account(ses, admits)
            b == [s EXCEPT !.started = TRUE,
                           !.lc = Start(@, want.policy, want.required),
                           !.address = ~refused]
        IN  IF s.lc.phase # "Created" THEN Goto(s, "yielded")
            ELSE IF refused \/ invalid
            THEN Goto(Stop(b, "startup_failure", "STARTUP_FAILURE"), "yielded")
            ELSE Goto(b, "entries")
  BY DEF HandleStart
<1> DEFINE s == Account(ses, admits)
           b == [s EXCEPT !.started = TRUE, !.lc = Start(s.lc, want.policy, want.required),
                          !.address = ~refused]
           f == Stop(b, "startup_failure", "STARTUP_FAILURE")
<1>2. ses' = s \/ (s.lc.phase = "Created" /\ ses' \in {b, f})
  BY <1>1 DEF Goto
<1>3. Tells(ses, s) /\ Formed(s)
  BY SessionTells
<1> HIDE DEF s
<1>4. ASSUME s.lc.phase = "Created" PROVE Tells(ses, b) /\ Tells(ses, f)
  <2> DEFINE l == s.lc
             m == Start(l, want.policy, want.required)
  <2>1. want.policy \in Policies /\ want.required \in SUBSET Evidence
    BY SessionConstants DEF SessionInv, World, want
  <2>2. LcSound(l) /\ l.phase = "Created"
    BY <1>3, <1>4 DEF Formed
  <2>3. /\ DOMAIN b = SessionFields /\ b.lc = m
        /\ \A g \in SessionFields \ {"lc", "started", "address"} : b[g] = s[g]
    BY <1>3 DEF Formed, SessionFields
  <2> HIDE DEF b, l
  <2>4. LcSound(m) /\ m.phase = "Starting"
    BY <2>1, <2>2, Starts
  <2> HIDE DEF m
  <2>5. /\ b.order = s.order /\ b.failures = s.failures /\ b.finished = s.finished
        /\ b.child = s.child /\ b.acquisition = s.acquisition
        /\ b.attemptFinished = s.attemptFinished
    BY <2>3 DEF SessionFields
  <2>6. ObserverFailures(l) = 0 /\ ObserverFailures(m) = 0
    BY <2>2, <2>4, NothingTold DEF Ended
  <2>7. Tells(s, b)
    BY <1>3, <2>3, <2>4, <2>5, <2>6, TellsNothing DEF Formed, l
  <2>8. Tells(ses, b)
    BY <1>3, <2>7, TellsTransitive
  <2>9. /\ "startup_failure" \in Triggers
        /\ "STARTUP_FAILURE" \in (SessionFailures \cup {NoFailure}) \ {"OBSERVER_FAILURE"}
    BY DEF Triggers, SessionFailures
  <2>10. QED  BY <2>8, <2>9, StoppedTells
<1> HIDE DEF b, f
<1>5. QED  BY <1>2, <1>3, <1>4

\* _create_entries.
LEMMA CreateEntriesTells ==
  ASSUME SessionInv, Owning(ses), CreateEntries
  PROVE  Tells(ses, ses')
<1>1. PICK admits \in Admissions, fails \in May("startup"), admitted \in Admissions :
        LET s == [ses EXCEPT !.readiness = want.policy = "live_server",
                             !.logOpen = want.log /\ ~fails]
            a == Account(s, admits)
        IN  /\ task' = IF s.logOpen THEN Started({"log", "credit"}) ELSE task
            /\ IF fails
               THEN Goto(Stop(s, "startup_failure", "STARTUP_FAILURE"), "yielded")
               ELSE IF a.lc.phase # "Starting" THEN Goto(a, "yielded")
               ELSE IF ~admitted
               THEN Goto(Stop(a, "output_failure", "ATTEMPT_ADMISSION"), "yielded")
               ELSE Goto([a EXCEPT !.order = Order!AttemptMade(@),
                                   !.lc = EnterAttempt(@, TRUE)], "spawn")
  BY Zenon DEF CreateEntries
<1> DEFINE s == [ses EXCEPT !.readiness = want.policy = "live_server",
                            !.logOpen = want.log /\ ~fails]
           a == Account(s, admits)
           f == Stop(s, "startup_failure", "STARTUP_FAILURE")
           g == Stop(a, "output_failure", "ATTEMPT_ADMISSION")
           t == [a EXCEPT !.order = Order!AttemptMade(a.order),
                          !.lc = EnterAttempt(a.lc, TRUE)]
<1>2. \/ ses' \in {f, a, g}
      \/ ses' = t /\ a.lc.phase = "Starting"
  BY <1>1 DEF Goto
<1>3. /\ Formed(ses) /\ ses.lc.phase = "Starting"
      /\ ses.lc.attempt.stage = "authorized" /\ Accounted(ses)
  BY DEF SessionInv, Core, Placed, CreateEntries, Working
<1>4. /\ DOMAIN s = SessionFields
      /\ s.lc = ses.lc /\ s.order = ses.order /\ s.failures = ses.failures
      /\ s.finished = ses.finished /\ s.child = ses.child
      /\ s.acquisition = ses.acquisition /\ s.attemptFinished = ses.attemptFinished
      /\ s.sigAccounted = ses.sigAccounted /\ s.leaseAccounted = ses.leaseAccounted
  BY <1>3 DEF Formed, SessionFields
<1> HIDE DEF s
<1>5. Tells(ses, s) /\ Formed(s) /\ Owning(s) /\ Accounted(s)
  BY <1>3, <1>4, TellsAside, TellsOwning DEF Formed, Accounted
<1>6. Tells(ses, a) /\ Formed(a) /\ Noted(s, a)
  <2>1. Tells(s, a) /\ Noted(s, a)
    BY <1>5, AccountTells, Accounts
  <2> HIDE DEF a
  <2>2. QED  BY <1>5, <2>1, TellsTransitive DEF Tells
<1> HIDE DEF a
<1>7. Tells(ses, f) /\ Tells(ses, g)
  <2>1. /\ {"startup_failure", "output_failure"} \subseteq Triggers
        /\ {"STARTUP_FAILURE", "ATTEMPT_ADMISSION"} \subseteq
             (SessionFailures \cup {NoFailure}) \ {"OBSERVER_FAILURE"}
    BY DEF Triggers, SessionFailures
  <2>2. QED  BY <1>5, <1>6, <2>1, StoppedTells
<1>8. ASSUME a.lc.phase = "Starting" PROVE Tells(ses, t)
  <2> DEFINE l == a.lc
             m == EnterAttempt(l, TRUE)
  <2>1. LcSound(l) /\ l.phase = "Starting" /\ l = s.lc
    BY <1>6, <1>8 DEF Formed, Noted, Later, Ended
  <2>2. l.attempt.stage = "authorized"
    BY <1>3, <1>4, <2>1
  <2>3. /\ DOMAIN t = SessionFields /\ t.lc = m /\ t.order = Order!AttemptMade(a.order)
        /\ \A h \in SessionFields \ {"lc", "order"} : t[h] = a[h]
    BY <1>6 DEF Formed, SessionFields
  <2>4. DOMAIN t.order = EventFields
    BY <1>6, <2>3 DEF Formed, Order!AttemptMade, Order!Judge, EventFields
  <2> HIDE DEF t, l
  <2>5. LcSound(m) /\ m.phase = "Starting"
    BY <2>1, <2>2, Enters
  <2> HIDE DEF m
  <2>6. /\ t.failures = a.failures /\ t.finished = a.finished /\ t.child = a.child
        /\ t.acquisition = a.acquisition /\ t.attemptFinished = a.attemptFinished
    BY <2>3 DEF SessionFields
  <2>7. ObserverFailures(l) = 0 /\ ObserverFailures(m) = 0
    BY <2>1, <2>5, NothingTold DEF Ended
  <2>8. Tells(a, t)
    BY <1>6, <2>3, <2>4, <2>5, <2>6, <2>7, TellsNothing DEF Formed, l
  <2>9. QED  BY <1>6, <2>8, TellsTransitive
<1> HIDE DEF f, g, t
<1>9. QED  BY <1>2, <1>6, <1>7, <1>8

\* The spawn that succeeds tells nothing, and the child is owned.
LEMMA SpawnChildCarries ==
  ASSUME SessionInv, SpawnChild
  PROVE  Conveyed(ses, ses') /\ Owning(ses') /\ Held(ses')
<1> DEFINE s == [ses EXCEPT !.marker = TRUE, !.acquisition = "child", !.acquired = TRUE,
                            !.child = TRUE, !.lc = AdoptAttempt(@)]
           l == ses.lc
           m == AdoptAttempt(l)
<1>1. coord = "spawn" /\ ses' = s
  BY DEF SpawnChild, Goto
<1>2. /\ Core(ses, world) /\ Placed(ses, proc, world, coord) /\ Formed(ses)
  BY DEF SessionInv, Core
<1>3. /\ ses.lc.phase = "Starting" /\ ses.lc.attempt.stage = "producing"
      /\ ses.acquisition = "none"
  BY <1>1, <1>2 DEF Placed, Working
<1>4. ~ses.lc.attempt.result.seen
  BY <1>2, <1>3 DEF Core, Staged
<1>5. LcSound(l) /\ ~Ended(l)
  BY <1>2, <1>3 DEF Formed, Ended
<1>6. LcSound(m) /\ m.phase \in {"Starting", "Active"}
  <2>1. LcSound(l) /\ l.phase = "Starting" /\ l.attempt.stage = "producing"
        /\ ~l.attempt.result.seen
    BY <1>3, <1>4, <1>5
  <2> HIDE DEF l
  <2>2. QED  BY <2>1, Adopts
<1>7. /\ DOMAIN s = SessionFields /\ s.lc = m /\ s.child = TRUE
      /\ s.order = ses.order /\ s.failures = ses.failures /\ s.finished = ses.finished
  BY <1>2 DEF Formed, SessionFields
<1> HIDE DEF s, m
<1>8. ObserverFailures(l) = 0 /\ ObserverFailures(m) = 0
  BY <1>5, <1>6, NothingTold DEF Ended
<1>9. Formed(s) /\ Known(s) = Known(ses)
  BY <1>2, <1>6, <1>7, <1>8 DEF Formed, Known
<1>10. QED  BY <1>1, <1>7, <1>9 DEF Conveyed, Owning, Held

\* The spawn that fails tells that, and no observer's failure.
LEMMA SpawnFailsCarries ==
  ASSUME SessionInv, Owning(ses), SpawnFails
  PROVE  Conveyed(ses, ses') /\ Owning(ses') /\ Held(ses')
<1>1. PICK result \in {"no process", "rolled back", "leaked"}, rc \in ReturnCodes,
           requested \in BOOLEAN, reaped \in BOOLEAN, admits \in Admissions :
        LET failed == Stop([ses EXCEPT !.marker = TRUE, !.acquisition = result,
                                       !.acquired = result # "no process"],
                           "startup_failure", "SPAWN_FAILURE")
            told   == IF requested THEN [failed EXCEPT !.lc = RecordChildTermination(@)]
                      ELSE failed
            exited == IF result # "no process" /\ reaped
                      THEN [told EXCEPT !.lc = ObserveChildExit(@, rc)] ELSE failed
        IN  /\ result = "rolled back" => reaped
            /\ result = "no process" => ~requested /\ ~reaped
            /\ ~reaped => rc = 0
            /\ Goto(LogDisposal(exited, result # "leaked", admits), "yielded")
            /\ task' = IF result = "leaked" THEN Cancelled({"log"}) ELSE task
            /\ proc' = IF result = "no process" THEN proc
                       ELSE [NoProcess EXCEPT
                               !.state = IF reaped THEN "reaped" ELSE "running",
                               !.rc = rc, !.requested = requested,
                               !.signalled = requested,
                               !.members = result = "leaked"]
  BY Zenon DEF SpawnFails
<1>2. coord = "spawn"
  BY DEF SpawnFails
<1> DEFINE spawned == [ses EXCEPT !.marker = TRUE, !.acquisition = result,
                                  !.acquired = result # "no process"]
           failed  == Stop(spawned, "startup_failure", "SPAWN_FAILURE")
           told    == IF requested THEN [failed EXCEPT !.lc = RecordChildTermination(@)]
                      ELSE failed
           exited  == IF result # "no process" /\ reaped
                      THEN [told EXCEPT !.lc = ObserveChildExit(@, rc)] ELSE failed
           seen == result # "no process" /\ reaped
           old  == failed.lc
           new  == ObserveChildExit(IF requested THEN RecordChildTermination(old) ELSE old, rc)
<1>3. /\ Core(ses, world) /\ Placed(ses, proc, world, coord) /\ Formed(ses)
      /\ Supervised(ses, proc, world)
  BY DEF SessionInv, Core
<1>4. /\ ses.lc.phase = "Starting" /\ ses.lc.attempt.stage = "producing"
      /\ ses.acquisition = "none"
  BY <1>2, <1>3 DEF Placed, Working
<1>5. ~ses.lc.attempt.result.seen /\ ~ses.lc.attempt.requested
  BY <1>3, <1>4 DEF Core, Staged, Supervised
<1>6. ses' = LogDisposal(exited, result # "leaked", admits)
  BY <1>1 DEF Goto
<1>7. /\ DOMAIN spawned = SessionFields /\ spawned.acquisition = result
      /\ spawned.lc = ses.lc /\ spawned.order = ses.order
      /\ spawned.failures = ses.failures /\ spawned.finished = ses.finished
      /\ spawned.child = ses.child
  BY <1>3 DEF Formed, SessionFields
<1> HIDE DEF spawned
<1>8. /\ Formed(spawned) /\ Known(spawned) = Known(ses) /\ Owning(spawned)
      /\ Held(spawned)
  BY <1>3, <1>7 DEF Formed, Known, Owning, Held
<1>9. Tells(spawned, failed) /\ Later(spawned.lc, failed.lc)
  <2>1. /\ "startup_failure" \in Triggers /\ "SPAWN_FAILURE" \in SessionFailures
        /\ "SPAWN_FAILURE" \in (SessionFailures \cup {NoFailure}) \ {"OBSERVER_FAILURE"}
    BY DEF Triggers, SessionFailures
  <2>2. Tells(spawned, failed)
    BY <1>8, <2>1, StopTells
  <2>3. Noted(spawned, failed)
    BY <1>8, <2>1, NotedReflexive, NotedStops
  <2>4. QED  BY <2>2, <2>3 DEF Noted
<1>10. Ended(failed.lc)
  <2>1. "startup_failure" \in Triggers /\ "SPAWN_FAILURE" \in SessionFailures
    BY DEF Triggers, SessionFailures
  <2>2. QED  BY <1>8, <2>1, NotedReflexive, NotedStops
<1> HIDE DEF failed
<1>11. /\ Formed(failed) /\ LcSound(old) /\ old.phase = "Terminating"
       /\ old.attempt = ses.lc.attempt
  BY <1>4, <1>7, <1>9, <1>10 DEF Tells, Formed, Later, Ended
<1>12. LcOnly(failed, exited) /\ exited.lc = IF seen THEN new ELSE old
  BY <1>11 DEF LcOnly, Formed, SessionFields
<1>13. LcSound(new) /\ ObserverFailures(new) = ObserverFailures(old)
  <2>1. InProduction(old) /\ LcSound(old) /\ old.phase = "Terminating" /\ rc \in Int
        /\ ~old.attempt.requested
    BY <1>4, <1>5, <1>11, LifecycleConstants DEF InProduction
  <2> HIDE DEF old
  <2>2. LcSound(new)
    <3>1. Exited(old, new, requested)
      BY <2>1, ExitSeen DEF Ended
    <3>2. QED  BY <3>1 DEF Exited
  <2>3. ObserverFailures(new) = ObserverFailures(old)
    BY <2>1, ExitToldOnce
  <2>4. QED  BY <2>2, <2>3
<1> HIDE DEF exited, old, new
<1>14. LcSound(exited.lc) /\ ObserverFailures(exited.lc) = ObserverFailures(failed.lc)
  BY <1>11, <1>12, <1>13 DEF old
<1>15. Tells(failed, exited)
  BY <1>11, <1>12, <1>14, TellsLifecycle
<1>16. Tells(exited, ses')
  <2> DEFINE confirmed == result # "leaked"
  <2>1. Formed(exited) /\ ses' = LogDisposal(exited, confirmed, admits)
    BY <1>6, <1>15 DEF Tells
  <2> HIDE DEF confirmed
  <2>2. QED  BY <2>1, LogDisposalTells
<1>17. Tells(spawned, ses')
  BY <1>9, <1>15, <1>16, TellsTransitive
<1>18. Conveyed(spawned, ses') /\ Owning(ses') /\ Held(ses')
  BY <1>8, <1>17, TellsCarried
<1>19. QED  BY <1>7, <1>8, <1>18 DEF Conveyed

\* The loop of the coordinator.
LEMMA CoordinateTells ==
  ASSUME SessionInv, Owning(ses), Coordinate
  PROVE  Tells(ses, ses')
<1>1. PICK admits \in Admissions :
        LET s     == LoopHead(Account(ses, admits))
            armed == IF s.drainStarted /\ ~ses.drainStarted
                     THEN Started({"log deadline"}) ELSE task
        IN  IF AttemptOver(s) /\ LogDecided(s)
            THEN /\ Goto([s EXCEPT !.relay = IF s.logOpen
                                             THEN Relay!Decide(@, FALSE, s.acquired)
                                             ELSE @], "ending")
                 /\ task' = armed
                 /\ queue' = << >>
                 /\ UNCHANGED proc
            ELSE IF NeedsCleanup(s)
            THEN /\ UNCHANGED queue
                 /\ Goto([s EXCEPT !.cleanup = "running"],
                         IF queue = << >> THEN "waiting" ELSE "take")
                 /\ task' = [armed EXCEPT !["cleanup"] = "on", !["readiness"] = "done"]
                 /\ proc' = [proc EXCEPT !.stage = "term"]
            ELSE /\ IF CanFinish(s)
                    THEN Goto(s, "settling") /\ task' = [t \in Tasks |->
                           IF t \in ChildTasks THEN "done" ELSE armed[t]]
                    ELSE /\ Goto(s, IF queue = << >> THEN "waiting" ELSE "take")
                         /\ task' = armed
                 /\ UNCHANGED <<queue, proc>>
  BY Zenon DEF Coordinate
<1> DEFINE a     == Account(ses, admits)
           s     == LoopHead(a)
           relay == IF s.logOpen THEN Relay!Decide(s.relay, FALSE, s.acquired) ELSE s.relay
           e     == [s EXCEPT !.relay = relay]
           n     == [s EXCEPT !.cleanup = "running"]
<1>2. ses' \in {e, n, s}
  BY <1>1 DEF Goto
<1>3. Tells(ses, a) /\ Formed(a)
  BY SessionTells
<1> HIDE DEF a
<1>4. Tells(ses, s) /\ Formed(s)
  <2>1. /\ DOMAIN s = SessionFields
        /\ \A f \in SessionFields \ Inessential : s[f] = a[f]
    BY <1>3 DEF LoopHead, Formed, Inessential
  <2> HIDE DEF s
  <2>2. Tells(a, s)
    BY <1>3, <2>1, InessentialTells
  <2>3. QED  BY <1>3, <2>2, TellsTransitive DEF Tells
<1> HIDE DEF s
<1>5. Tells(s, e)
  <2> HIDE DEF relay
  <2>1. QED  BY <1>4, RelayTells
<1>6. Tells(s, n)
  <2>1. /\ DOMAIN n = SessionFields
        /\ n.lc = s.lc /\ n.order = s.order /\ n.failures = s.failures
        /\ n.finished = s.finished /\ n.child = s.child
        /\ n.acquisition = s.acquisition /\ n.attemptFinished = s.attemptFinished
    BY <1>4 DEF Formed, SessionFields
  <2> HIDE DEF n
  <2>2. QED  BY <1>4, <2>1, TellsAside DEF Formed
<1> HIDE DEF e, n
<1>7. QED  BY <1>2, <1>4, <1>5, <1>6, TellsTransitive

\* Settling tells nothing.
LEMMA SettleTells ==
  ASSUME NEW l, LcSound(l)
  PROVE  LET m == SettleAttempt(l, TRUE, TRUE) IN
         LcSound(m) /\ ObserverFailures(m) = ObserverFailures(l)
<1>1. CASE l.phase = "Closed"
  BY <1>1 DEF SettleAttempt
<1>2. CASE l.phase # "Closed"
  <2> DEFINE m == SettleAttempt(l, TRUE, TRUE)
  <2>1. LcSound(m) /\ m.outcome = l.outcome /\ m.local = l.local
    BY <1>2, Settles
  <2> HIDE DEF m
  <2>2. ObserverFailures(m) = ObserverFailures(l)
    BY <2>1, SameTold
  <2>3. QED  BY <2>1, <2>2 DEF m
<1>3. QED  BY <1>1, <1>2

\* _finish_attempt tells every failure of the child's observers before it gives
\* up the child.
LEMMA SettleAttemptStepCarries ==
  ASSUME SessionInv, Owning(ses), SettleAttemptStep
  PROVE  Conveyed(ses, ses') /\ Owning(ses') /\ Held(ses')
<1>1. PICK admits \in Admissions, stillOpen \in May("lease") :
       LET heard  == Hear(ses, ChildTasks, admits)
           exited == IF proc.observed \/ proc.state = "reaped"
                     THEN RecordExit(heard, proc) ELSE heard
           closed == IF exited.address /\ stillOpen THEN CleanupFails(exited)
                     ELSE [exited EXCEPT !.address = FALSE]
           told   == Account([closed EXCEPT !.settlement = IF proc.disposed
                                              THEN "confirmed" ELSE "unconfirmed"], admits)
           ended  == IF told.lc.phase = "Starting"
                     THEN Stop(told, "startup_failure", "STARTUP_EXIT") ELSE told
           done   == [ended EXCEPT !.attemptFinished = TRUE]
       IN  IF proc.disposed /\ ~done.address
           THEN /\ Goto([done EXCEPT !.lc = SettleAttempt(@, TRUE, TRUE),
                                     !.child = FALSE], "loop")
                /\ UNCHANGED task
           ELSE /\ Goto(LogDisposal(CleanupFails(done), FALSE, admits), "loop")
                /\ task' = IF done.relay.decision = "none" THEN Cancelled({"log"}) ELSE task
  BY Zenon DEF SettleAttemptStep
<1>2. coord = "settling"
  BY DEF SettleAttemptStep
<1> DEFINE heard  == Hear(ses, ChildTasks, admits)
           exited == IF proc.observed \/ proc.state = "reaped"
                     THEN RecordExit(heard, proc) ELSE heard
           closed == IF exited.address /\ stillOpen THEN CleanupFails(exited)
                     ELSE [exited EXCEPT !.address = FALSE]
           settlement == IF proc.disposed THEN "confirmed" ELSE "unconfirmed"
           sett   == [closed EXCEPT !.settlement = settlement]
           told   == Account(sett, admits)
           ended  == IF told.lc.phase = "Starting"
                     THEN Stop(told, "startup_failure", "STARTUP_EXIT") ELSE told
           done   == [ended EXCEPT !.attemptFinished = TRUE]
           over   == [done EXCEPT !.lc = SettleAttempt(@, TRUE, TRUE), !.child = FALSE]
           left   == LogDisposal(CleanupFails(done), FALSE, admits)
<1>3. ses' \in {over, left}
  BY <1>1 DEF Goto
<1>4. /\ Core(ses, world) /\ Placed(ses, proc, world, coord) /\ Supervised(ses, proc, world)
      /\ Watched(ses, proc, coord, task, queue) /\ Formed(ses)
  BY DEF SessionInv, Core
<1>5. Settling(ses)
  <2>1. coord \in Working \ {"spawn"}
    BY <1>2 DEF Working
  <2>2. AtWork(ses) /\ ses.child /\ ~ses.attemptFinished
    BY <1>2, <1>4, <2>1, PlacedAtWork DEF Placed
  <2>3. ses.cleanup = "cleaned"
    BY <1>2, <1>4 DEF Watched, Settled
  <2>4. ses.acquisition = "child"
    BY <1>4, <2>2 DEF Core, Staged
  <2>5. QED  BY <1>4, <2>2, <2>3, <2>4 DEF Settling
<1>6. Settling(heard) /\ Tells(ses, heard)
  <2>1. Noted(ses, heard) /\ Tells(ses, heard)
    BY <1>4, Hears, HearTells
  <2> HIDE DEF heard
  <2>2. QED  BY <1>5, <2>1, SettlingGoesOn
<1> HIDE DEF heard
<1>7. Tells(ses, exited) /\ Formed(exited)
  <2>1. Tells(heard, RecordExit(heard, proc))
    BY <1>6, OwnedExitTells DEF Settling, AtWork
  <2>2. Tells(ses, exited)
    BY <1>6, <2>1, TellsTransitive
  <2>3. QED  BY <2>2 DEF Tells
<1> HIDE DEF exited
<1>8. Tells(ses, closed) /\ Formed(closed)
  <2> DEFINE given == [exited EXCEPT !.address = FALSE]
  <2>1. Tells(ses, CleanupFails(exited))
    BY <1>7, CleanupFailsTells
  <2>2. /\ DOMAIN given = SessionFields /\ given.order = exited.order
        /\ given.finished = exited.finished /\ given.lc = exited.lc
        /\ given.failures = exited.failures /\ given.child = exited.child
        /\ given.acquisition = exited.acquisition
        /\ given.attemptFinished = exited.attemptFinished
    BY <1>7 DEF Formed, SessionFields
  <2>3. closed = IF exited.address /\ stillOpen THEN CleanupFails(exited) ELSE given
    OBVIOUS
  <2> HIDE DEF given, closed
  <2>4. Tells(exited, given)
    BY <1>7, <2>2, TellsAside DEF Formed
  <2>5. Tells(ses, given)
    BY <1>7, <2>4, TellsTransitive
  <2>6. Tells(ses, closed)
    BY <2>1, <2>3, <2>5
  <2>7. QED  BY <2>6 DEF Tells
<1> HIDE DEF closed, settlement
<1>9. Tells(ses, sett) /\ Formed(sett) /\ Owning(sett)
  <2>1. /\ DOMAIN sett = SessionFields /\ sett.order = closed.order
        /\ sett.finished = closed.finished /\ sett.lc = closed.lc
        /\ sett.failures = closed.failures /\ sett.child = closed.child
        /\ sett.acquisition = closed.acquisition
        /\ sett.attemptFinished = closed.attemptFinished
    BY <1>8 DEF Formed, SessionFields
  <2> HIDE DEF sett
  <2>2. Tells(closed, sett)
    BY <1>8, <2>1, TellsAside DEF Formed
  <2>3. Tells(ses, sett)
    BY <1>8, <2>2, TellsTransitive
  <2>4. QED  BY <2>3, TellsOwning DEF Tells
<1> HIDE DEF sett
<1>10. Tells(ses, told) /\ Formed(told) /\ told.failures = << >>
  <2>1. Tells(sett, told) /\ told.failures = << >>
    BY <1>9, AccountTells
  <2> HIDE DEF told
  <2>2. Tells(ses, told)
    BY <1>9, <2>1, TellsTransitive
  <2>3. QED  BY <2>1, <2>2 DEF Tells
<1> HIDE DEF told
<1>11. Tells(ses, ended) /\ Formed(ended) /\ Range(ended.failures) = {}
  <2> DEFINE stopped == Stop(told, "startup_failure", "STARTUP_EXIT")
  <2>1. /\ "startup_failure" \in Triggers
        /\ "STARTUP_EXIT" \in (SessionFailures \cup {NoFailure}) \ {"OBSERVER_FAILURE"}
    BY DEF Triggers, SessionFailures
  <2>2. Tells(told, stopped)
    BY <1>10, <2>1, StopTells
  <2>3. Tells(told, told)
    BY <1>10, TellsReflexive
  <2>4. ended \in {told, stopped}
    OBVIOUS
  <2> HIDE DEF stopped, ended
  <2>5. Tells(told, ended)
    BY <2>2, <2>3, <2>4
  <2>6. Range(<< >>) = {}
    BY DEF Range
  <2>7. Range(ended.failures) = {}
    BY <1>10, <2>5, <2>6 DEF Tells
  <2>8. Tells(ses, ended)
    BY <1>10, <2>5, TellsTransitive
  <2>9. QED  BY <2>7, <2>8 DEF Tells
<1> HIDE DEF ended
<1>12. /\ Formed(done) /\ Known(done) = Known(ended) /\ Range(done.failures) = {}
       /\ done.attemptFinished
  <2>1. /\ DOMAIN done = SessionFields /\ done.order = ended.order
        /\ done.finished = ended.finished /\ done.lc = ended.lc
        /\ done.failures = ended.failures /\ done.attemptFinished
    BY <1>11 DEF Formed, SessionFields
  <2> HIDE DEF done
  <2>2. QED  BY <1>11, <2>1 DEF Formed, Known
<1>13. Known(done) = Known(ses)
  BY <1>11, <1>12 DEF Tells
<1> HIDE DEF done
<1>14. CASE ses' = over
  <2> DEFINE l == done.lc
             m == SettleAttempt(l, TRUE, TRUE)
  <2>1. /\ DOMAIN over = SessionFields /\ over.order = done.order
        /\ over.finished = done.finished /\ over.lc = m
        /\ over.failures = done.failures /\ over.attemptFinished = done.attemptFinished
    BY <1>12 DEF Formed, SessionFields
  <2> HIDE DEF over
  <2>2. LcSound(l)
    BY <1>12 DEF Formed
  <2> HIDE DEF l
  <2>3. LcSound(m) /\ ObserverFailures(m) = ObserverFailures(l)
    BY <2>2, SettleTells
  <2> HIDE DEF m
  <2>4. Formed(over)
    BY <1>12, <2>1, <2>3 DEF Formed
  <2>5. Known(over) = Known(done)
    BY <2>1, <2>3 DEF Known, l
  <2>6. Range(over.failures) = {} /\ over.attemptFinished
    BY <1>12, <2>1
  <2>7. QED  BY <1>13, <1>14, <2>4, <2>5, <2>6 DEF Conveyed, Owning, Held
<1>15. CASE ses' = left
  <2> DEFINE failed == CleanupFails(done)
  <2>1. Tells(done, failed)
    BY <1>12, TellsReflexive, CleanupFailsTells
  <2> HIDE DEF failed
  <2>2. Tells(failed, LogDisposal(failed, FALSE, admits))
    BY <2>1, LogDisposalTells DEF Tells
  <2>3. Tells(done, left)
    BY <2>1, <2>2, TellsTransitive DEF failed
  <2> HIDE DEF left
  <2>4. /\ Formed(left) /\ Known(left) = Known(done) /\ Range(left.failures) = {}
        /\ left.attemptFinished = done.attemptFinished
    BY <1>12, <2>3 DEF Tells
  <2>5. QED  BY <1>12, <1>13, <1>15, <2>4 DEF Conveyed, Owning, Held
<1>16. QED  BY <1>3, <1>14, <1>15

\* _run_session_tasks tells the failures of the session's own tasks.
LEMMA CancelSessionTasksTells ==
  ASSUME SessionInv, Owning(ses), CancelSessionTasks
  PROVE  Tells(ses, ses')
<1>1. PICK admits \in Admissions : ses' = Hear(ses, SessionTasks, admits)
  BY DEF CancelSessionTasks, Goto
<1>2. Formed(ses)
  BY DEF SessionInv, Core
<1>3. QED  BY <1>1, <1>2, HearTells

\* The release of the workspace tells nothing of the observers.
LEMMA ReleaseWorkspaceTells ==
  ASSUME SessionInv, ReleaseWorkspace
  PROVE  Tells(ses, ses')
<1>1. PICK stillOpen \in May("lease"), stays \in May("remove") :
       LET s == IF ses.address /\ stillOpen THEN CleanupFails(ses)
                ELSE [ses EXCEPT !.address = FALSE]
           r == [s EXCEPT !.readiness = FALSE, !.stagingClosed = TRUE]
       IN  IF ~ChildDisposed(r) \/ r.address THEN Goto(CleanupFails(r), "freezing")
           ELSE IF stays
           THEN Goto(CleanupFails([r EXCEPT !.marker = FALSE]), "freezing")
           ELSE Goto([r EXCEPT !.marker = FALSE, !.workspace = FALSE], "freezing")
  BY Zenon DEF ReleaseWorkspace
<1> DEFINE given == [ses EXCEPT !.address = FALSE]
           s == IF ses.address /\ stillOpen THEN CleanupFails(ses) ELSE given
           r == [s EXCEPT !.readiness = FALSE, !.stagingClosed = TRUE]
           m == [r EXCEPT !.marker = FALSE]
           g == [r EXCEPT !.marker = FALSE, !.workspace = FALSE]
<1>2. ses' \in {CleanupFails(r), CleanupFails(m), g}
  BY <1>1 DEF Goto
<1>3. Formed(ses)
  BY DEF SessionInv, Core
<1>4. Tells(ses, given)
  <2>1. /\ DOMAIN given = SessionFields /\ given.order = ses.order
        /\ given.finished = ses.finished /\ given.lc = ses.lc
        /\ given.failures = ses.failures /\ given.child = ses.child
        /\ given.acquisition = ses.acquisition
        /\ given.attemptFinished = ses.attemptFinished
    BY <1>3 DEF Formed, SessionFields
  <2> HIDE DEF given
  <2>2. QED  BY <1>3, <2>1, TellsAside DEF Formed
<1> HIDE DEF given
<1>5. Tells(ses, s) /\ Formed(s)
  <2>1. Tells(ses, CleanupFails(ses))
    BY <1>3, TellsReflexive, CleanupFailsTells
  <2>2. Tells(ses, s)
    BY <1>4, <2>1
  <2>3. QED  BY <2>2 DEF Tells
<1> HIDE DEF s
<1>6. Tells(ses, r) /\ Formed(r)
  <2>1. /\ DOMAIN r = SessionFields
        /\ \A f \in SessionFields \ Inessential : r[f] = s[f]
    BY <1>5 DEF Formed, Inessential
  <2> HIDE DEF r
  <2>2. Tells(s, r)
    BY <1>5, <2>1, InessentialTells
  <2>3. Tells(ses, r)
    BY <1>5, <2>2, TellsTransitive
  <2>4. QED  BY <2>3 DEF Tells
<1> HIDE DEF r
<1>7. Tells(ses, m)
  <2>1. /\ DOMAIN m = SessionFields /\ m.order = r.order /\ m.finished = r.finished
        /\ m.lc = r.lc /\ m.failures = r.failures /\ m.child = r.child
        /\ m.acquisition = r.acquisition /\ m.attemptFinished = r.attemptFinished
    BY <1>6 DEF Formed, SessionFields
  <2> HIDE DEF m
  <2>2. Tells(r, m)
    BY <1>6, <2>1, TellsAside DEF Formed
  <2>3. QED  BY <1>6, <2>2, TellsTransitive
<1>8. Tells(ses, g)
  <2>1. /\ DOMAIN g = SessionFields /\ g.order = r.order /\ g.finished = r.finished
        /\ g.lc = r.lc /\ g.failures = r.failures /\ g.child = r.child
        /\ g.acquisition = r.acquisition /\ g.attemptFinished = r.attemptFinished
    BY <1>6 DEF Formed, SessionFields
  <2> HIDE DEF g
  <2>2. Tells(r, g)
    BY <1>6, <2>1, TellsAside DEF Formed
  <2>3. QED  BY <1>6, <2>2, TellsTransitive
<1> HIDE DEF m, g
<1>9. Tells(ses, CleanupFails(r)) /\ Tells(ses, CleanupFails(m))
  BY <1>6, <1>7, CleanupFailsTells
<1>10. QED  BY <1>2, <1>8, <1>9

\* _freeze tells every failure recorded, whether or not freeze() raises.
LEMMA FreezeSnapshotTells ==
  ASSUME SessionInv, Owning(ses), FreezeSnapshot
  PROVE  Tells(ses, ses') /\ ses'.failures = << >>
<1>1. PICK admits \in Admissions :
       LET cleanup == CleanupReport(ses)
           settled == IF ChildDisposed(ses) /\ ~ses.address /\ ses.acquisition # "none"
                      THEN [ses EXCEPT !.lc = SettleAttempt(@, TRUE, TRUE)] ELSE ses
           s       == Account(settled, admits)
           log     == LogReport(s, cleanup)
       IN  IF CanFreeze(s.lc, cleanup, log)
           THEN Goto([s EXCEPT !.lc = Freeze(@, cleanup, log)], "delivering")
           ELSE Goto([s EXCEPT !.status = 1], "crashed")
  BY Zenon DEF FreezeSnapshot
<1> DEFINE cleanup == CleanupReport(ses)
           l       == ses.lc
           n       == SettleAttempt(l, TRUE, TRUE)
           over    == [ses EXCEPT !.lc = n]
           settled == IF ChildDisposed(ses) /\ ~ses.address /\ ses.acquisition # "none"
                      THEN over ELSE ses
           s       == Account(settled, admits)
           log     == LogReport(s, cleanup)
           f       == [s EXCEPT !.lc = Freeze(@, cleanup, log)]
           c       == [s EXCEPT !.status = 1]
<1>2. \/ ses' = f /\ s.lc.phase = "Terminating"
      \/ ses' = c
  BY <1>1 DEF Goto, CanFreeze
<1>3. Formed(ses) /\ LcSound(ses.lc)
  BY DEF SessionInv, Core, Formed
<1>4. Tells(ses, over)
  <2>1. over.lc = n /\ LcOnly(ses, over)
    BY <1>3 DEF Formed, SessionFields, LcOnly
  <2> HIDE DEF over
  <2>2. LcSound(l)
    BY <1>3
  <2> HIDE DEF l
  <2>3. LcSound(n) /\ ObserverFailures(n) = ObserverFailures(l)
    BY <2>2, SettleTells
  <2> HIDE DEF n
  <2>4. QED  BY <1>3, <2>1, <2>3, TellsLifecycle DEF l
<1> HIDE DEF over
<1>5. Tells(ses, settled) /\ Formed(settled) /\ Owning(settled)
  <2>1. Tells(ses, settled)
    BY <1>3, <1>4, TellsReflexive
  <2>2. QED  BY <2>1, TellsOwning DEF Tells
<1> HIDE DEF settled
<1>6. Tells(ses, s) /\ s.failures = << >> /\ Formed(s)
  <2>1. Tells(settled, s) /\ s.failures = << >>
    BY <1>5, AccountTells
  <2> HIDE DEF s
  <2>2. Tells(ses, s)
    BY <1>5, <2>1, TellsTransitive
  <2>3. QED  BY <2>1, <2>2 DEF Tells
<1> HIDE DEF s
<1>7. cleanup \in Cleanups /\ log \in Logs
  BY CleanupReports, LogReports
<1> HIDE DEF cleanup, log
<1>8. CASE ses' = f /\ s.lc.phase = "Terminating"
  <2> DEFINE d == s.lc
             m == Freeze(d, cleanup, log)
  <2>1. f.lc = m /\ LcOnly(s, f) /\ f.failures = s.failures
    BY <1>6 DEF Formed, SessionFields, LcOnly
  <2> HIDE DEF f
  <2>2. LcSound(d) /\ d.phase = "Terminating"
    BY <1>6, <1>8 DEF Formed
  <2> HIDE DEF d
  <2>3. LcSound(m) /\ m.outcome = d.outcome /\ m.local = d.local
    BY <1>7, <2>2, Freezes
  <2> HIDE DEF m
  <2>4. ObserverFailures(m) = ObserverFailures(d)
    BY <2>3, SameTold
  <2>5. Tells(s, f)
    BY <1>6, <2>1, <2>3, <2>4, TellsLifecycle DEF d
  <2>6. QED  BY <1>6, <1>8, <2>1, <2>5, TellsTransitive
<1>9. CASE ses' = c
  <2>1. /\ DOMAIN c = SessionFields /\ c.order = s.order /\ c.finished = s.finished
        /\ c.lc = s.lc /\ c.failures = s.failures /\ c.child = s.child
        /\ c.acquisition = s.acquisition /\ c.attemptFinished = s.attemptFinished
    BY <1>6 DEF Formed, SessionFields
  <2> HIDE DEF c
  <2>2. Tells(s, c)
    BY <1>6, <2>1, TellsAside DEF Formed
  <2>3. QED  BY <1>6, <1>9, <2>1, <2>2, TellsTransitive
<1>10. QED  BY <1>2, <1>8, <1>9

\* The terminal event and its delivery tell nothing of the observers.
LEMMA DeliveryTells ==
  ASSUME SessionInv, EmitTerminal \/ DrainOutput
  PROVE  Tells(ses, ses')
<1> DEFINE order ==
      Order!SessionEnded(ses.order, ses.lc.outcome.result.seen, ses.lc.cleanup.child,
                         ses.lc.cleanup.workspace, ses.lc.log,
                         IF ses.logOpen THEN ses.relay.admitted ELSE 0)
           stopped == Stop(ses, "output_failure", "TERMINAL_DELIVERY")
<1>1. ses' \in {ses, stopped} \/ ses' = [ses EXCEPT !.order = order]
  BY DEF EmitTerminal, DrainOutput, Goto
<1>2. Formed(ses)
  BY DEF SessionInv, Core
<1>3. DOMAIN order = EventFields
  BY <1>2, TerminalEventKeeps DEF Formed
<1> HIDE DEF order
<1>4. /\ "output_failure" \in Triggers
      /\ "TERMINAL_DELIVERY" \in (SessionFailures \cup {NoFailure}) \ {"OBSERVER_FAILURE"}
  BY DEF Triggers, SessionFailures
<1>5. Tells(ses, ses) /\ Tells(ses, stopped)
  BY <1>2, <1>4, TellsReflexive, StopTells
<1> HIDE DEF stopped
<1>6. ses' = [ses EXCEPT !.order = order] => Tells(ses, ses')
  BY <1>2, <1>3, EventTells
<1>7. QED  BY <1>1, <1>5, <1>6

\* The last accounting leaves no failure untold.
LEMMA ExitTells ==
  ASSUME SessionInv, Owning(ses), Exit
  PROVE  Tells(ses, ses') /\ ses'.failures = << >>
<1> DEFINE s      == Account(ses, FALSE)
           policy == IF s.started THEN want.policy ELSE "live_server"
           status == IF s.lc.local # << >> \/ SnapshotFailed(s.lc, policy) THEN 1 ELSE 0
           e      == [s EXCEPT !.status = status]
<1>1. ses' = e
  BY DEF Exit, Goto
<1>2. Tells(ses, s) /\ s.failures = << >> /\ Formed(s)
  BY AccountTells, SessionTells
<1> HIDE DEF s, status
<1>3. /\ DOMAIN e = SessionFields /\ e.order = s.order /\ e.finished = s.finished
      /\ e.lc = s.lc /\ e.failures = s.failures /\ e.child = s.child
      /\ e.acquisition = s.acquisition /\ e.attemptFinished = s.attemptFinished
  BY <1>2 DEF Formed, SessionFields
<1> HIDE DEF e
<1>4. Tells(s, e)
  BY <1>2, <1>3, TellsAside DEF Formed
<1>5. QED  BY <1>1, <1>2, <1>3, <1>4, TellsTransitive

----------------------------------------------------------------------------
\* What is told and what is recorded balance in every step

\* t tells every failure of an observer that s had recorded and t has not.
Balanced(s, t) ==
  ObserverFailures(t.lc) =
    ObserverFailures(s.lc) + Cardinality(Range(s.failures) \ Range(t.failures))

\* A failure that is carried and not recorded any more is told.
LEMMA CarriedBalances ==
  ASSUME NEW s, NEW t, Formed(s), Conveyed(s, t)
  PROVE  Balanced(s, t)
<1> DEFINE A == Range(s.failures)
           B == Range(t.failures)
<1>1. /\ ObserverFailures(s.lc) \in Nat /\ IsFiniteSet(A) /\ Cardinality(A) \in Nat
      /\ ObserverFailures(t.lc) \in Nat /\ IsFiniteSet(B) /\ Cardinality(B) \in Nat
  BY KnownCounted DEF Conveyed
<1>2. B \subseteq A
  BY DEF Conveyed
<1>3. ObserverFailures(t.lc) + Cardinality(B) = ObserverFailures(s.lc) + Cardinality(A)
  BY DEF Conveyed, Known
<1> HIDE DEF A, B
<1>4. Cardinality(A \ B) = Cardinality(A) - Cardinality(A \cap B)
  BY <1>1, FS_Difference
<1>5. A \cap B = B
  BY <1>2
<1>6. ObserverFailures(t.lc) = ObserverFailures(s.lc) + Cardinality(A \ B)
  <2> DEFINE a == Cardinality(A)
             b == Cardinality(B)
             d == Cardinality(A \ B)
             x == ObserverFailures(s.lc)
             y == ObserverFailures(t.lc)
  <2>1. d = a - b
    BY <1>4, <1>5
  <2>2. a \in Nat /\ b \in Nat /\ x \in Nat /\ y \in Nat /\ y + b = x + a
    BY <1>1, <1>3
  <2> HIDE DEF a, b, d, x, y
  <2>3. y = x + d
    BY <2>1, <2>2
  <2>4. QED  BY <2>3 DEF d, x, y
<1>7. QED  BY <1>6 DEF A, B, Balanced

\* What every step does to the failures of the observers.
Tallied == Owning(ses') /\ Held(ses') /\ Balanced(ses, ses')

\* A step that carries the failures counts them.
LEMMA CarriedCounts ==
  ASSUME SessionInv, Conveyed(ses, ses'), Owning(ses'), Held(ses')
  PROVE  Tallied
<1>1. Formed(ses)
  BY DEF SessionInv, Core
<1>2. QED  BY <1>1, CarriedBalances DEF Tallied

\* So does a step that tells them.
LEMMA TellsCounts ==
  ASSUME SessionInv, Owning(ses), Held(ses), Tells(ses, ses')
  PROVE  Tallied
  BY TellsCarried, CarriedCounts

\* And one that leaves the session as it is.
LEMMA SameCounts ==
  ASSUME SessionInv, Owning(ses), Held(ses), ses' = ses
  PROVE  Tallied
<1>1. Formed(ses)
  BY DEF SessionInv, Core
<1>2. Tells(ses, ses')
  BY <1>1, TellsReflexive
<1>3. QED  BY <1>2, TellsCounts

\* A failure of an observer of the child is recorded only while the child is owned:
\* its tasks do not run before the spawn, nor once the attempt is finished.
LEMMA ObserverFailsCounts ==
  ASSUME SessionInv, Owning(ses), Held(ses), NEW t \in Tasks, ObserverFails(t)
  PROVE  Tallied
<1>1. Formed(ses) /\ Watched(ses, proc, coord, task, queue)
  BY DEF SessionInv, Core
<1>2. CASE t = "log" /\ ses.relay.disposed
  <2>1. ses' = [ses EXCEPT !.relay = Relay!ReadFailed(ses.relay)]
    BY <1>2 DEF ObserverFails
  <2>2. Tells(ses, ses')
    BY <1>1, <2>1, RelayTells
  <2>3. QED  BY <2>2, TellsCounts
<1>3. CASE ~(t = "log" /\ ses.relay.disposed)
  <2>1. /\ ses' = [ses EXCEPT !.failures = Append(@, t), !.writerFailed = @ \/ t = "writer"]
        /\ task[t] = "on"
    BY <1>3 DEF ObserverFails, Runs
  <2>2. /\ ses'.lc = ses.lc /\ ses'.failures = Append(ses.failures, t)
        /\ ses'.child = ses.child /\ ses'.acquisition = ses.acquisition
        /\ ses'.attemptFinished = ses.attemptFinished /\ ses.failures \in Seq(Tasks)
    BY <1>1, <2>1 DEF Formed, SessionFields
  <2>3. Range(ses'.failures) = Range(ses.failures) \cup {t}
    BY <2>2, Appended
  <2>4. t \in ChildTasks => ses.acquisition = "child" /\ ~ses.attemptFinished
    BY <1>1, <2>1 DEF Watched, Settled
  <2>5. Owning(ses') /\ Held(ses')
    BY <2>2, <2>3, <2>4 DEF Owning, Held
  <2>6. Range(ses.failures) \ Range(ses'.failures) = {}
    BY <2>3
  <2>7. ObserverFailures(ses.lc) \in Nat
    BY <1>1, KnownCounted
  <2>8. Balanced(ses, ses')
    <3>1. Cardinality(Range(ses.failures) \ Range(ses'.failures)) = 0
      BY <2>6, FS_EmptySet
    <3>2. ObserverFailures(ses'.lc) = ObserverFailures(ses.lc)
      BY <2>2
    <3> DEFINE x == ObserverFailures(ses.lc)
    <3>3. x = x + 0
      BY <2>7
    <3>4. QED  BY <3>1, <3>2, <3>3 DEF Balanced
  <2>9. QED  BY <2>5, <2>8 DEF Tallied
<1>4. QED  BY <1>2, <1>3

\* The steps of the observers and of the environment that only set a fact, a latch
\* of the log, or what the client expects.
LEMMA FactsCount ==
  ASSUME SessionInv, Owning(ses), Held(ses),
         ReadEOF \/ WriteLogFrame \/ ReturnCredit \/ SignalArrives \/ ClientStarts
  PROVE  Tallied
<1>1. Formed(ses)
  BY DEF SessionInv, Core
<1>2. CASE ReadEOF \/ WriteLogFrame \/ ReturnCredit \/ SignalArrives
  <2>1. /\ DOMAIN ses' = SessionFields /\ ses'.order = ses.order
        /\ ses'.finished = ses.finished /\ ses'.lc = ses.lc
        /\ ses'.failures = ses.failures /\ ses'.child = ses.child
        /\ ses'.acquisition = ses.acquisition
        /\ ses'.attemptFinished = ses.attemptFinished
    BY <1>1, <1>2
       DEF ReadEOF, WriteLogFrame, ReturnCredit, SignalArrives, Formed, SessionFields
  <2>2. Tells(ses, ses')
    BY <1>1, <2>1, TellsAside DEF Formed
  <2>3. QED  BY <2>2, TellsCounts
<1>3. CASE ClientStarts
  <2> DEFINE order == Order!Expect(ses.order, want.policy, want.log)
  <2>1. ses' = [ses EXCEPT !.order = order]
    BY <1>3 DEF ClientStarts
  <2>2. DOMAIN order = EventFields
    BY <1>1 DEF Formed, Order!Expect, EventFields
  <2> HIDE DEF order
  <2>3. Tells(ses, ses')
    BY <1>1, <2>1, <2>2, EventTells
  <2>4. QED  BY <2>3, TellsCounts
<1>4. QED  BY <1>2, <1>3

\* The observers count every failure.
LEMMA ObserveCounts ==
  ASSUME SessionInv, Owning(ses), Held(ses), Observe
  PROVE  Tallied
<1>1. CASE \E t \in Tasks : ObserverFails(t)
  BY <1>1, ObserverFailsCounts
<1>2. CASE ReadEOF \/ WriteLogFrame \/ ReturnCredit
  BY <1>2, FactsCount
<1>3. CASE \/ \E t \in Tasks : FinishPut(t)
           \/ \E t \in Streams : ReadOutput(t) \/ ReadOutputEOF(t)
           \/ ReadStart \/ ReadRelease \/ ObserveSignal \/ ObserveExit
           \/ PollReadiness \/ ReadinessExpires \/ DrainExpires
  <2>1. ses' = ses
    BY <1>3 DEF FinishPut, ReadOutput, ReadOutputEOF, ReadStart, ReadRelease, ObserveSignal,
                ObserveExit, PollReadiness, ReadinessExpires, DrainExpires
  <2>2. QED  BY <2>1, SameCounts
<1>4. CASE \/ ReadLog \/ ReadLogEOF \/ LogDrainExpires
           \/ SendTerm \/ LeaderWaitEnds \/ SendKill \/ GroupWaitEnds
  <2>1. ses' = ses
    BY <1>4 DEF ReadLog, ReadLogEOF, LogDrainExpires, SendTerm, LeaderWaitEnds, SendKill,
                GroupWaitEnds
  <2>2. QED  BY <2>1, SameCounts
<1>5. QED  BY <1>1, <1>2, <1>3, <1>4 DEF Observe

\* So do the handlers of what they publish.
LEMMA HandleCounts ==
  ASSUME SessionInv, Owning(ses), Held(ses), Handle
  PROVE  Tallied
<1>1. Tells(ses, ses')
  <2>1. CASE HandleStart \/ HandleOutput \/ HandleLog \/ HandleLogDeadline
    BY <2>1, HandleStartTells, HandleOutputTells, HandleLogTells
  <2>2. CASE HandleEOF \/ HandleSignal \/ HandleFailure \/ HandleReadiness
    BY <2>2, HandleFactsTells
  <2>3. CASE HandleExit \/ HandleCleaned \/ HandleDrain
    BY <2>3, HandleExitTells, HandleCleanedTells, HandleDrainTells
  <2>4. QED  BY <2>1, <2>2, <2>3 DEF Handle
<1>2. QED  BY <1>1, TellsCounts

\* And every step of the coordinator.
LEMMA CoordinatorCounts ==
  ASSUME SessionInv, Owning(ses), Held(ses), Coordinator
  PROVE  Tallied
<1>1. CASE Handle
  BY <1>1, HandleCounts
<1>2. CASE SpawnChild \/ SpawnFails \/ SettleAttemptStep
  BY <1>2, SpawnChildCarries, SpawnFailsCarries, SettleAttemptStepCarries, CarriedCounts
<1>3. CASE Announce \/ Coordinate \/ CreateEntries \/ CheckReady \/ CommitReady
  <2>1. Tells(ses, ses')
    BY <1>3, AnnounceTells, CoordinateTells, CreateEntriesTells, CheckReadyTells,
       CommitReadyTells
  <2>2. QED  BY <2>1, TellsCounts
<1>4. CASE CancelSessionTasks \/ ReleaseWorkspace \/ FreezeSnapshot
           \/ EmitTerminal \/ DrainOutput \/ Exit
  <2>1. Tells(ses, ses')
    BY <1>4, CancelSessionTasksTells, ReleaseWorkspaceTells, FreezeSnapshotTells,
       DeliveryTells, ExitTells
  <2>2. QED  BY <2>1, TellsCounts
<1>5. QED  BY <1>1, <1>2, <1>3, <1>4 DEF Coordinator

\* Every step of the specification counts the failures.
LEMMA StepCounts ==
  ASSUME SessionInv, Owning(ses), Held(ses), [Next]_vars
  PROVE  Tallied
<1>1. CASE Observe
  BY <1>1, ObserveCounts
<1>2. CASE Coordinator
  BY <1>2, CoordinatorCounts
<1>3. CASE ClientStarts \/ SignalArrives
  BY <1>3, FactsCount
<1>4. CASE ChildExits \/ ChildPublishes \/ ChildLogs \/ UNCHANGED vars
  <2>1. ses' = ses
    BY <1>4 DEF ChildExits, ChildPublishes, ChildLogs, vars
  <2>2. QED  BY <2>1, SameCounts
<1>5. QED  BY <1>1, <1>2, <1>3, <1>4 DEF Next, Environment, Finished

\* Only the snapshot that freeze() refuses and the exit end the helper.
LEMMA OnlyCrashOrExitEnds ==
  ASSUME SessionInv, Next, ~Over, Over'
  PROVE  FreezeSnapshot \/ Exit
<1>1. coord' # coord /\ coord' \in {"exited", "crashed"}
  BY DEF Over
<1>2. ~Observe
  <2>1. \A t \in Tasks : ~FinishPut(t) /\ ~ObserverFails(t)
    BY <1>1 DEF FinishPut, ObserverFails
  <2>2. \A t \in Streams : ~ReadOutput(t) /\ ~ReadOutputEOF(t)
    BY <1>1 DEF ReadOutput, ReadOutputEOF
  <2>3. ~(ReadStart \/ ReadRelease \/ ReadEOF \/ ObserveSignal \/ ObserveExit
          \/ PollReadiness \/ ReadinessExpires \/ DrainExpires)
    BY <1>1 DEF ReadStart, ReadRelease, ReadEOF, ObserveSignal, ObserveExit, PollReadiness,
                ReadinessExpires, DrainExpires
  <2>4. ~(ReadLog \/ ReadLogEOF \/ WriteLogFrame \/ ReturnCredit \/ LogDrainExpires
          \/ SendTerm \/ LeaderWaitEnds \/ SendKill \/ GroupWaitEnds)
    BY <1>1 DEF ReadLog, ReadLogEOF, WriteLogFrame, ReturnCredit, LogDrainExpires, SendTerm,
                LeaderWaitEnds, SendKill, GroupWaitEnds
  <2>5. QED  BY <2>1, <2>2, <2>3, <2>4 DEF Observe
<1>3. ~Environment /\ ~Finished
  BY <1>1 DEF Environment, ClientStarts, SignalArrives, ChildExits, ChildPublishes,
              ChildLogs, Finished, vars
<1>4. ~Handle
  <2>1. ~(HandleStart \/ HandleReadiness \/ HandleEOF \/ HandleSignal \/ HandleFailure)
    BY <1>1 DEF HandleStart, HandleReadiness, HandleEOF, HandleSignal, HandleFailure, Goto
  <2>2. ~(HandleOutput \/ HandleLog \/ HandleLogDeadline)
    BY <1>1 DEF HandleOutput, HandleLog, HandleLogDeadline, Goto
  <2>3. ~(HandleExit \/ HandleCleaned \/ HandleDrain)
    BY <1>1 DEF HandleExit, HandleCleaned, HandleDrain, Goto
  <2>4. QED  BY <2>1, <2>2, <2>3 DEF Handle
<1>5. ~(Announce \/ CreateEntries \/ SpawnChild \/ SpawnFails)
  <2>1. ~Announce
    BY <1>1 DEF Announce, Goto
  <2>2. ~CreateEntries
    BY <1>1 DEF CreateEntries, Goto
  <2>3. ~SpawnChild
    BY <1>1 DEF SpawnChild, Goto
  <2>4. ~SpawnFails
    BY <1>1, SpawnFailsKeeps
  <2>5. QED  BY <2>1, <2>2, <2>3, <2>4
<1>6. ~Coordinate
  BY <1>1 DEF Coordinate, Goto
<1>7. ~(CheckReady \/ CommitReady)
  BY <1>1 DEF CheckReady, CommitReady, Goto
<1>8. ~(SettleAttemptStep \/ CancelSessionTasks \/ ReleaseWorkspace)
  <2>1. ~SettleAttemptStep
    BY <1>1, SettleAttemptStepKeeps
  <2>2. ~CancelSessionTasks
    BY <1>1 DEF CancelSessionTasks, Goto
  <2>3. ~ReleaseWorkspace
    BY <1>1 DEF ReleaseWorkspace, Goto
  <2>4. QED  BY <2>1, <2>2, <2>3
<1>9. ~(EmitTerminal \/ DrainOutput)
  BY <1>1 DEF EmitTerminal, DrainOutput, Goto
<1>10. QED  BY <1>2, <1>3, <1>4, <1>5, <1>6, <1>7, <1>8, <1>9 DEF Next, Coordinator

\* Neither the snapshot nor the end of the helper leaves a failure recorded.
LEMMA NothingLeftUntold ==
  ASSUME SessionInv, SessionInv', Owning(ses), Next,
         (~Frozen /\ Frozen') \/ (~Over /\ Over')
  PROVE  ses'.failures = << >>
<1>1. FreezeSnapshot \/ Exit
  <2>1. CASE ~Frozen /\ Frozen'
    <3>1. coord \notin Late
      BY <2>1 DEF SessionInv, Placed, Frozen
    <3>2. coord' \in Late
      BY <2>1 DEF SessionInv, Placed, Frozen, Ending
    <3>3. QED  BY <3>1, <3>2, OnlyFreezeCloses
  <2>2. CASE ~Over /\ Over'
    BY <2>2, OnlyCrashOrExitEnds
  <2>3. QED  BY <2>1, <2>2
<1>2. QED  BY <1>1, FreezeSnapshotTells, ExitTells

\* Every observer's failure that was recorded is told exactly once, whichever of
\* the record, its publication, the cancellation of its task and the end of its
\* child comes first, and no record is left when the snapshot is taken or the
\* helper ends (_observation_failed, account_recorded_failures).
THEOREM AlwaysAllTold == Spec => ObserverFailuresAreTold
<1> DEFINE Inv == SessionInv /\ Owning(ses) /\ Held(ses)
           Full == /\ Balanced(ses, ses')
                   /\ (~Frozen /\ Frozen') \/ (~Over /\ Over') => ses'.failures = << >>
<1>1. Init => Inv
  <2>1. ASSUME Init PROVE Owning(ses) /\ Held(ses)
    <3>1. ses.failures = << >> /\ ses.acquisition = "none"
      BY <2>1 DEF Init, NewSession
    <3>2. QED  BY <3>1 DEF Owning, Held, Range
  <2>2. QED  BY <2>1, SessionBegins
<1>2. Inv /\ [Next]_vars => Inv'
  BY SessionStep, StepCounts DEF Tallied
<1>3. Inv /\ [Next]_vars => [Full]_vars
  <2>1. SUFFICES ASSUME Inv, Next PROVE Full
    OBVIOUS
  <2>2. SessionInv' /\ Balanced(ses, ses')
    BY <2>1, SessionStep, StepCounts DEF Tallied
  <2>3. (~Frozen /\ Frozen') \/ (~Over /\ Over') => ses'.failures = << >>
    BY <2>1, <2>2, NothingLeftUntold
  <2>4. QED  BY <2>2, <2>3
<1>4. Full <=> /\ ObserverFailures(ses'.lc) =
                    ObserverFailures(ses.lc) +
                      Cardinality(Range(ses.failures) \ Range(ses'.failures))
               /\ (~Frozen /\ Frozen') \/ (~Over /\ Over') => ses'.failures = << >>
  BY DEF Balanced
<1>5. QED  BY <1>1, <1>2, <1>3, <1>4, PTL DEF Spec, ObserverFailuresAreTold

=============================================================================

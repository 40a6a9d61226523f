------------------------ MODULE HelperEvents_proofs ------------------------
(***************************************************************************)
(* Proofs of what HelperSession.tla promises of the log and of the client, *)
(* for any worlds, from the invariant of HelperSession_proofs and a second *)
(* one on top of it, EventsInv.                                            *)
(*                                                                         *)
(* It follows each byte of the log from the process through the queue and  *)
(* the relay to the client (Reported, Counted), and holds what the client  *)
(* was told against what the session is (Followed, Sensible, Timely).  As  *)
(* before, each action is at most one real change and then bookkeeping;    *)
(* this bookkeeping (Carried, Booked) only lets the relay go on and the    *)
(* lifecycle go forward.  The types of the session come last.              *)
(***************************************************************************)
EXTENDS HelperSession_proofs, FiniteSetTheorems

----------------------------------------------------------------------------
\* The log and the client's view of the session.  s is the session, p the
\* process, c the coordinator's place, tk the tasks, q the queue, ctl the
\* control stream and w the world.

\* Why a log is incomplete.
Causes == {"none", "LOG_RELAY_OVERFLOW", "LOG_DATA_ADMISSION", "LOG_DISPOSAL_UNCONFIRMED",
           "LOG_READ_FAILURE", "LOG_DRAIN_DEADLINE", "LOG_RELAY_UNSETTLED"}

\* The relay of a log, open or not.
Relays == [buffer : Seq({"b"}), admitted : Nat, lost : BOOLEAN, eof : BOOLEAN,
           reading : BOOLEAN, final : BOOLEAN, disposed : BOOLEAN,
           incomplete : Causes, decision : Relay!Decisions]

\* What the client refuses a terminal snapshot for.
LogReportRefused == "log report disagrees with START"

\* The client's order of events.
Orders == [policy : Policies, logRequested : BOOLEAN, created : BOOLEAN,
           attempted : BOOLEAN, ready : BOOLEAN, output : BOOLEAN, bytes : Nat,
           ended : BOOLEAN, fault : {"none", LogReportRefused}]

\* The relay still has every byte that it was given.
Unspoilt(r) == r.incomplete = "none" /\ r.decision = "none"

\* How much the relay told the client or still holds.
Kept(r) == r.admitted + Len(r.buffer)

\* A relay as its operations leave it.
RelaySound(r) ==
  /\ r \in Relays
  /\ r.lost => ~Unspoilt(r)
  /\ r.decision # "none" => r.lost /\ r.buffer = << >>
  /\ r.eof \/ r.disposed => r.final

\* n is r after a turn of the relay that accepts nothing.
Passed(r, n) ==
  /\ n.eof = r.eof
  /\ Unspoilt(n) => Unspoilt(r) /\ Kept(n) = Kept(r)
  /\ n.decision = "complete" =>
       \/ r.decision = "complete" /\ n.admitted = r.admitted
       \/ Unspoilt(r) /\ r.eof /\ n.admitted = Kept(r)
  /\ r.decision # "none" => n.decision = r.decision

\* What the client was told fits what the session is.
Followed(s) ==
  /\ s.order \in Orders /\ RelaySound(s.relay)
  /\ s.order.bytes = s.relay.admitted
  /\ s.order.output \/ s.order.ready => s.acquired
  /\ s.acquired = (s.acquisition \notin {"none", "no process"})
  /\ s.acquisition # "none" => s.order.attempted
  /\ s.order.attempted => s.order.created
  /\ s.logOpen => s.order.logRequested
  /\ ~s.logOpen => s.relay = Relay!Opened
  /\ s.relay.buffer # << >> => s.acquired /\ ~Delivered(s.order)
  /\ s.relay.final => s.acquisition # "none"
  /\ s.relay.decision # "none" => s.acquisition # "none" \/ Ended(s.lc)
  /\ s.drainStarted => s.logOpen /\ Ended(s.lc)

\* The lifecycle m comes after l.
Onward(l, m) ==
  /\ m.phase = "Created" => l.phase = "Created"
  /\ m.phase = "Starting" => l.phase = "Starting" /\ m.policy = l.policy
  /\ m.phase = "Active" => l.phase \in {"Starting", "Active"}
  /\ m.phase = "Closed" => l.phase = "Closed"
  /\ Ended(l) => Ended(m)
  /\ m.log = l.log /\ m.cleanup = l.cleanup

\* t is s after bookkeeping: the client may have been told log data.
Carried(s, t) ==
  /\ Followed(t)
  /\ t.logOpen = s.logOpen /\ t.started = s.started
  /\ t.acquired = s.acquired /\ t.acquisition = s.acquisition
  /\ Onward(s.lc, t.lc)
  /\ t.order = [s.order EXCEPT !.bytes = t.order.bytes, !.output = t.order.output]
  /\ Passed(s.relay, t.relay)

\* The client has told its EventOrder what it asks for.
Asked(s, w) ==
  /\ s.order.created /\ s.order.policy = w.request.policy
  /\ s.order.logRequested = w.request.log

\* The session goes on as the client asked.
Sensible(s, ctl, w) ==
  /\ s.started \/ ctl \in {"sending", "start", "release", "lost"} => Asked(s, w)
  /\ s.logOpen => s.started /\ w.request.log
  /\ s.order.attempted \/ s.logOpen => s.lc.phase # "Created"
  /\ s.lc.phase \in {"Starting", "Active"} => s.started
  /\ s.lc.phase = "Starting" => ~s.order.ready /\ s.lc.policy = w.request.policy

\* What the client was told where the coordinator is.
Timely(s, c) ==
  /\ c = "boot" => ~s.order.created
  /\ c = "entries" => ~s.order.attempted /\ ~s.logOpen
  /\ c = "spawn" => s.order.attempted
  /\ c \notin {"draining", "exiting", "exited"} => ~Delivered(s.order)
  /\ c \in Ending \cup Late /\ s.logOpen => s.relay.decision # "none"
  /\ c \in Late /\ s.logOpen /\ s.lc.log = "complete" =>
       s.relay.decision = "complete" /\ s.lc.cleanup.child # "unconfirmed"

\* No child was ever there.
Blank(p) ==
  p.state = "none" /\ ~p.members /\ ~p.escaped /\ p.written = 0 /\ p.taken = 0

\* Nobody can write to the log again, and all of it was read.
AtEnd(p) == p.state # "running" /\ ~p.members /\ ~p.escaped /\ p.taken = p.written

\* What an observation says, as long as it is on its way.
Means(kind, s, p, w) ==
  /\ kind = "START" => Asked(s, w)
  /\ kind = "LOG" => s.logOpen /\ s.acquired
  /\ kind = "LOGEOF" => s.logOpen /\ s.acquisition # "none" /\ AtEnd(p)
  /\ kind = "LOGDEADLINE" => s.logOpen /\ Ended(s.lc)

\* The reader of the log, before it has reported the end.
Reading == {"on", "LOG", "LOGEOF"}

\* The observations on their way are true, and the end of the log comes last.
Reported(s, p, tk, q, w) ==
  /\ \A i \in 1 .. Len(q) : Means(q[i].kind, s, p, w)
  /\ \A t \in Tasks : /\ Means(tk[t], s, p, w)
                      /\ tk[t] \in {"LOG", "LOGEOF"} => t = "log"
  /\ tk["log"] \in Reading \cup {"off", "done", "FAIL", "LOGSTOPPED"}
  /\ tk["log"] \in Reading => s.logOpen
  /\ tk["log deadline"] \notin {"off", "done"} => s.logOpen /\ Ended(s.lc)
  /\ \A i, j \in 1 .. Len(q) : q[i].kind = "LOGEOF" /\ q[j].kind \in {"LOG", "LOGEOF"} => j <= i
  /\ \A i \in 1 .. Len(q) : q[i].kind = "LOGEOF" => tk["log"] \notin Reading /\ ~s.relay.eof
  /\ s.relay.eof =>
       /\ tk["log"] \notin Reading
       /\ \A i \in 1 .. Len(q) : q[i].kind # "LOG"

\* The bytes between the reader and the relay.
LogItems(q) == {i \in 1 .. Len(q) : q[i].kind = "LOG"}

\* How many of them there are.
Pending(q, tk) == Cardinality(LogItems(q)) + (IF tk["log"] = "LOG" THEN 1 ELSE 0)

\* The client was told all that was ever written to the log.
Whole(s, p) == s.relay.admitted = p.written /\ AtEnd(p)

\* Every byte that was read is told, held or on its way, until a loss is recorded.
Counted(s, p, tk, q) ==
  /\ s.acquisition \in {"none", "no process"} => Blank(p)
  /\ p.taken <= p.written
  /\ s.relay.eof => s.acquisition # "none" /\ AtEnd(p)
  /\ ~s.logOpen => p.taken = 0
  /\ Unspoilt(s.relay) => Kept(s.relay) + Pending(q, tk) = p.taken
  /\ s.relay.decision = "complete" => Whole(s, p)

\* What s says, t still says, where no more of the process r is left than of p.
Firmer(s, p, t, r, w) ==
  /\ Asked(s, w) => Asked(t, w)
  /\ s.logOpen => t.logOpen
  /\ s.acquired => t.acquired
  /\ s.acquisition # "none" => t.acquisition # "none"
  /\ Ended(s.lc) => Ended(t.lc)
  /\ s.acquisition # "none" /\ AtEnd(p) => AtEnd(r)

\* No more of the process r is left than of p.
Calmer(s, p, r) ==
  /\ r.written = p.written /\ r.taken = p.taken /\ r.escaped = p.escaped
  /\ r.members => p.members
  /\ r.state = "running" => p.state = "running"
  /\ s.acquisition \in {"none", "no process"} => r.state = p.state

\* The invariant of the log and of what the client is told.
EventsInv ==
  /\ Followed(ses)
  /\ Sensible(ses, control, world) /\ Timely(ses, coord)
  /\ Reported(ses, proc, task, queue, world)
  /\ Counted(ses, proc, task, queue)

\* Where READY is committed, it is still awaited.
CommitsAwaited == coord \in {"commit", "commit deadline"} => AwaitsReadiness(ses.lc)

----------------------------------------------------------------------------
\* The relay

\* A recorded cause spoils the log and changes nothing else.
LEMMA CauseRecorded ==
  ASSUME NEW r, RelaySound(r), NEW cause \in Causes \ {"none"}
  PROVE  LET n == Relay!RecordIncomplete(r, cause) IN
         /\ RelaySound(n) /\ Passed(r, n) /\ ~Unspoilt(n)
         /\ \A f \in DOMAIN r \ {"incomplete"} : n[f] = r[f]
<1> DEFINE n == Relay!RecordIncomplete(r, cause)
<1>1. r \in Relays
  BY DEF RelaySound
<1>2. /\ n \in Relays /\ ~Unspoilt(n)
      /\ n.buffer = r.buffer /\ n.admitted = r.admitted /\ n.lost = r.lost
      /\ n.eof = r.eof /\ n.reading = r.reading /\ n.final = r.final
      /\ n.disposed = r.disposed /\ n.decision = r.decision
  BY <1>1 DEF Relay!RecordIncomplete, Relays, Unspoilt, Causes
<1> HIDE DEF n
<1>3. RelaySound(n) /\ Passed(r, n)
  BY <1>2 DEF RelaySound, Passed
<1>4. \A f \in DOMAIN r \ {"incomplete"} : n[f] = r[f]
  BY <1>1, <1>2 DEF Relays
<1>5. QED  BY <1>2, <1>3, <1>4 DEF n

\* The reader failed.
LEMMA ReaderFails ==
  ASSUME NEW r, RelaySound(r)
  PROVE  LET n == Relay!ReadFailed(r) IN
         /\ RelaySound(n) /\ Passed(r, n)
         /\ n.buffer = r.buffer /\ n.admitted = r.admitted
         /\ n.final = r.final /\ n.decision = r.decision
<1> DEFINE m == [r EXCEPT !.reading = FALSE]
<1>1. r \in Relays
  BY DEF RelaySound
<1>2. /\ RelaySound(m) /\ m.eof = r.eof /\ m.incomplete = r.incomplete
      /\ m.buffer = r.buffer /\ m.admitted = r.admitted
      /\ m.final = r.final /\ m.decision = r.decision
  BY <1>1 DEF RelaySound, Relays, Unspoilt
<1>3. m \in Relays
  BY <1>2 DEF RelaySound
<1>4. Relay!ReadFailed(r) = Relay!RecordIncomplete(m, "LOG_READ_FAILURE")
  BY DEF Relay!ReadFailed
<1> HIDE DEF m
<1> DEFINE n == Relay!RecordIncomplete(m, "LOG_READ_FAILURE")
<1>5. /\ RelaySound(n) /\ Passed(m, n)
      /\ n.buffer = m.buffer /\ n.admitted = m.admitted
      /\ n.final = m.final /\ n.decision = m.decision
  BY <1>2, <1>3, CauseRecorded DEF Causes, Relays
<1> HIDE DEF n
<1>6. Passed(r, n)
  BY <1>2, <1>5 DEF Passed, Unspoilt, Kept
<1>7. QED  BY <1>2, <1>4, <1>5, <1>6 DEF n

\* A refused admission loses what was buffered, and spoils the log.
LEMMA AdmissionLoses ==
  ASSUME NEW r, RelaySound(r)
  PROVE  LET n == Relay!AdmissionFails(r) IN
         /\ RelaySound(n) /\ Passed(r, n)
         /\ n.buffer = << >> /\ n.admitted = r.admitted
         /\ n.final = r.final /\ n.decision = r.decision
<1>1. r \in Relays
  BY DEF RelaySound
<1> DEFINE n == Relay!AdmissionFails(r)
<1>0. << >> \in Seq({"b"})
  OBVIOUS
<1>2. /\ n \in Relays /\ ~Unspoilt(n) /\ n.lost /\ n.eof = r.eof /\ n.disposed = r.disposed
      /\ n.buffer = << >> /\ n.admitted = r.admitted
      /\ n.final = r.final /\ n.decision = r.decision
  BY <1>0, <1>1 DEF Relay!AdmissionFails, Relay!RecordIncomplete, Relay!LoseContinuity,
              Relays, Unspoilt, Causes
<1> HIDE DEF n
<1>3. RelaySound(n) /\ Passed(r, n)
  BY <1>2 DEF RelaySound, Passed
<1>4. QED  BY <1>2, <1>3 DEF n

\* All that is buffered is handed to the client's stream.
LEMMA AllAdmitted ==
  ASSUME NEW r, RelaySound(r)
  PROVE  LET n == Relay!Admit(r, Len(r.buffer)) IN
         /\ RelaySound(n) /\ Passed(r, n)
         /\ n.buffer = << >> /\ n.admitted = Kept(r)
         /\ n.final = r.final /\ n.decision = r.decision
<1>1. r \in Relays /\ Len(r.buffer) \in Nat /\ r.admitted \in Nat
  BY DEF RelaySound, Relays
<1> DEFINE n == Relay!Admit(r, Len(r.buffer))
<1>2. SubSeq(r.buffer, Len(r.buffer) + 1, Len(r.buffer)) = << >>
  BY <1>1
<1>3. n = [r EXCEPT !.buffer = << >>, !.admitted = Kept(r)]
  BY <1>2 DEF Relay!Admit, Kept
<1>4. << >> \in Seq({"b"}) /\ Kept(r) \in Nat
  BY <1>1 DEF Kept
<1> HIDE DEF n
<1>5. /\ n \in Relays /\ n.eof = r.eof /\ n.disposed = r.disposed
      /\ n.incomplete = r.incomplete
      /\ n.buffer = << >> /\ n.admitted = Kept(r) /\ n.lost = r.lost
      /\ n.final = r.final /\ n.decision = r.decision
  BY <1>1, <1>3, <1>4 DEF Relays
<1>6. Kept(n) = Kept(r)
  BY <1>4, <1>5 DEF Kept
<1>7. r.decision # "none" => n.admitted = r.admitted
  BY <1>1, <1>5 DEF RelaySound, Kept
<1>8. RelaySound(n) /\ Passed(r, n)
  BY <1>5, <1>6, <1>7 DEF RelaySound, Passed, Unspoilt
<1>9. QED  BY <1>5, <1>8 DEF n

\* The first decision stands; one for complete finds nothing amiss.
LEMMA LogDecides ==
  ASSUME NEW r, RelaySound(r), NEW deadline, NEW childAcquired
  PROVE  LET n == Relay!Decide(r, deadline, childAcquired) IN
         /\ RelaySound(n) /\ n.decision # "none" /\ n.buffer = << >>
         /\ n.eof = r.eof /\ n.final = r.final /\ n.admitted = r.admitted
         /\ r.decision # "none" => n = r
         /\ r.decision = "none" /\ n.decision = "complete" =>
              /\ Unspoilt(r) /\ (childAcquired => r.eof /\ r.disposed)
              /\ deadline => r.buffer = << >>
<1> DEFINE late    == IF deadline /\ (r.buffer # << >> \/ r.reading)
                      THEN Relay!RecordIncomplete(r, "LOG_DRAIN_DEADLINE") ELSE r
           settled == IF childAcquired /\ ~(r.eof /\ r.disposed)
                      THEN Relay!RecordIncomplete(late, "LOG_RELAY_UNSETTLED") ELSE late
           n       == Relay!Decide(r, deadline, childAcquired)
<1>1. n = IF r.decision # "none" THEN r
          ELSE [Relay!LoseContinuity(settled) EXCEPT
                  !.decision = IF settled.incomplete = "none" THEN "complete"
                               ELSE "incomplete"]
  BY DEF Relay!Decide
<1>2. r \in Relays
  BY DEF RelaySound
<1>3. /\ RelaySound(late) /\ late.eof = r.eof /\ late.final = r.final
      /\ late.admitted = r.admitted /\ late.decision = r.decision
      /\ r.decision = "none" /\ late.incomplete = "none" =>
           Unspoilt(r) /\ (deadline => r.buffer = << >>)
  <2>1. CASE deadline /\ (r.buffer # << >> \/ r.reading)
    BY <1>2, <2>1, CauseRecorded DEF Causes, Relays, Unspoilt
  <2>2. CASE ~(deadline /\ (r.buffer # << >> \/ r.reading))
    BY <1>2, <2>2 DEF Relays, Unspoilt
  <2>3. QED  BY <2>1, <2>2
<1> HIDE DEF late
<1>4. late \in Relays
  BY <1>3 DEF RelaySound
<1>5. /\ RelaySound(settled) /\ settled.eof = r.eof /\ settled.final = r.final
      /\ settled.admitted = r.admitted /\ settled.decision = r.decision
      /\ r.decision = "none" /\ settled.incomplete = "none" =>
           /\ Unspoilt(r) /\ (deadline => r.buffer = << >>)
           /\ childAcquired => r.eof /\ r.disposed
  <2>1. CASE childAcquired /\ ~(r.eof /\ r.disposed)
    BY <1>3, <1>4, <2>1, CauseRecorded DEF Causes, Relays, Unspoilt
  <2>2. CASE ~(childAcquired /\ ~(r.eof /\ r.disposed))
    BY <1>3, <2>2
  <2>3. QED  BY <2>1, <2>2
<1> HIDE DEF settled, n
<1>6. CASE r.decision # "none"
  BY <1>1, <1>6 DEF RelaySound, n
<1>7. CASE r.decision = "none"
  <2> DEFINE verdict == IF settled.incomplete = "none" THEN "complete" ELSE "incomplete"
  <2>1. n = [Relay!LoseContinuity(settled) EXCEPT !.decision = verdict]
    BY <1>1, <1>7
  <2>2. verdict \in Relay!Decisions \ {"none"}
    BY DEF Relay!Decisions
  <2>3. settled \in Relays
    BY <1>5 DEF RelaySound
  <2>4. verdict = "complete" => settled.incomplete = "none"
    OBVIOUS
  <2> HIDE DEF verdict
  <2>9. << >> \in Seq({"b"})
    OBVIOUS
  <2>5. /\ n \in Relays /\ n.lost /\ n.buffer = << >> /\ n.decision = verdict
        /\ n.eof = settled.eof /\ n.final = settled.final
        /\ n.disposed = settled.disposed /\ n.admitted = settled.admitted
    BY <2>1, <2>2, <2>3, <2>9 DEF Relay!LoseContinuity, Relays
  <2>6. RelaySound(n)
    BY <1>5, <2>2, <2>5 DEF RelaySound, Unspoilt
  <2>7. QED  BY <1>5, <1>7, <2>2, <2>4, <2>5, <2>6 DEF n
<1>8. QED  BY <1>6, <1>7

\* A decision at a log's natural end is one for a log that was read to its end.
LEMMA LogDecidesIfReady ==
  ASSUME NEW r, RelaySound(r)
  PROVE  LET n == Relay!DecideIfReady(r) IN
         /\ RelaySound(n) /\ Passed(r, n)
         /\ n.final = r.final /\ n.admitted = r.admitted
         /\ n.buffer # << >> => r.buffer # << >>
         /\ n.decision # "none" => r.decision # "none" \/ r.final
<1> DEFINE n == Relay!DecideIfReady(r)
<1>1. CASE Relay!ReadyToDecide(r)
  <2>1. r.decision = "none" /\ r.final /\ r.buffer = << >>
    BY <1>1 DEF Relay!ReadyToDecide
  <2>7. PICK deadline \in BOOLEAN, acquired \in BOOLEAN : ~deadline /\ acquired
    OBVIOUS
  <2>2. n = Relay!Decide(r, deadline, acquired)
    BY <1>1, <2>7 DEF Relay!DecideIfReady
  <2> HIDE DEF n
  <2>8. /\ RelaySound(n) /\ n.decision # "none" /\ n.buffer = << >>
        /\ n.eof = r.eof /\ n.final = r.final /\ n.admitted = r.admitted
        /\ r.decision = "none" /\ n.decision = "complete" =>
             Unspoilt(r) /\ (acquired => r.eof /\ r.disposed)
    BY <2>2, LogDecides
  <2>3. /\ RelaySound(n) /\ n.decision # "none" /\ n.buffer = << >>
        /\ n.eof = r.eof /\ n.final = r.final /\ n.admitted = r.admitted
        /\ n.decision = "complete" => Unspoilt(r) /\ r.eof
    BY <2>1, <2>7, <2>8
  <2>4. r.admitted \in Nat
    BY DEF RelaySound, Relays
  <2>5. Kept(r) = r.admitted
    BY <2>1, <2>4 DEF Kept
  <2>6. Passed(r, n)
    BY <2>1, <2>3, <2>5 DEF Passed, Unspoilt
  <2>9. QED  BY <2>1, <2>3, <2>6 DEF n
<1>2. CASE ~Relay!ReadyToDecide(r)
  BY <1>2 DEF Relay!DecideIfReady, Passed
<1>3. QED  BY <1>1, <1>2

\* A byte that arrives is kept, or the log is spoilt.
LEMMA ByteAccepted ==
  ASSUME NEW r, RelaySound(r)
  PROVE  LET n == Relay!Accept(r, <<"b">>) IN
         /\ RelaySound(n) /\ n.eof = r.eof /\ n.final = r.final
         /\ n.admitted = r.admitted /\ n.decision = r.decision
         /\ Unspoilt(n) => Unspoilt(r) /\ Kept(n) = Kept(r) + 1
<1> DEFINE n    == Relay!Accept(r, <<"b">>)
           room == LogBuffer - Len(r.buffer)
           full == [r EXCEPT !.buffer = @ \o SubSeq(<<"b">>, 1, room), !.lost = TRUE]
<1>1. r \in Relays /\ r.buffer \in Seq({"b"}) /\ r.admitted \in Nat /\ Len(r.buffer) \in Nat
  BY DEF RelaySound, Relays
<1>2. LogBuffer \in Nat /\ room \in Int
  BY <1>1, SessionConstants
<1>3. CASE r.lost \/ r.decision # "none"
  <2>1. n = r
    BY <1>3 DEF Relay!Accept
  <2>2. ~Unspoilt(r)
    BY <1>3 DEF RelaySound, Unspoilt
  <2>3. QED  BY <2>1, <2>2
<1>4. CASE ~(r.lost \/ r.decision # "none") /\ 1 > room
  <2>1. n = Relay!RecordIncomplete(full, "LOG_RELAY_OVERFLOW")
    BY <1>4 DEF Relay!Accept
  <2>2. SubSeq(<<"b">>, 1, room) \in Seq({"b"})
    BY <1>2, <1>4
  <2>3. r.buffer \o SubSeq(<<"b">>, 1, room) \in Seq({"b"})
    BY <1>1, <2>2
  <2>4. /\ full \in Relays /\ full.eof = r.eof /\ full.final = r.final
        /\ full.disposed = r.disposed
        /\ full.admitted = r.admitted /\ full.decision = "none"
    BY <1>1, <1>4, <2>3 DEF Relays
  <2> HIDE DEF full, n
  <2>5. /\ n \in Relays /\ ~Unspoilt(n) /\ n.eof = full.eof /\ n.final = full.final
        /\ n.disposed = full.disposed
        /\ n.admitted = full.admitted /\ n.decision = full.decision
    BY <2>1, <2>4 DEF Relay!RecordIncomplete, Relays, Unspoilt, Causes
  <2>6. RelaySound(n)
    BY <1>4, <2>4, <2>5 DEF RelaySound
  <2>7. QED  BY <1>4, <2>4, <2>5, <2>6 DEF n
<1>5. CASE ~(r.lost \/ r.decision # "none") /\ ~(1 > room)
  <2>1. n = [r EXCEPT !.buffer = r.buffer \o <<"b">>]
    BY <1>5 DEF Relay!Accept
  <2>2. r.buffer \o <<"b">> \in Seq({"b"}) /\ Len(r.buffer \o <<"b">>) = Len(r.buffer) + 1
    BY <1>1
  <2> HIDE DEF n
  <2>3. /\ n \in Relays /\ Len(n.buffer) = Len(r.buffer) + 1
        /\ n.eof = r.eof /\ n.final = r.final /\ n.admitted = r.admitted
        /\ n.disposed = r.disposed
        /\ n.decision = r.decision /\ n.lost = r.lost /\ n.incomplete = r.incomplete
    BY <1>1, <2>1, <2>2 DEF Relays
  <2>4. Kept(n) = Kept(r) + 1
    BY <1>1, <2>3 DEF Kept
  <2>5. RelaySound(n)
    BY <1>5, <2>3 DEF RelaySound, Unspoilt
  <2>6. QED  BY <2>3, <2>4, <2>5 DEF Unspoilt, n
<1>6. QED  BY <1>3, <1>4, <1>5

\* Its last end-of-file.
LEMMA EndAccepted ==
  ASSUME NEW r, RelaySound(r)
  PROVE  LET n == Relay!AcceptEOF(r) IN
         /\ RelaySound(n) /\ n.eof /\ n.final /\ n.buffer = r.buffer
         /\ n.admitted = r.admitted /\ n.decision = r.decision
         /\ n.incomplete = r.incomplete
  BY DEF Relay!AcceptEOF, RelaySound, Relays, Unspoilt

\* The child's disposal is confirmed.
LEMMA DisposalConfirmed ==
  ASSUME NEW r, RelaySound(r)
  PROVE  LET n == Relay!ConfirmDisposal(r) IN
         /\ RelaySound(n) /\ Passed(r, n) /\ n.buffer = r.buffer
         /\ n.admitted = r.admitted /\ n.decision = r.decision
<1>1. r \in Relays
  BY DEF RelaySound
<1>2. Relay!ConfirmDisposal(r) = [r EXCEPT !.disposed = TRUE, !.final = TRUE]
  BY DEF Relay!ConfirmDisposal
<1> DEFINE n == [r EXCEPT !.disposed = TRUE, !.final = TRUE]
<1>3. /\ n \in Relays /\ n.buffer = r.buffer /\ n.admitted = r.admitted
      /\ n.decision = r.decision /\ n.incomplete = r.incomplete /\ n.lost = r.lost
      /\ n.eof = r.eof /\ n.final
  BY <1>1 DEF Relays
<1> HIDE DEF n
<1>4. RelaySound(n) /\ Passed(r, n)
  BY <1>3 DEF RelaySound, Passed, Unspoilt, Kept
<1>5. QED  BY <1>2, <1>3, <1>4 DEF n

\* The log is given up.
LEMMA LogCut ==
  ASSUME NEW r, RelaySound(r)
  PROVE  LET n == Relay!Cut(r) IN
         /\ RelaySound(n) /\ Passed(r, n) /\ ~Unspoilt(n) /\ n.buffer = r.buffer
         /\ n.admitted = r.admitted /\ n.decision = r.decision
<1> DEFINE m == [r EXCEPT !.reading = FALSE, !.final = TRUE]
<1>1. r \in Relays
  BY DEF RelaySound
<1>2. /\ m \in Relays /\ m.buffer = r.buffer /\ m.admitted = r.admitted
      /\ m.decision = r.decision /\ m.incomplete = r.incomplete /\ m.lost = r.lost
      /\ m.eof = r.eof /\ m.final
  BY <1>1 DEF Relays
<1>3. Relay!Cut(r) = Relay!RecordIncomplete(m, "LOG_DISPOSAL_UNCONFIRMED")
  BY DEF Relay!Cut
<1> HIDE DEF m
<1>4. RelaySound(m)
  BY <1>2 DEF RelaySound, Unspoilt
<1> DEFINE n == Relay!RecordIncomplete(m, "LOG_DISPOSAL_UNCONFIRMED")
<1>5. /\ RelaySound(n) /\ Passed(m, n) /\ ~Unspoilt(n)
      /\ n.buffer = m.buffer /\ n.admitted = m.admitted /\ n.decision = m.decision
  BY <1>2, <1>4, CauseRecorded DEF Causes, Relays
<1> HIDE DEF n
<1>6. Passed(r, n)
  BY <1>2, <1>5 DEF Passed, Unspoilt, Kept
<1>7. QED  BY <1>2, <1>3, <1>5, <1>6 DEF n

----------------------------------------------------------------------------
\* Bookkeeping, for the log and the client

\* The fields of the session that its log and its client depend on.
LogFields == {"order", "relay", "logOpen", "started", "acquired", "acquisition", "drainStarted"}

\* A step that leaves the log, the client and the attempt alone; the drain of the
\* log may start.
LEMMA CarriedBeside ==
  ASSUME NEW s, Followed(s), NEW t, \A f \in LogFields \ {"drainStarted"} : t[f] = s[f],
         t.drainStarted => s.logOpen /\ Ended(t.lc), Onward(s.lc, t.lc)
  PROVE  Carried(s, t)
<1>1. /\ t.order = s.order /\ t.relay = s.relay /\ t.logOpen = s.logOpen
      /\ t.started = s.started /\ t.acquired = s.acquired
      /\ t.acquisition = s.acquisition
  BY DEF LogFields
<1>2. Followed(t)
  BY <1>1 DEF Followed, Onward
<1>3. t.order = [s.order EXCEPT !.bytes = t.order.bytes, !.output = t.order.output]
  BY <1>1 DEF Followed, Orders
<1>4. Passed(s.relay, t.relay)
  BY <1>1 DEF Passed
<1>5. QED  BY <1>1, <1>2, <1>3, <1>4 DEF Carried

\* A step that leaves even that alone.
LEMMA CarriedAside ==
  ASSUME NEW s, Followed(s), NEW t, \A f \in LogFields : t[f] = s[f],
         Onward(s.lc, t.lc)
  PROVE  Carried(s, t)
<1>1. t.drainStarted => s.logOpen /\ Ended(t.lc)
  BY DEF Followed, Onward, LogFields
<1>2. QED  BY <1>1, CarriedBeside

\* Nothing at all.
LEMMA CarriedReflexive ==
  ASSUME NEW s, Followed(s)
  PROVE  Carried(s, s)
<1>1. Onward(s.lc, s.lc)
  BY DEF Onward
<1>2. QED  BY <1>1, CarriedAside

\* One after the other.
LEMMA CarriedTransitive ==
  ASSUME NEW s, NEW t, NEW u, Carried(s, t), Carried(t, u), s.order \in Orders
  PROVE  Carried(s, u)
<1>1. u.order = [s.order EXCEPT !.bytes = u.order.bytes, !.output = u.order.output]
  BY DEF Carried, Orders
<1>2. Passed(s.relay, u.relay)
  BY DEF Carried, Passed
<1>3. Onward(s.lc, u.lc)
  BY DEF Carried, Onward
<1>4. QED  BY <1>1, <1>2, <1>3 DEF Carried

\* A turn of the relay that hands nothing out.
LEMMA CarriedRelay ==
  ASSUME NEW s, Formed(s), Followed(s), s.logOpen,
         NEW relay, RelaySound(relay), Passed(s.relay, relay),
         relay.admitted = s.relay.admitted,
         relay.buffer # << >> => s.relay.buffer # << >>,
         relay.final => s.acquisition # "none",
         relay.decision # "none" => s.acquisition # "none" \/ Ended(s.lc)
  PROVE  Carried(s, [s EXCEPT !.relay = relay])
<1> DEFINE t == [s EXCEPT !.relay = relay]
<1>1. /\ t.lc = s.lc /\ t.order = s.order /\ t.relay = relay /\ t.logOpen = s.logOpen
      /\ t.started = s.started /\ t.acquired = s.acquired
      /\ t.acquisition = s.acquisition /\ t.drainStarted = s.drainStarted
  BY DEF Formed, SessionFields
<1> HIDE DEF t
<1>2. Followed(t)
  BY <1>1 DEF Followed
<1>3. t.order = [s.order EXCEPT !.bytes = t.order.bytes, !.output = t.order.output]
  BY <1>1 DEF Followed, Orders
<1>4. Carried(s, t)
  BY <1>1, <1>2, <1>3 DEF Carried, Onward
<1>5. QED  BY <1>4 DEF t

\* What is buffered goes to a client that takes it.
LEMMA CarriedData ==
  ASSUME NEW s, Formed(s), Followed(s), s.logOpen, s.relay.buffer # << >>
  PROVE  LET size == Len(s.relay.buffer) IN
         Carried(s, [s EXCEPT !.relay = Relay!Admit(@, size), !.logInFlight = TRUE,
                              !.order = Order!LogDataRelayed(@, s.relay.admitted, size)])
<1> DEFINE size  == Len(s.relay.buffer)
           relay == Relay!Admit(s.relay, size)
           order == Order!LogDataRelayed(s.order, s.relay.admitted, size)
           t     == [s EXCEPT !.relay = relay, !.logInFlight = TRUE, !.order = order]
<1>1. /\ RelaySound(relay) /\ Passed(s.relay, relay) /\ relay.buffer = << >>
      /\ relay.admitted = Kept(s.relay)
      /\ relay.final = s.relay.final /\ relay.decision = s.relay.decision
  BY AllAdmitted DEF Followed
<1>2. /\ s.order \in Orders /\ s.order.fault = "none" /\ ~s.order.ended
      /\ s.order.created /\ s.order.attempted /\ s.order.logRequested
      /\ s.order.bytes = s.relay.admitted /\ s.acquired
  BY DEF Followed, Delivered
<1>3. order = [s.order EXCEPT !.bytes = @ + size, !.output = TRUE]
  BY <1>2 DEF Order!LogDataRelayed, Order!Judge, Order!InSession
<1>4. s.relay.admitted \in Nat /\ s.relay.buffer \in Seq({"b"})
  BY DEF Followed, RelaySound, Relays
<1>12. size \in Nat /\ s.order.bytes + size \in Nat
  BY <1>2, <1>4
<1> DEFINE bytes == s.order.bytes + size
<1>13. order = [s.order EXCEPT !.bytes = bytes, !.output = TRUE] /\ bytes \in Nat
  BY <1>3, <1>12
<1> HIDE DEF size, relay, order, bytes
<1>5. /\ order \in Orders /\ order.bytes = bytes
      /\ order.ready = s.order.ready /\ order.attempted /\ order.created
      /\ order.logRequested /\ ~Delivered(order)
      /\ order = [s.order EXCEPT !.bytes = order.bytes, !.output = order.output]
  BY <1>2, <1>13 DEF Orders, Delivered
<1>6. order.bytes = relay.admitted
  BY <1>1, <1>2, <1>5 DEF Kept, size, bytes
<1>7. /\ t.lc = s.lc /\ t.order = order /\ t.relay = relay /\ t.logOpen = s.logOpen
      /\ t.started = s.started /\ t.acquired = s.acquired
      /\ t.acquisition = s.acquisition /\ t.drainStarted = s.drainStarted
  BY DEF Formed, SessionFields
<1> HIDE DEF t
<1>8. Followed(t)
  BY <1>1, <1>2, <1>5, <1>6, <1>7 DEF Followed
<1>9. Carried(s, t)
  BY <1>1, <1>5, <1>7, <1>8 DEF Carried, Onward
<1>10. t = [s EXCEPT !.relay = Relay!Admit(@, size), !.logInFlight = TRUE,
                     !.order = Order!LogDataRelayed(@, s.relay.admitted, size)]
  BY DEF t, relay, order
<1>11. QED  BY <1>9, <1>10 DEF size

\* _log_progress hands out what the client takes.
LEMMA LogProgressCarries ==
  ASSUME NEW s, Formed(s), Followed(s), NEW admits
  PROVE  Carried(s, LogProgress(s, admits))
<1> DEFINE size   == Len(s.relay.buffer)
           pumped ==
             IF size = 0 \/ s.logInFlight THEN s
             ELSE IF admits
             THEN [s EXCEPT !.relay = Relay!Admit(@, size), !.logInFlight = TRUE,
                            !.order = Order!LogDataRelayed(@, s.relay.admitted, size)]
             ELSE [s EXCEPT !.relay = Relay!AdmissionFails(@)]
<1>1. LogProgress(s, admits) =
        IF s.logOpen THEN [pumped EXCEPT !.relay = Relay!DecideIfReady(pumped.relay)] ELSE s
  BY DEF LogProgress
<1>2. CASE ~s.logOpen
  BY <1>1, <1>2, CarriedReflexive
<1>3. CASE s.logOpen
  <2>1. Carried(s, pumped) /\ Formed(pumped)
    <3>1. CASE size = 0 \/ s.logInFlight
      BY <3>1, CarriedReflexive
    <3>2. CASE ~(size = 0 \/ s.logInFlight) /\ admits
      <4>1. s.relay.buffer # << >>
        BY <3>2
      <4>2. /\ DOMAIN s = SessionFields
            /\ DOMAIN s.order = EventFields
            /\ s.failures \in Seq(Tasks)
            /\ LcSound(s.lc)
        BY DEF Formed
      <4> DEFINE order == Order!LogDataRelayed(s.order, s.relay.admitted, size)
                 t == [s EXCEPT !.relay = Relay!Admit(s.relay, size), !.logInFlight = TRUE,
                                !.order = order]
      <4>3. DOMAIN order = EventFields
        BY <4>2, LogDataKeeps
      <4> HIDE DEF order
      <4>4. Formed(t)
        BY <4>2, <4>3 DEF Formed, SessionFields
      <4>5. pumped = t
        BY <3>2 DEF order
      <4>6. Carried(s, pumped)
        BY <1>3, <3>2, <4>1, CarriedData
      <4>7. QED  BY <4>4, <4>5, <4>6
    <3>3. CASE ~(size = 0 \/ s.logInFlight) /\ ~admits
      <4> DEFINE relay == Relay!AdmissionFails(s.relay)
      <4>1. /\ RelaySound(relay) /\ Passed(s.relay, relay) /\ relay.buffer = << >>
            /\ relay.admitted = s.relay.admitted
            /\ relay.final = s.relay.final /\ relay.decision = s.relay.decision
        BY AdmissionLoses DEF Followed
      <4>2. pumped = [s EXCEPT !.relay = relay]
        BY <3>3
      <4> HIDE DEF relay, pumped
      <4>3. Carried(s, pumped)
        BY <1>3, <4>1, <4>2, CarriedRelay DEF Followed
      <4>4. Formed(pumped)
        BY <4>2, RelayTurns DEF Noted
      <4>5. QED  BY <4>3, <4>4
    <3>4. QED  BY <3>1, <3>2, <3>3
  <2>2. Followed(pumped) /\ pumped.logOpen
    BY <1>3, <2>1 DEF Carried
  <2> HIDE DEF pumped
  <2> DEFINE relay == Relay!DecideIfReady(pumped.relay)
  <2>3. /\ RelaySound(relay) /\ Passed(pumped.relay, relay)
        /\ relay.final = pumped.relay.final /\ relay.admitted = pumped.relay.admitted
        /\ relay.buffer # << >> => pumped.relay.buffer # << >>
        /\ relay.decision # "none" => pumped.relay.decision # "none" \/ pumped.relay.final
    BY <2>2, LogDecidesIfReady DEF Followed
  <2> HIDE DEF relay
  <2>4. Carried(pumped, [pumped EXCEPT !.relay = relay])
    BY <2>1, <2>2, <2>3, CarriedRelay DEF Followed
  <2>5. Carried(s, [pumped EXCEPT !.relay = relay])
    BY <2>1, <2>4, CarriedTransitive DEF Followed
  <2>6. QED  BY <1>1, <1>3, <2>5 DEF relay
<1>4. QED  BY <1>2, <1>3

\* _log_disposal, too; a log that is given up is spoilt.
LEMMA LogDisposalCarries ==
  ASSUME NEW s, Formed(s), Followed(s), s.acquisition # "none", NEW confirmed, NEW admits
  PROVE  LET t == LogDisposal(s, confirmed, admits) IN
         /\ Carried(s, t)
         /\ s.logOpen /\ ~confirmed => ~Unspoilt(t.relay)
<1>1. CASE ~s.logOpen \/ s.relay.decision # "none"
  <2>1. LogDisposal(s, confirmed, admits) = s
    BY <1>1 DEF LogDisposal
  <2>2. QED  BY <1>1, <2>1, CarriedReflexive DEF Unspoilt
<1>2. CASE s.logOpen /\ s.relay.decision = "none"
  <2> DEFINE relay == IF confirmed THEN Relay!ConfirmDisposal(s.relay)
                      ELSE Relay!Cut(s.relay)
             u == [s EXCEPT !.relay = relay]
  <2>1. LogDisposal(s, confirmed, admits) = LogProgress(u, admits)
    BY <1>2 DEF LogDisposal
  <2>2. RelaySound(s.relay)
    BY DEF Followed
  <2>3. /\ RelaySound(relay) /\ Passed(s.relay, relay) /\ relay.buffer = s.relay.buffer
        /\ relay.admitted = s.relay.admitted /\ relay.decision = s.relay.decision
        /\ ~confirmed => ~Unspoilt(relay)
    <3>1. CASE confirmed
      BY <2>2, <3>1, DisposalConfirmed
    <3>2. CASE ~confirmed
      BY <2>2, <3>2, LogCut
    <3>3. QED  BY <3>1, <3>2
  <2> HIDE DEF relay
  <2>4. Carried(s, u)
    BY <1>2, <2>3, CarriedRelay
  <2>5. Formed(u) /\ u.relay = relay
    BY DEF Formed, SessionFields
  <2> HIDE DEF u
  <2>6. Carried(u, LogProgress(u, admits))
    BY <2>4, <2>5, LogProgressCarries DEF Carried
  <2>7. Carried(s, LogProgress(u, admits))
    BY <2>4, <2>6, CarriedTransitive DEF Followed
  <2>8. ~confirmed => ~Unspoilt(LogProgress(u, admits).relay)
    BY <2>3, <2>5, <2>6 DEF Carried, Passed
  <2>9. QED  BY <2>1, <2>7, <2>8
<1>3. QED  BY <1>1, <1>2

\* _stop tells the lifecycle, and nobody else.
LEMMA StopCarries ==
  ASSUME NEW s, Formed(s), Followed(s), NEW trigger \in Triggers,
         NEW failure \in Failures \cup {NoFailure}
  PROVE  Carried(s, Stop(s, trigger, failure))
<1> DEFINE t == Stop(s, trigger, failure)
<1>1. \A f \in LogFields : t[f] = s[f]
  BY DEF Stop, Formed, SessionFields, LogFields
<1>2. Later(s.lc, t.lc)
  BY Stops DEF Noted
<1>4. Onward(s.lc, t.lc)
  <2>1. t.lc.phase = "Closed" => s.lc.phase = "Closed"
    BY DEF Stop, Terminate, Formed, LcSound, Lifecycles, SessionFields
  <2>2. QED  BY <1>2, <2>1 DEF Later, Onward, Ended
<1> HIDE DEF t
<1>3. Carried(s, t)
  BY <1>1, <1>4, CarriedAside
<1>5. QED  BY <1>3 DEF t

\* A failure that is heard is carried: the reader's ends its part of the log.
LEMMA FailureCarries ==
  ASSUME NEW s, Formed(s), Followed(s), NEW t \in Tasks, NEW admits
  PROVE  Carried(s, ObservationFailed(s, t, admits))
<1> DEFINE dropped == [s EXCEPT !.failures = Without(@, t)]
           ended   == [dropped EXCEPT !.finished = @ \cup ({t} \cap Streams)]
           failing == [ended EXCEPT !.relay = Relay!ReadFailed(@)]
           read    == IF t = "log" /\ s.logOpen THEN LogProgress(failing, admits) ELSE ended
           u       == ObservationFailed(s, t, admits)
<1>1. u = IF t \notin Range(s.failures) THEN s
          ELSE IF t \in ChildTasks /\ ~s.child THEN dropped
          ELSE Stop(read, FailureTrigger(t), "OBSERVER_FAILURE")
  BY DEF ObservationFailed
<1>2. Formed(dropped) /\ Carried(s, dropped)
  <2>1. Formed(dropped)
    BY FailureDrops DEF Noted
  <2>2. dropped.lc = s.lc /\ \A f \in LogFields : dropped[f] = s[f]
    BY DEF Formed, SessionFields, LogFields
  <2> HIDE DEF dropped
  <2>3. Onward(s.lc, dropped.lc)
    BY <2>2 DEF Onward
  <2>4. QED  BY <2>1, <2>2, <2>3, CarriedAside
<1> HIDE DEF dropped, u
<1>3. Formed(ended) /\ Carried(dropped, ended)
  <2> DEFINE finished == dropped.finished \cup ({t} \cap Streams)
  <2>1. finished \in SUBSET Streams /\ ended = [dropped EXCEPT !.finished = finished]
    BY <1>2 DEF Formed
  <2>2. ended.lc = dropped.lc /\ \A f \in LogFields : ended[f] = dropped[f]
    BY <1>2 DEF Formed, SessionFields, LogFields
  <2> HIDE DEF ended, finished
  <2>3. Formed(ended)
    BY <1>2, <2>1, Finishes
  <2>4. Onward(dropped.lc, ended.lc)
    BY <2>2 DEF Onward
  <2>5. Followed(dropped)
    BY <1>2 DEF Carried
  <2>6. Carried(dropped, ended)
    BY <2>2, <2>4, <2>5, CarriedAside
  <2>7. QED  BY <2>3, <2>6
<1> HIDE DEF ended
<1>4. Carried(s, ended) /\ Followed(ended) /\ ended.logOpen = s.logOpen
  <2>1. Carried(s, ended)
    BY <1>2, <1>3, CarriedTransitive DEF Followed
  <2>2. QED  BY <2>1 DEF Carried
<1>5. Carried(s, read) /\ Formed(read)
  <2>1. CASE ~(t = "log" /\ s.logOpen)
    BY <1>3, <1>4, <2>1
  <2>2. CASE t = "log" /\ s.logOpen
    <3> DEFINE relay == Relay!ReadFailed(ended.relay)
    <3>1. failing = [ended EXCEPT !.relay = relay]
      OBVIOUS
    <3>2. /\ RelaySound(relay) /\ Passed(ended.relay, relay)
          /\ relay.buffer = ended.relay.buffer /\ relay.admitted = ended.relay.admitted
          /\ relay.final = ended.relay.final /\ relay.decision = ended.relay.decision
      BY <1>4, ReaderFails DEF Followed
    <3> HIDE DEF relay, failing
    <3>3. Carried(ended, failing)
      BY <1>3, <1>4, <2>2, <3>1, <3>2, CarriedRelay DEF Followed
    <3>4. Formed(failing)
      BY <1>3, <3>1, RelayTurns DEF Noted
    <3>5. Carried(failing, LogProgress(failing, admits))
      BY <3>3, <3>4, LogProgressCarries DEF Carried
    <3>6. Formed(LogProgress(failing, admits))
      BY <3>4, LogProgresses DEF Noted
    <3>7. Carried(ended, LogProgress(failing, admits))
      BY <1>4, <3>3, <3>5, CarriedTransitive DEF Followed
    <3>8. Carried(s, LogProgress(failing, admits))
      BY <1>4, <3>7, CarriedTransitive DEF Followed
    <3>9. QED  BY <2>2, <3>6, <3>8
  <2>3. QED  BY <2>1, <2>2
<1> HIDE DEF read
<1>6. Carried(s, Stop(read, FailureTrigger(t), "OBSERVER_FAILURE"))
  <2>1. FailureTrigger(t) \in Triggers
    BY DEF FailureTrigger, Triggers
  <2>2. "OBSERVER_FAILURE" \in Failures
    BY SessionConstants DEF SessionFailures
  <2>3. Carried(read, Stop(read, FailureTrigger(t), "OBSERVER_FAILURE"))
    BY <1>5, <2>1, <2>2, StopCarries DEF Carried
  <2>4. QED  BY <1>5, <2>3, CarriedTransitive DEF Followed
<1>7. Carried(s, s)
  BY CarriedReflexive
<1>8. QED  BY <1>1, <1>2, <1>6, <1>7 DEF u

\* The fold over the failed observers is carried.
LEMMA HearCarries ==
  ASSUME NEW s, Formed(s), Followed(s), NEW tasks, NEW admits
  PROVE  Carried(s, Hear(s, tasks, admits))
<1> DEFINE heard[n \in 0 .. Len(s.failures)] ==
             IF n = 0 THEN s
             ELSE IF s.failures[n] \in tasks
             THEN ObservationFailed(heard[n - 1], s.failures[n], admits)
             ELSE heard[n - 1]
           T == {k \in Nat : k <= Len(s.failures) =>
                               Carried(s, heard[k]) /\ Formed(heard[k])}
<1>0. s.failures \in Seq(Tasks) /\ Len(s.failures) \in Nat
  BY DEF Formed
<1>1. heard = CHOOSE g : Hearing(g, s, tasks, admits, Len(s.failures))
  BY DEF Hearing
<1>2. Hear(s, tasks, admits) = heard[Len(s.failures)]
  BY DEF Hear
<1> HIDE DEF heard
<1>3. Hearing(heard, s, tasks, admits, Len(s.failures))
  <2>1. \E g : Hearing(g, s, tasks, admits, Len(s.failures))
    BY <1>0, HearingExists
  <2>2. QED  BY <1>1, <2>1
<1>4. \A n \in 0 .. Len(s.failures) :
        heard[n] = IF n = 0 THEN s
                   ELSE IF s.failures[n] \in tasks
                   THEN ObservationFailed(heard[n - 1], s.failures[n], admits)
                   ELSE heard[n - 1]
  BY <1>3 DEF Hearing
<1>5. 0 \in T
  <2>1. heard[0] = s
    BY <1>0, <1>4
  <2>2. QED  BY <2>1, CarriedReflexive
<1>6. ASSUME NEW k \in Nat, k \in T PROVE k + 1 \in T
  <2> SUFFICES ASSUME k + 1 <= Len(s.failures)
               PROVE  Carried(s, heard[k + 1]) /\ Formed(heard[k + 1])
    OBVIOUS
  <2>1. Carried(s, heard[k]) /\ Formed(heard[k]) /\ s.failures[k + 1] \in Tasks
    BY <1>0, <1>6
  <2>2. heard[k + 1] = IF s.failures[k + 1] \in tasks
                       THEN ObservationFailed(heard[k], s.failures[k + 1], admits)
                       ELSE heard[k]
    BY <1>0, <1>4
  <2>6. Followed(heard[k])
    BY <2>1 DEF Carried
  <2>7. Carried(heard[k], ObservationFailed(heard[k], s.failures[k + 1], admits))
    BY <2>1, <2>6, FailureCarries
  <2>8. Noted(heard[k], ObservationFailed(heard[k], s.failures[k + 1], admits))
    BY <2>1, FailureHeard
  <2>3. /\ Carried(heard[k], ObservationFailed(heard[k], s.failures[k + 1], admits))
        /\ Formed(ObservationFailed(heard[k], s.failures[k + 1], admits))
    BY <2>7, <2>8 DEF Noted
  <2>4. Carried(s, ObservationFailed(heard[k], s.failures[k + 1], admits))
    BY <2>1, <2>3, CarriedTransitive DEF Followed
  <2>5. QED  BY <2>1, <2>2, <2>3, <2>4
<1>7. Nat \subseteq T
  BY <1>5, <1>6, Induction
<1>8. QED  BY <1>0, <1>2, <1>7

\* account_recorded_failures is carried.
LEMMA AccountCarries ==
  ASSUME NEW s, Formed(s), Accounted(s), Followed(s), NEW admits
  PROVE  Carried(s, Account(s, admits))
<1> DEFINE a == AccountSignal(s)
           b == AccountLease(a)
<1>1. Formed(a) /\ Accounted(a)
  BY SignalAccounted, NotedAccounted DEF Noted
<1>2. Carried(s, a)
  <2>1. CASE s.sigPending /\ ~s.sigAccounted
    <3> DEFINE u == [s EXCEPT !.sigAccounted = TRUE]
    <3>1. a = Stop(u, "signal", "REMOTE_SIGNAL")
      BY <2>1 DEF AccountSignal
    <3>2. Formed(u) /\ u.lc = s.lc /\ \A f \in LogFields : u[f] = s[f]
      BY DEF Formed, SessionFields, LogFields
    <3>3. "signal" \in Triggers /\ "REMOTE_SIGNAL" \in Failures
      BY SessionConstants DEF SessionFailures, Triggers
    <3> HIDE DEF u, a
    <3>4. Carried(s, u)
      BY <3>2, CarriedAside DEF Onward
    <3>7. Followed(u)
      BY <3>4 DEF Carried
    <3>5. Carried(u, a)
      BY <3>1, <3>2, <3>3, <3>7, StopCarries
    <3>6. QED  BY <3>4, <3>5, CarriedTransitive DEF Followed
  <2>2. CASE ~(s.sigPending /\ ~s.sigAccounted)
    BY <2>2, CarriedReflexive DEF AccountSignal
  <2>3. QED  BY <2>1, <2>2
<1>3. Followed(a)
  BY <1>2 DEF Carried
<1> HIDE DEF a
<1>4. Formed(b)
  BY <1>1, LeaseAccounted DEF Noted
<1>5. Carried(a, b)
  <2>1. CASE a.leaseLost /\ ~a.leaseAccounted
    <3> DEFINE u == [a EXCEPT !.leaseAccounted = TRUE]
    <3>1. b = Stop(u, "controller_eof", "CONTROLLER_LEASE_LOST")
      BY <2>1 DEF AccountLease
    <3>2. Formed(u) /\ u.lc = a.lc /\ \A f \in LogFields : u[f] = a[f]
      BY <1>1 DEF Formed, SessionFields, LogFields
    <3>3. "controller_eof" \in Triggers /\ "CONTROLLER_LEASE_LOST" \in Failures
      BY SessionConstants DEF SessionFailures, Triggers
    <3> HIDE DEF u, b
    <3>4. Carried(a, u)
      BY <1>3, <3>2, CarriedAside DEF Onward
    <3>7. Followed(u)
      BY <3>4 DEF Carried
    <3>5. Carried(u, b)
      BY <3>1, <3>2, <3>3, <3>7, StopCarries
    <3>6. QED  BY <1>3, <3>4, <3>5, CarriedTransitive DEF Followed
  <2>2. CASE ~(a.leaseLost /\ ~a.leaseAccounted)
    BY <1>3, <2>2, CarriedReflexive DEF AccountLease
  <2>3. QED  BY <2>1, <2>2
<1>6. Followed(b)
  BY <1>5 DEF Carried
<1> HIDE DEF b
<1>7. Carried(b, Hear(b, Tasks, admits))
  BY <1>4, <1>6, HearCarries
<1>8. Carried(s, b)
  BY <1>2, <1>5, CarriedTransitive DEF Followed
<1>9. Carried(s, Hear(b, Tasks, admits))
  BY <1>7, <1>8, CarriedTransitive DEF Followed
<1>10. QED  BY <1>9 DEF Account, a, b

\* The lifecycle goes on when it hears of the child's exit.
LEMMA ExitOnward ==
  ASSUME NEW l \in Lifecycles, NEW requested, NEW rc
  PROVE  LET told == IF requested THEN RecordChildTermination(l) ELSE l
             seen == ObserveChildExit(told, rc)
         IN  Onward(l, seen) /\ DOMAIN seen = DOMAIN l
<1> DEFINE lc   == IF requested THEN RecordChildTermination(l) ELSE l
           seen == ObserveChildExit(lc, rc)
<1>2. Onward(l, lc) /\ lc \in Lifecycles
  <2>1. l.attempt \in Attempts
    BY DEF Lifecycles
  <2>2. [l.attempt EXCEPT !.requested = TRUE] \in Attempts
    BY <2>1 DEF Attempts
  <2>3. [l EXCEPT !.attempt.requested = TRUE]
          = [l EXCEPT !.attempt = [l.attempt EXCEPT !.requested = TRUE]]
    BY DEF Lifecycles
  <2> DEFINE m == [l EXCEPT !.attempt = [l.attempt EXCEPT !.requested = TRUE]]
  <2>4. m \in Lifecycles /\ Onward(l, m)
    BY <2>2 DEF Lifecycles, Onward, Ended
  <2>5. lc = l \/ lc = m
    BY <2>3 DEF RecordChildTermination
  <2> HIDE DEF lc, m
  <2>6. QED  BY <2>4, <2>5 DEF Onward
<1> HIDE DEF lc
<1>3. Onward(lc, seen) /\ DOMAIN seen = DOMAIN lc
  <2> DEFINE result == ChildResult(rc, lc.attempt.requested)
             m == [lc EXCEPT !.attempt.result = result]
  <2>1. /\ m.phase = lc.phase /\ m.policy = lc.policy /\ m.log = lc.log
        /\ m.cleanup = lc.cleanup /\ DOMAIN m = DOMAIN lc
    BY <1>2 DEF Lifecycles
  <2>2. seen \in
          {lc, m, [m EXCEPT !.outcome.result = result], Terminate(m, "child_exit", NoFailure)}
    BY DEF ObserveChildExit
  <2> HIDE DEF m, seen
  <2>3. Onward(lc, m) /\ Onward(lc, lc)
    BY <2>1 DEF Onward, Ended
  <2>4. Onward(lc, [m EXCEPT !.outcome.result = result])
    BY <1>2, <2>1 DEF Onward, Ended, Lifecycles
  <2>5. /\ Onward(lc, Terminate(m, "child_exit", NoFailure))
        /\ DOMAIN Terminate(m, "child_exit", NoFailure) = DOMAIN lc
    BY <1>2, <2>1 DEF Onward, Ended, Lifecycles, Terminate
  <2>6. QED  BY <2>1, <2>2, <2>3, <2>4, <2>5
<1> HIDE DEF seen
<1>4. Onward(l, seen)
  BY <1>2, <1>3 DEF Onward
<1>5. DOMAIN lc = DOMAIN l
  BY <1>2 DEF Lifecycles
<1>6. QED  BY <1>3, <1>4, <1>5 DEF lc, seen

\* Only the lifecycle hears of the child's exit.
LEMMA ExitCarries ==
  ASSUME NEW s, Formed(s), Followed(s), NEW p
  PROVE  Carried(s, RecordExit(s, p))
<1> DEFINE lc   == IF p.requested THEN RecordChildTermination(s.lc) ELSE s.lc
           told == IF p.requested THEN [s EXCEPT !.lc = RecordChildTermination(@)] ELSE s
           seen == [told EXCEPT !.lc = ObserveChildExit(@, p.rc)]
           u    == Stop(seen, "startup_failure", "STARTUP_EXIT")
<1>1. s.lc \in Lifecycles /\ DOMAIN s = SessionFields
  BY DEF Formed, LcSound
<1> DEFINE l == s.lc
<1>2. Onward(l, ObserveChildExit(lc, p.rc)) /\ DOMAIN ObserveChildExit(lc, p.rc) = DOMAIN l
  <2>1. l \in Lifecycles
    BY <1>1
  <2> HIDE DEF l
  <2>2. QED  BY <2>1, ExitOnward DEF l
<1>4. /\ seen.lc = ObserveChildExit(lc, p.rc) /\ DOMAIN seen = SessionFields
      /\ \A f \in SessionFields \ {"lc"} : seen[f] = s[f]
  BY <1>1 DEF SessionFields
<1> HIDE DEF lc
<1>5. Onward(s.lc, seen.lc) /\ DOMAIN seen.lc = DOMAIN s.lc
  BY <1>2, <1>4
<1>6. Carried(s, seen)
  BY <1>4, <1>5, CarriedAside DEF LogFields, SessionFields
<1>7. RecordExit(s, p) \in {seen, u}
  BY DEF RecordExit
<1>8. CASE RecordExit(s, p) = seen
  BY <1>6, <1>8
<1>9. CASE RecordExit(s, p) = u
  <2>1. \A f \in LogFields : u[f] = s[f]
    BY <1>4 DEF Stop, LogFields, SessionFields
  <2>2. u.lc = Terminate(seen.lc, "startup_failure", "STARTUP_EXIT")
    BY <1>4 DEF Stop, SessionFields
  <2>3. Onward(seen.lc, u.lc)
    <3> DEFINE k == seen.lc
               m == u.lc
    <3>1. DOMAIN k = DOMAIN s.lc /\ s.lc \in Lifecycles
      BY <1>1, <1>5
    <3>2. m = Terminate(k, "startup_failure", "STARTUP_EXIT")
      BY <2>2
    <3> HIDE DEF k, m, seen, u
    <3>3. /\ m.log = k.log /\ m.cleanup = k.cleanup
          /\ m.phase = "Terminating" \/ (m.phase = k.phase /\ Ended(k))
          /\ k.phase = "Closed" => m.phase = "Closed"
      BY <3>1, <3>2 DEF Terminate, Lifecycles, Ended
    <3>4. Onward(k, m)
      BY <3>3 DEF Onward, Ended
    <3>5. QED  BY <3>4 DEF k, m
  <2>4. Onward(s.lc, u.lc)
    BY <1>5, <2>3 DEF Onward
  <2>5. QED  BY <1>9, <2>1, <2>4, CarriedAside
<1>10. QED  BY <1>7, <1>8, <1>9

----------------------------------------------------------------------------
\* The log items of the queue

\* They are finitely many.
LEMMA LogItemsCounted ==
  ASSUME NEW q \in Seq(Observations)
  PROVE  /\ IsFiniteSet(LogItems(q)) /\ Cardinality(LogItems(q)) \in Nat
         /\ LogItems(q) \subseteq 1 .. Len(q)
<1>1. LogItems(q) \subseteq 1 .. Len(q) /\ Len(q) \in Nat
  BY DEF LogItems
<1>2. IsFiniteSet(1 .. Len(q))
  BY <1>1, FS_Interval
<1>3. IsFiniteSet(LogItems(q))
  BY <1>1, <1>2, FS_Subset
<1>4. QED  BY <1>1, <1>3, FS_CardinalityType

\* No item, no count.
LEMMA NoLogItems ==
  ASSUME NEW q, \A i \in 1 .. Len(q) : q[i].kind # "LOG"
  PROVE  Cardinality(LogItems(q)) = 0
<1>1. LogItems(q) = {}
  BY DEF LogItems
<1>2. QED  BY <1>1, FS_EmptySet

\* Append adds one if it adds a LOG.
LEMMA LogItemAppended ==
  ASSUME NEW q \in Seq(Observations), NEW o \in Observations
  PROVE  Cardinality(LogItems(Append(q, o))) =
           Cardinality(LogItems(q)) + (IF o.kind = "LOG" THEN 1 ELSE 0)
<1>1. /\ Len(q) \in Nat /\ Len(Append(q, o)) = Len(q) + 1
      /\ Append(q, o)[Len(q) + 1] = o
      /\ \A i \in 1 .. Len(q) : Append(q, o)[i] = q[i]
  OBVIOUS
<1>2. LogItems(Append(q, o)) =
        LogItems(q) \cup (IF o.kind = "LOG" THEN {Len(q) + 1} ELSE {})
  <2>1. \A i : i \in 1 .. (Len(q) + 1) <=> i \in 1 .. Len(q) \/ i = Len(q) + 1
    BY <1>1
  <2>2. QED  BY <1>1, <2>1 DEF LogItems
<1>3. IsFiniteSet(LogItems(q)) /\ Len(q) + 1 \notin LogItems(q)
      /\ Cardinality(LogItems(q)) \in Nat
  BY <1>1, LogItemsCounted
<1>4. CASE o.kind = "LOG"
  <2>1. LogItems(Append(q, o)) = LogItems(q) \cup {Len(q) + 1}
    BY <1>2, <1>4
  <2>2. QED  BY <1>3, <1>4, <2>1, FS_AddElement
<1>5. CASE o.kind # "LOG"
  <2>1. LogItems(Append(q, o)) = LogItems(q)
    BY <1>2, <1>5
  <2>2. QED  BY <1>3, <1>5, <2>1
<1>6. QED  BY <1>4, <1>5

\* Tail takes one away if a LOG was at the head.
LEMMA LogItemTaken ==
  ASSUME NEW q \in Seq(Observations), q # << >>
  PROVE  Cardinality(LogItems(q)) =
           Cardinality(LogItems(Tail(q))) + (IF Head(q).kind = "LOG" THEN 1 ELSE 0)
<1>1. /\ Len(q) \in Nat /\ Len(q) # 0 /\ Head(q) = q[1]
      /\ Tail(q) \in Seq(Observations) /\ Len(Tail(q)) = Len(q) - 1
      /\ \A i \in 1 .. Len(Tail(q)) : Tail(q)[i] = q[i + 1]
  OBVIOUS
<1> DEFINE rest == LogItems(q) \ {1}
           f == [i \in LogItems(Tail(q)) |-> i + 1]
<1>2. LogItems(Tail(q)) \subseteq 1 .. (Len(q) - 1) /\ IsFiniteSet(LogItems(Tail(q)))
      /\ Cardinality(LogItems(Tail(q))) \in Nat
  BY <1>1, LogItemsCounted
<1>3. \A i \in LogItems(Tail(q)) : i \in Nat /\ i # 0 /\ i + 1 \in rest
  BY <1>1, <1>2 DEF LogItems
<1>4. \A j \in rest : j - 1 \in LogItems(Tail(q)) /\ j = f[j - 1]
  <2> SUFFICES ASSUME NEW j \in rest PROVE j - 1 \in LogItems(Tail(q)) /\ j = f[j - 1]
    OBVIOUS
  <2>1. j \in 1 .. Len(q) /\ j # 1 /\ q[j].kind = "LOG"
    BY DEF LogItems
  <2>2. j - 1 \in 1 .. Len(Tail(q)) /\ Tail(q)[j - 1] = q[j]
    BY <1>1, <2>1
  <2>3. j - 1 \in LogItems(Tail(q))
    BY <2>1, <2>2 DEF LogItems
  <2>4. QED  BY <2>1, <2>3
<1>5. f \in Bijection(LogItems(Tail(q)), rest)
  <2>1. f \in [LogItems(Tail(q)) -> rest]
    BY <1>3
  <2>2. \A i, j \in LogItems(Tail(q)) : f[i] = f[j] => i = j
    BY <1>3
  <2>3. \A j \in rest : \E i \in LogItems(Tail(q)) : f[i] = j
    BY <1>4
  <2> HIDE DEF f, rest
  <2>4. QED  BY <2>1, <2>2, <2>3, Zenon DEF Bijection, Injection, Surjection, IsInjective
<1>6. ExistsBijection(LogItems(Tail(q)), rest)
  BY <1>5 DEF ExistsBijection
<1> HIDE DEF f
<1>7. IsFiniteSet(rest) /\ Cardinality(rest) = Cardinality(LogItems(Tail(q)))
  BY <1>2, <1>6, FS_Bijection
<1>8. CASE Head(q).kind = "LOG"
  <2>1. 1 \in LogItems(q)
    BY <1>1, <1>8 DEF LogItems
  <2>2. LogItems(q) = rest \cup {1} /\ 1 \notin rest
    BY <2>1
  <2> HIDE DEF rest
  <2>3. QED  BY <1>7, <1>8, <2>2, FS_AddElement
<1>9. CASE Head(q).kind # "LOG"
  <2>1. 1 \notin LogItems(q)
    BY <1>1, <1>9 DEF LogItems
  <2>2. LogItems(q) = rest
    BY <2>1
  <2> HIDE DEF rest
  <2>3. QED  BY <1>2, <1>7, <1>9, <2>2
<1>10. QED  BY <1>8, <1>9

----------------------------------------------------------------------------
\* What is on its way, after a step

\* Bookkeeping keeps what was asked for.
LEMMA SensibleOn ==
  ASSUME NEW s, NEW t, NEW ctl, NEW w, Followed(s), Sensible(s, ctl, w), Carried(s, t)
  PROVE  Sensible(t, ctl, w)
<1>1. /\ t.order.created = s.order.created /\ t.order.policy = s.order.policy
      /\ t.order.logRequested = s.order.logRequested
      /\ t.order.attempted = s.order.attempted /\ t.order.ready = s.order.ready
      /\ t.started = s.started /\ t.logOpen = s.logOpen /\ Onward(s.lc, t.lc)
  BY DEF Carried, Followed, Orders
<1>2. QED  BY <1>1 DEF Sensible, Asked, Onward

\* It also keeps what is known where the coordinator is.
LEMMA TimelyOn ==
  ASSUME NEW s, NEW t, NEW c, Followed(s), Timely(s, c), Carried(s, t)
  PROVE  Timely(t, c)
<1>1. /\ t.order.created = s.order.created /\ t.order.attempted = s.order.attempted
      /\ t.order.ended = s.order.ended /\ t.order.fault = s.order.fault
      /\ t.logOpen = s.logOpen /\ Onward(s.lc, t.lc) /\ Passed(s.relay, t.relay)
  BY DEF Carried, Followed, Orders
<1>2. QED  BY <1>1 DEF Timely, Onward, Passed, Delivered

\* A coordinator at work that goes on with nothing in hand.
Idle == {"loop", "yielded", "waiting", "take", "ready", "ready deadline", "settling"}

\* What was timely stays so after bookkeeping, wherever it goes on from there.
LEMMA TimelyIdle ==
  ASSUME NEW s, NEW t, NEW c, Timely(s, c), c \notin {"draining", "exiting", "exited"},
         Followed(s), Carried(s, t), NEW n \in Idle
  PROVE  Timely(t, n)
<1>1. ~Delivered(t.order)
  BY DEF Carried, Followed, Orders, Timely, Delivered
<1>2. QED  BY <1>1 DEF Timely, Idle, Ending, Late

\* What bookkeeping leaves firm.
LEMMA FirmerOn ==
  ASSUME NEW s, NEW t, NEW p, NEW r, NEW w, Followed(s), Carried(s, t), Calmer(s, p, r)
  PROVE  Firmer(s, p, t, r, w)
<1>1. /\ t.order.created = s.order.created /\ t.order.policy = s.order.policy
      /\ t.order.logRequested = s.order.logRequested
      /\ t.started = s.started /\ t.logOpen = s.logOpen /\ Onward(s.lc, t.lc)
      /\ t.acquired = s.acquired /\ t.acquisition = s.acquisition
  BY DEF Carried, Followed, Orders
<1>2. QED  BY <1>1 DEF Firmer, Asked, Onward, Calmer, AtEnd

\* What was on its way, or all but the first of it, or nothing.
Fewer(q, n) == n = q \/ (q # << >> /\ n = Tail(q)) \/ n = << >>

\* Tasks stop, start, or do as they did.
Softer(t, tk, n) ==
  /\ \A x \in Tasks : n[x] \in {tk[x], "on", "done"}
  /\ n["log"] \in {tk["log"], "done"}
  /\ n["log deadline"] \in {tk["log deadline"], "done"} \/ (t.logOpen /\ Ended(t.lc))

\* Each of what is left was there before, in the same order.
LEMMA FewerThan ==
  ASSUME NEW q \in Seq(Observations), NEW n, Fewer(q, n)
  PROVE  /\ n \in Seq(Observations)
         /\ \E d \in {0, 1} : /\ \A i \in 1 .. Len(n) : i + d \in 1 .. Len(q) /\ n[i] = q[i + d]
                              /\ d = 1 => q # << >> /\ n = Tail(q)
<1>1. CASE n = q
  <2>1. \A i \in 1 .. Len(n) : i + 0 \in 1 .. Len(q) /\ n[i] = q[i + 0]
    BY <1>1
  <2>2. QED  BY <1>1, <2>1
<1>2. CASE q # << >> /\ n = Tail(q)
  <2>1. /\ n \in Seq(Observations) /\ Len(n) = Len(q) - 1 /\ Len(q) \in Nat
        /\ \A i \in 1 .. Len(n) : n[i] = q[i + 1]
    BY <1>2
  <2>2. \A i \in 1 .. Len(n) : i + 1 \in 1 .. Len(q) /\ n[i] = q[i + 1]
    BY <2>1
  <2>3. QED  BY <1>2, <2>1, <2>2
<1>3. CASE n = << >>
  <2>1. n \in Seq(Observations) /\ Len(n) = 0
    BY <1>3
  <2>2. \A i \in 1 .. Len(n) : i + 0 \in 1 .. Len(q) /\ n[i] = q[i + 0]
    BY <2>1
  <2>3. QED  BY <2>1, <2>2
<1>4. QED  BY <1>1, <1>2, <1>3 DEF Fewer

\* What is on its way still means what it meant.
LEMMA ReportedOn ==
  ASSUME NEW s, NEW p, NEW tk, NEW q \in Seq(Observations), NEW w, Reported(s, p, tk, q, w),
         NEW t, NEW r, Firmer(s, p, t, r, w), t.relay.eof = s.relay.eof,
         NEW n, Fewer(q, n), NEW u, Softer(t, tk, u)
  PROVE  Reported(t, r, u, n, w)
<1>1. \A kind : Means(kind, s, p, w) => Means(kind, t, r, w)
  BY DEF Means, Firmer
<1>2. Means("on", t, r, w) /\ Means("done", t, r, w)
  BY DEF Means
<1>3. PICK d \in {0, 1} : \A i \in 1 .. Len(n) : i + d \in 1 .. Len(q) /\ n[i] = q[i + d]
  BY FewerThan
<1>4. Len(n) \in Nat /\ d \in Int
  BY FewerThan
<1>5. \A i \in 1 .. Len(n) : Means(n[i].kind, t, r, w)
  BY <1>1, <1>3 DEF Reported
<1>6. \A x \in Tasks : Means(u[x], t, r, w) /\ (u[x] \in {"LOG", "LOGEOF"} => x = "log")
  <2> SUFFICES ASSUME NEW x \in Tasks
               PROVE  Means(u[x], t, r, w) /\ (u[x] \in {"LOG", "LOGEOF"} => x = "log")
    OBVIOUS
  <2>1. Means(tk[x], s, p, w) /\ (tk[x] \in {"LOG", "LOGEOF"} => x = "log")
    BY DEF Reported
  <2>2. u[x] = tk[x] \/ u[x] = "on" \/ u[x] = "done"
    BY DEF Softer
  <2>3. QED  BY <1>1, <1>2, <2>1, <2>2
<1>7. /\ u["log"] \in Reading \cup {"off", "done", "FAIL", "LOGSTOPPED"}
      /\ u["log"] \in Reading => tk["log"] \in Reading /\ t.logOpen
  BY DEF Reported, Softer, Firmer, Reading
<1>8. u["log deadline"] \notin {"off", "done"} => t.logOpen /\ Ended(t.lc)
  BY DEF Reported, Softer, Firmer
<1>9. \A i, j \in 1 .. Len(n) :
        n[i].kind = "LOGEOF" /\ n[j].kind \in {"LOG", "LOGEOF"} => j <= i
  <2> SUFFICES ASSUME NEW i \in 1 .. Len(n), NEW j \in 1 .. Len(n),
                      n[i].kind = "LOGEOF", n[j].kind \in {"LOG", "LOGEOF"}
               PROVE  j <= i
    OBVIOUS
  <2>1. /\ i + d \in 1 .. Len(q) /\ n[i] = q[i + d]
        /\ j + d \in 1 .. Len(q) /\ n[j] = q[j + d]
    BY <1>3
  <2>2. j + d <= i + d
    BY <2>1 DEF Reported
  <2>3. QED  BY <1>4, <2>2
<1>10. \A i \in 1 .. Len(n) : n[i].kind = "LOGEOF" => u["log"] \notin Reading /\ ~t.relay.eof
  BY <1>3, <1>7 DEF Reported
<1>11. t.relay.eof =>
         /\ u["log"] \notin Reading
         /\ \A i \in 1 .. Len(n) : n[i].kind # "LOG"
  BY <1>3, <1>7 DEF Reported
<1>12. QED  BY <1>5, <1>6, <1>7, <1>8, <1>9, <1>10, <1>11 DEF Reported

\* Where no log was opened, none of it is on its way.
LEMMA NothingPending ==
  ASSUME NEW s, NEW p, NEW tk, NEW q \in Seq(Observations), NEW w, Reported(s, p, tk, q, w),
         ~s.logOpen \/ s.relay.eof
  PROVE  Pending(q, tk) = 0
<1>1. "log" \in Tasks
  BY DEF Tasks, SessionTasks
<1>2. tk["log"] # "LOG" /\ \A i \in 1 .. Len(q) : q[i].kind # "LOG"
  BY <1>1 DEF Reported, Means, Reading
<1>3. QED  BY <1>2, NoLogItems DEF Pending

\* Nothing of the log is lost on the way.
LEMMA PendingOn ==
  ASSUME NEW q \in Seq(Observations), NEW tk, NEW n, n = q \/ (q # << >> /\ n = Tail(q)),
         n # q => Head(q).kind # "LOG", NEW u, u["log"] = tk["log"]
  PROVE  Pending(n, u) = Pending(q, tk)
<1>1. CASE n = q
  BY <1>1 DEF Pending
<1>2. CASE n # q
  <2>1. Cardinality(LogItems(q)) = Cardinality(LogItems(n)) + 0
    BY <1>2, LogItemTaken
  <2>2. Cardinality(LogItems(n)) \in Nat
    BY <1>2, LogItemsCounted
  <2>3. QED  BY <2>1, <2>2 DEF Pending
<1>3. QED  BY <1>1, <1>2

\* The relay's count of the log goes on.
LEMMA CountedOn ==
  ASSUME NEW s, NEW p, NEW tk, NEW q \in Seq(Observations), NEW w,
         Followed(s), Reported(s, p, tk, q, w), Counted(s, p, tk, q),
         NEW t, NEW r, Calmer(s, p, r), t.acquisition = s.acquisition,
         t.logOpen = s.logOpen, Passed(s.relay, t.relay),
         NEW n, Fewer(q, n), NEW u, Softer(t, tk, u),
         \/ ~Unspoilt(t.relay) \/ ~s.logOpen
         \/ /\ u["log"] = tk["log"]
            /\ n = q \/ (q # << >> /\ n = Tail(q) /\ Head(q).kind # "LOG")
  PROVE  Counted(t, r, u, n)
<1>1. s.acquisition \in {"none", "no process"} => Blank(r)
  BY DEF Counted, Calmer, Blank
<1>2. r.taken <= r.written /\ (~t.logOpen => r.taken = 0)
  BY DEF Counted, Calmer
<1>3. AtEnd(p) /\ s.acquisition # "none" => AtEnd(r)
  BY DEF Calmer, AtEnd
<1>4. t.relay.eof => t.acquisition # "none" /\ AtEnd(r)
  BY <1>3 DEF Counted, Passed
<1>5. Unspoilt(t.relay) => Kept(t.relay) + Pending(n, u) = r.taken
  <2> SUFFICES ASSUME Unspoilt(t.relay) PROVE Kept(t.relay) + Pending(n, u) = r.taken
    OBVIOUS
  <2>1. Kept(t.relay) = Kept(s.relay) /\ Kept(s.relay) + Pending(q, tk) = p.taken
        /\ r.taken = p.taken
    BY DEF Passed, Counted, Calmer
  <2>2. CASE s.logOpen
    <3>1. Pending(n, u) = Pending(q, tk)
      BY <2>2, PendingOn
    <3>2. QED  BY <2>1, <3>1
  <2>3. CASE ~s.logOpen
    <3>1. Pending(q, tk) = 0
      BY <2>3, NothingPending
    <3>2. /\ \A i \in 1 .. Len(q) : q[i].kind # "LOG"
          /\ u["log"] # "LOG"
      BY <2>3 DEF Reported, Means, Reading, Softer
    <3>3. PICK d \in {0, 1} : \A i \in 1 .. Len(n) : i + d \in 1 .. Len(q) /\ n[i] = q[i + d]
      BY FewerThan
    <3>4. Pending(n, u) = 0
      BY <3>2, <3>3, NoLogItems DEF Pending
    <3>5. QED  BY <2>1, <3>1, <3>4
  <2>4. QED  BY <2>2, <2>3
<1>6. t.relay.decision = "complete" => Whole(t, r)
  <2> SUFFICES ASSUME t.relay.decision = "complete" PROVE Whole(t, r)
    OBVIOUS
  <2>1. CASE s.relay.decision = "complete" /\ t.relay.admitted = s.relay.admitted
    <3>1. Whole(s, p)
      BY <2>1 DEF Counted
    <3>2. AtEnd(r)
      <4>1. AtEnd(p)
        BY <3>1 DEF Whole
      <4>2. CASE s.acquisition # "none"
        BY <1>3, <4>1, <4>2
      <4>3. CASE s.acquisition = "none"
        BY <1>1, <4>3 DEF Blank, AtEnd
      <4>4. QED  BY <4>2, <4>3
    <3>3. QED  BY <2>1, <3>1, <3>2 DEF Whole, Calmer
  <2>2. CASE Unspoilt(s.relay) /\ s.relay.eof /\ t.relay.admitted = Kept(s.relay)
    <3>1. Pending(q, tk) = 0
      BY <2>2, NothingPending
    <3>2. AtEnd(p) /\ s.acquisition # "none" /\ Kept(s.relay) + 0 = p.taken
      BY <2>2, <3>1 DEF Counted
    <3>3. AtEnd(r)
      BY <1>3, <3>2
    <3>4. r.taken = p.taken /\ r.taken = r.written
      BY <3>3 DEF Calmer, AtEnd
    <3>6. Kept(s.relay) = Kept(s.relay) + 0
      <4>1. s.relay.admitted \in Nat /\ s.relay.buffer \in Seq({"b"})
        BY DEF Followed, RelaySound, Relays
      <4>2. Len(s.relay.buffer) \in Nat
        BY <4>1
      <4>3. QED  BY <4>1, <4>2 DEF Kept
    <3>5. QED  BY <2>2, <3>2, <3>3, <3>4, <3>6 DEF Whole
  <2>3. QED  BY <2>1, <2>2 DEF Passed
<1>7. QED  BY <1>1, <1>2, <1>4, <1>5, <1>6 DEF Counted

\* A step that leaves the log and the attempt what they were, from what is on its way
\* once the observation is out.
LEMMA EventsMove ==
  ASSUME SessionInv, EventsInv, Followed(ses'), ses'.acquisition = ses.acquisition,
         ses'.logOpen = ses.logOpen, Passed(ses.relay, ses'.relay),
         Firmer(ses, proc, ses', proc', world), Calmer(ses, proc, proc'),
         Timely(ses', coord'), Sensible(ses', control', world), world' = world,
         NEW tk, NEW q \in Seq(Observations), Reported(ses, proc, tk, q, world),
         Counted(ses, proc, tk, q), Fewer(q, queue'), Softer(ses', tk, task'),
         \/ ~Unspoilt(ses'.relay) \/ ~ses.logOpen
         \/ /\ task'["log"] = tk["log"]
            /\ queue' = q \/ (q # << >> /\ queue' = Tail(q) /\ Head(q).kind # "LOG")
  PROVE  EventsInv'
<1>1. Followed(ses)
  BY DEF EventsInv
<1>2. ses'.relay.eof = ses.relay.eof
  BY DEF Passed
<1>3. Reported(ses', proc', task', queue', world)
  BY <1>2, ReportedOn
<1>4. Counted(ses', proc', task', queue')
  BY <1>1, CountedOn
<1>5. QED  BY <1>3, <1>4 DEF EventsInv

\* A step that is bookkeeping.
LEMMA EventsGoOn ==
  ASSUME SessionInv, EventsInv, Carried(ses, ses'), Calmer(ses, proc, proc'),
         Timely(ses', coord'), Sensible(ses', control', world), world' = world,
         NEW tk, NEW q \in Seq(Observations), Reported(ses, proc, tk, q, world),
         Counted(ses, proc, tk, q), Fewer(q, queue'), Softer(ses', tk, task'),
         \/ ~Unspoilt(ses'.relay) \/ ~ses.logOpen
         \/ /\ task'["log"] = tk["log"]
            /\ queue' = q \/ (q # << >> /\ queue' = Tail(q) /\ Head(q).kind # "LOG")
  PROVE  EventsInv'
<1>1. Followed(ses)
  BY DEF EventsInv
<1>2. /\ Followed(ses') /\ ses'.acquisition = ses.acquisition
      /\ ses'.logOpen = ses.logOpen /\ Passed(ses.relay, ses'.relay)
  BY DEF Carried
<1>3. Firmer(ses, proc, ses', proc', world)
  BY <1>1, FirmerOn
<1>4. QED  BY <1>2, <1>3, EventsMove

----------------------------------------------------------------------------
\* The observers

\* The queue and the tasks are what the session's invariant says.
LEMMA EventsTypes ==
  ASSUME SessionInv
  PROVE  /\ queue \in Seq(Observations) /\ task \in [Tasks -> TaskStates]
         /\ Formed(ses) /\ Accounted(ses) /\ "log" \in Tasks /\ "log deadline" \in Tasks
         /\ coord \in Working \cup Ending \cup Late
  BY DEF SessionInv, Core, Watched, Tasks, SessionTasks, Placed

\* A task publishes what is so.
LEMMA PublishesNews ==
  ASSUME SessionInv, EventsInv, NEW t \in Tasks, NEW kind \in Kinds, Report(t, kind),
         task[t] = "on" \/ task[t] = kind, Means(kind, ses, proc, world),
         kind \in {"LOG", "LOGEOF"} => t = "log" /\ task["log"] \in Reading,
         t = "log" => kind \in {"LOG", "LOGEOF", "FAIL", "LOGSTOPPED"}
  PROVE  /\ Reported(ses, proc, task', queue', world) /\ queue' \in Seq(Observations)
         /\ Pending(queue', task') =
              Pending(queue, task) + (IF kind = "LOG" /\ task["log"] # "LOG" THEN 1 ELSE 0)
<1>1. /\ queue \in Seq(Observations) /\ task \in [Tasks -> TaskStates] /\ "log" \in Tasks
      /\ "log deadline" \in Tasks
  BY EventsTypes
<1>2. Reported(ses, proc, task, queue, world)
  BY DEF EventsInv
<1> DEFINE o == [src |-> t, kind |-> kind]
<1>3. o \in Observations
  BY DEF Observations
<1>4. /\ "on" \notin Kinds /\ "off" \notin Kinds /\ "done" \notin Kinds
      /\ kind # "on" /\ After(kind) \in {"on", "done"}
      /\ After("LOG") = "on" /\ After("LOGEOF") = "done"
      /\ After("FAIL") = "done" /\ After("LOGSTOPPED") = "done"
  BY DEF Kinds, After, Continues
<1>5. /\ task'[t] \in {kind, After(kind)} /\ \A u \in Tasks \ {t} : task'[u] = task[u]
      /\ Means(task'[t], ses, proc, world)
  BY <1>1, <1>4 DEF Report, Means
<1>6. \A x \in Tasks : Means(task'[x], ses, proc, world)
                        /\ (task'[x] \in {"LOG", "LOGEOF"} => x = "log")
  <2>1. \A x \in Tasks : Means(task[x], ses, proc, world)
                          /\ (task[x] \in {"LOG", "LOGEOF"} => x = "log")
    BY <1>2 DEF Reported
  <2>2. QED  BY <1>4, <1>5, <2>1
<1>7. /\ task'["log"] \in Reading \cup {"off", "done", "FAIL", "LOGSTOPPED"}
      /\ task'["log"] \in Reading => task["log"] \in Reading /\ ses.logOpen
  <2>1. CASE t # "log"
    BY <1>1, <1>2, <1>5, <2>1 DEF Reported
  <2>2. CASE t = "log"
    BY <1>2, <1>4, <1>5, <2>2 DEF Reported, Reading
  <2>3. QED  BY <2>1, <2>2
<1>8. task'["log deadline"] \notin {"off", "done"} => ses.logOpen /\ Ended(ses.lc)
  <2>1. task["log deadline"] \notin {"off", "done"} => ses.logOpen /\ Ended(ses.lc)
    BY <1>2 DEF Reported
  <2>2. task'["log deadline"] \notin {"off", "done"} =>
          task["log deadline"] \notin {"off", "done"}
    BY <1>1, <1>4, <1>5
  <2>3. QED  BY <2>1, <2>2
<1>9. \A i, j \in 1 .. Len(queue) :
        queue[i].kind = "LOGEOF" /\ queue[j].kind \in {"LOG", "LOGEOF"} => j <= i
  BY <1>2 DEF Reported
<1>10. /\ \A i \in 1 .. Len(queue) : Means(queue[i].kind, ses, proc, world)
       /\ \A i \in 1 .. Len(queue) :
            queue[i].kind = "LOGEOF" => task["log"] \notin Reading /\ ~ses.relay.eof
       /\ ses.relay.eof =>
            /\ task["log"] \notin Reading
            /\ \A i \in 1 .. Len(queue) : queue[i].kind # "LOG"
  BY <1>2 DEF Reported
<1>14. queue \in Seq(Observations)
  BY <1>1
<1>15. Len(queue) \in Nat
  BY <1>14
<1>11. CASE queue' = queue /\ task' = [task EXCEPT ![t] = kind]
  <2>1. Reported(ses, proc, task', queue', world)
    BY <1>6, <1>7, <1>8, <1>9, <1>10, <1>11 DEF Reported
  <2>2. task'["log"] = "LOG" <=> task["log"] = "LOG" \/ kind = "LOG"
    <3>1. CASE t # "log"
      BY <1>1, <1>11, <3>1
    <3>2. CASE t = "log"
      <4>1. task'["log"] = kind
        BY <1>1, <1>11, <3>2
      <4>2. task["log"] # "LOG" \/ kind = "LOG"
        BY <1>4, <3>2
      <4>3. QED  BY <4>1, <4>2
    <3>3. QED  BY <3>1, <3>2
  <2>3. Cardinality(LogItems(queue)) \in Nat
    BY <1>1, LogItemsCounted
  <2>5. Pending(queue', task') = Cardinality(LogItems(queue))
                                 + (IF task'["log"] = "LOG" THEN 1 ELSE 0)
    BY <1>11 DEF Pending
  <2>6. Pending(queue, task) = Cardinality(LogItems(queue))
                               + (IF task["log"] = "LOG" THEN 1 ELSE 0)
    BY DEF Pending
  <2>7. Pending(queue', task') =
          Pending(queue, task) + (IF kind = "LOG" /\ task["log"] # "LOG" THEN 1 ELSE 0)
    BY <2>2, <2>3, <2>5, <2>6
  <2>4. QED  BY <1>11, <1>14, <2>1, <2>7
<1>12. CASE queue' = Append(queue, o) /\ task' = [task EXCEPT ![t] = After(kind)]
  <2>1. /\ Len(queue') = Len(queue) + 1 /\ queue'[Len(queue) + 1] = o
        /\ queue' \in Seq(Observations)
        /\ \A i \in 1 .. Len(queue) : queue'[i] = queue[i]
        /\ \A i \in 1 .. Len(queue') : i \in 1 .. Len(queue) \/ i = Len(queue) + 1
    BY <1>3, <1>12, <1>14, <1>15
  <2>2. o.kind = kind
    OBVIOUS
  <2>3. \A i \in 1 .. Len(queue') : Means(queue'[i].kind, ses, proc, world)
    BY <1>10, <2>1, <2>2
  <2>4. kind \in {"LOG", "LOGEOF"} =>
          \A i \in 1 .. Len(queue) : queue[i].kind # "LOGEOF"
    BY <1>10
  <2>5. \A i, j \in 1 .. Len(queue') :
          queue'[i].kind = "LOGEOF" /\ queue'[j].kind \in {"LOG", "LOGEOF"} => j <= i
    BY <1>9, <1>15, <2>1, <2>2, <2>4
  <2>6. kind = "LOGEOF" => task'["log"] = "done"
    BY <1>1, <1>4, <1>12
  <2>7. \A i \in 1 .. Len(queue') :
          queue'[i].kind = "LOGEOF" => task'["log"] \notin Reading /\ ~ses.relay.eof
    BY <1>7, <1>10, <2>1, <2>2, <2>6 DEF Reading
  <2>8. ses.relay.eof =>
          /\ task'["log"] \notin Reading
          /\ \A i \in 1 .. Len(queue') : queue'[i].kind # "LOG"
    BY <1>7, <1>10, <2>1, <2>2
  <2>9. Reported(ses, proc, task', queue', world)
    BY <1>6, <1>7, <1>8, <2>3, <2>5, <2>7, <2>8 DEF Reported
  <2>10. Cardinality(LogItems(queue')) =
           Cardinality(LogItems(queue)) + (IF kind = "LOG" THEN 1 ELSE 0)
    BY <1>1, <1>3, <1>12, <2>2, LogItemAppended
  <2>11. Cardinality(LogItems(queue)) \in Nat
    BY <1>1, LogItemsCounted
  <2>12. CASE t # "log"
    <3>1. kind # "LOG" /\ task'["log"] = task["log"]
      BY <1>1, <1>12, <2>12
    <3>2. QED  BY <2>1, <2>9, <2>10, <2>11, <3>1 DEF Pending
  <2>13. CASE t = "log"
    <3>1. task'["log"] # "LOG"
      BY <1>1, <1>4, <1>12, <2>13
    <3>2. task["log"] # "LOG" \/ kind = "LOG"
      BY <1>4, <2>13
    <3>3. QED  BY <2>1, <2>9, <2>10, <2>11, <3>1, <3>2 DEF Pending
  <2>14. QED  BY <2>12, <2>13
<1>13. QED  BY <1>11, <1>12 DEF Report

\* A task publishes, and the rest is bookkeeping.
LEMMA ObserverEvents ==
  ASSUME SessionInv, EventsInv, NEW t \in Tasks, NEW kind \in Kinds, Report(t, kind),
         task[t] = "on" \/ task[t] = kind, Means(kind, ses, proc, world),
         kind \in {"LOG", "LOGEOF"} => t = "log" /\ task["log"] \in Reading,
         kind = "LOG" => task["log"] = "LOG",
         t = "log" => kind \in {"LOG", "LOGEOF", "FAIL", "LOGSTOPPED"},
         Carried(ses, ses'), Calmer(ses, proc, proc'),
         Sensible(ses', control', world), coord' = coord, world' = world
  PROVE  EventsInv'
<1>2. Reported(ses, proc, task', queue', world) /\ queue' \in Seq(Observations)
      /\ Pending(queue', task') =
           Pending(queue, task) + (IF kind = "LOG" /\ task["log"] # "LOG" THEN 1 ELSE 0)
  BY PublishesNews
<1>1. Cardinality(LogItems(queue)) \in Nat
  BY EventsTypes, LogItemsCounted
<1>3. Pending(queue, task) \in Nat
  BY <1>1 DEF Pending
<1>4. Pending(queue', task') = Pending(queue, task)
  BY <1>2, <1>3
<1>5. Counted(ses, proc, task', queue')
  BY <1>4 DEF EventsInv, Counted
<1>6. Timely(ses', coord')
  BY TimelyOn DEF EventsInv
<1>7. Fewer(queue', queue') /\ Softer(ses', task', task')
  BY DEF Fewer, Softer
<1>8. QED  BY <1>2, <1>5, <1>6, <1>7, EventsGoOn

\* Nothing is published, and the rest is bookkeeping.
LEMMA QuietEvents ==
  ASSUME SessionInv, EventsInv, Carried(ses, ses'), Calmer(ses, proc, proc'),
         Sensible(ses', control', world), UNCHANGED <<coord, queue, task, world>>
  PROVE  EventsInv'
<1>1. /\ Timely(ses, coord) /\ Sensible(ses, control, world) /\ Followed(ses)
      /\ Reported(ses, proc, task, queue, world) /\ Counted(ses, proc, task, queue)
  BY DEF EventsInv
<1>2. Timely(ses', coord')
  BY <1>1, TimelyOn
<1>3. Fewer(queue, queue') /\ Softer(ses', task, task')
  BY DEF Fewer, Softer
<1>4. queue \in Seq(Observations)
  BY EventsTypes
<1>5. QED  BY <1>1, <1>2, <1>3, <1>4, EventsGoOn

\* Where the session and the process stay.
LEMMA SameEvents ==
  ASSUME EventsInv
  PROVE  /\ ses' = ses => Carried(ses, ses') /\ Sensible(ses', control, world)
         /\ proc' = proc => Calmer(ses, proc, proc')
         /\ Carried(ses, ses') => Sensible(ses', control, world)
<1>1. Followed(ses) /\ Sensible(ses, control, world)
  BY DEF EventsInv
<1>2. ses' = ses => Carried(ses, ses')
  BY <1>1, CarriedReflexive
<1>3. Carried(ses, ses') => Sensible(ses', control, world)
  BY <1>1, SensibleOn
<1>4. proc' = proc => Calmer(ses, proc, proc')
  BY DEF Calmer
<1>5. QED  BY <1>2, <1>3, <1>4

\* A step that changes the session where the log and the client do not look.
LEMMA AsideEvents ==
  ASSUME SessionInv, EventsInv, DOMAIN ses' = DOMAIN ses,
         \A f \in LogFields \cup {"lc"} : ses'[f] = ses[f]
  PROVE  Carried(ses, ses')
<1>1. Followed(ses)
  BY DEF EventsInv
<1>2. \A f \in LogFields : ses'[f] = ses[f]
  OBVIOUS
<1>3. Onward(ses.lc, ses'.lc)
  BY DEF Onward
<1>4. QED  BY <1>1, <1>2, <1>3, CarriedAside

\* An observation that waited for the queue.
LEMMA FinishPutEvents ==
  ASSUME SessionInv, EventsInv, NEW t \in Tasks, FinishPut(t)
  PROVE  EventsInv'
<1>1. /\ task[t] \in Kinds /\ Report(t, task[t])
      /\ UNCHANGED <<ses, coord, control, proc, world>>
  BY DEF FinishPut
<1>2. Reported(ses, proc, task, queue, world) /\ "log" \in Tasks
  BY EventsTypes DEF EventsInv
<1>3. /\ Means(task[t], ses, proc, world) /\ (task[t] \in {"LOG", "LOGEOF"} => t = "log")
      /\ task["log"] \in Reading \cup {"off", "done", "FAIL", "LOGSTOPPED"}
  BY <1>2 DEF Reported
<1>4. t = "log" => task[t] \in {"LOG", "LOGEOF", "FAIL", "LOGSTOPPED"}
  BY <1>1, <1>3 DEF Reading, Kinds
<1>5. Carried(ses, ses') /\ Calmer(ses, proc, proc') /\ Sensible(ses', control', world)
  BY <1>1, SameEvents
<1> DEFINE kind == task[t]
<1>6. /\ kind \in Kinds /\ Report(t, kind) /\ task[t] = kind
      /\ Means(kind, ses, proc, world)
      /\ kind \in {"LOG", "LOGEOF"} => t = "log" /\ task["log"] = kind
      /\ kind \in {"LOG", "LOGEOF"} => kind \in Reading
      /\ t = "log" => kind \in {"LOG", "LOGEOF", "FAIL", "LOGSTOPPED"}
  BY <1>1, <1>3, <1>4 DEF Reading
<1> HIDE DEF kind
<1>7. QED  BY <1>1, <1>5, <1>6, ObserverEvents

\* Observations that say nothing of the log or of START.
Silent == Kinds \ {"START", "LOG", "LOGEOF", "LOGDEADLINE"}

\* An observer that reports one of them and does bookkeeping keeps the invariant.
LEMMA SilentEvents ==
  ASSUME SessionInv, EventsInv, NEW t \in Tasks \ {"log"}, NEW kind \in Silent, Report(t, kind),
         task[t] = "on", Carried(ses, ses'), Calmer(ses, proc, proc'),
         Sensible(ses', control', world), coord' = coord, world' = world
  PROVE  EventsInv'
<1>1. kind \in Kinds /\ Means(kind, ses, proc, world) /\ kind \notin {"LOG", "LOGEOF"}
  BY DEF Silent, Means
<1>2. QED  BY <1>1, ObserverEvents

\* Observations of what goes on elsewhere.
LEMMA SimpleEvents ==
  ASSUME SessionInv, EventsInv,
         \/ \E t \in Streams : ReadOutput(t) \/ ReadOutputEOF(t)
         \/ ObserveSignal \/ ObserveExit \/ PollReadiness \/ ReadinessExpires \/ DrainExpires
         \/ GroupWaitEnds
  PROVE  EventsInv'
<1>1. PICK t \in Tasks \ {"log"}, kind \in Silent :
        /\ Report(t, kind) /\ task[t] = "on" /\ UNCHANGED <<ses, coord, control, world>>
        /\ Calmer(ses, proc, proc')
  <2>1. Streams \subseteq Tasks \ {"log"}
    BY SessionConstants DEF Tasks, SessionTasks, ChildTasks
  <2>2. proc \in Processes
    BY DEF SessionInv, Supervised
  <2>3. ASSUME NEW t \in Streams, ReadOutput(t)
        PROVE  /\ t \in Tasks \ {"log"} /\ "OUT" \in Silent
               /\ Report(t, "OUT") /\ task[t] = "on"
               /\ UNCHANGED <<ses, coord, control, world>> /\ Calmer(ses, proc, proc')
    BY <2>1, <2>2, <2>3 DEF ReadOutput, Runs, Silent, Kinds, Calmer, Processes
  <2>4. ASSUME NEW t \in Streams, ReadOutputEOF(t)
        PROVE  /\ t \in Tasks \ {"log"} /\ "OUTEOF" \in Silent /\ Report(t, "OUTEOF")
               /\ task[t] = "on"
               /\ UNCHANGED <<ses, coord, control, world>> /\ Calmer(ses, proc, proc')
    BY <2>1, <2>4 DEF ReadOutputEOF, Runs, Silent, Kinds, Calmer
  <2>5. {"signal", "exit", "readiness", "drain", "cleanup"} \subseteq Tasks \ {"log"}
    BY DEF Tasks, SessionTasks, ChildTasks
  <2>6. {"SIGNAL", "EXIT", "POLL", "DEADLINE", "DRAIN", "CLEANED"} \subseteq Silent
    BY DEF Silent, Kinds
  <2>7. CASE ObserveSignal
    BY <2>5, <2>6, <2>7 DEF ObserveSignal, Runs, Calmer
  <2>8. CASE ObserveExit
    <3>1. Report("exit", "EXIT") /\ task["exit"] = "on"
          /\ UNCHANGED <<ses, coord, control, world>>
          /\ proc' = [proc EXCEPT !.observed = TRUE]
      BY <2>8 DEF ObserveExit, Runs
    <3>2. Calmer(ses, proc, proc')
      BY <2>2, <3>1 DEF Calmer, Processes
    <3>3. QED  BY <2>5, <2>6, <3>1, <3>2
  <2>9. CASE PollReadiness
    BY <2>5, <2>6, <2>9 DEF PollReadiness, Runs, Calmer
  <2>10. CASE ReadinessExpires
    BY <2>5, <2>6, <2>10 DEF ReadinessExpires, Runs, Calmer
  <2>11. CASE DrainExpires
    BY <2>5, <2>6, <2>11 DEF DrainExpires, Runs, Calmer
  <2>12. CASE GroupWaitEnds
    <3>1. Report("cleanup", "CLEANED") /\ task["cleanup"] = "on"
          /\ UNCHANGED <<ses, coord, control, world>>
          /\ proc' = [proc EXCEPT !.stage = "idle",
                                  !.disposed = proc.state = "reaped" /\ ~proc.members]
      BY <2>12 DEF GroupWaitEnds, CleanupStage, Runs
    <3>2. Calmer(ses, proc, proc')
      BY <2>2, <3>1 DEF Calmer, Processes
    <3>3. QED  BY <2>5, <2>6, <3>1, <3>2
  <2>13. QED  BY <2>3, <2>4, <2>7, <2>8, <2>9, <2>10, <2>11, <2>12
<1>2. Carried(ses, ses') /\ Sensible(ses', control', world)
  BY <1>1, SameEvents
<1>3. QED  BY <1>1, <1>2, SilentEvents

\* An observation raises.
LEMMA ObserverFailsEvents ==
  ASSUME SessionInv, EventsInv, NEW t \in Tasks, ObserverFails(t)
  PROVE  EventsInv'
<1>1. /\ task[t] = "on" /\ UNCHANGED <<coord, control, proc, world>>
      /\ IF t = "log" /\ ses.relay.disposed
         THEN /\ ses' = [ses EXCEPT !.relay = Relay!ReadFailed(@)]
              /\ Report(t, "LOGSTOPPED")
         ELSE /\ ses' = [ses EXCEPT !.failures = Append(@, t),
                                    !.writerFailed = @ \/ t = "writer"]
              /\ Report(t, "FAIL")
  BY DEF ObserverFails, Runs
<1>2. Formed(ses) /\ Followed(ses)
  BY EventsTypes DEF EventsInv
<1>3. /\ "FAIL" \in Kinds /\ "LOGSTOPPED" \in Kinds
      /\ Means("FAIL", ses, proc, world) /\ Means("LOGSTOPPED", ses, proc, world)
  BY DEF Kinds, Means
<1>4. CASE t = "log" /\ ses.relay.disposed
  <2> DEFINE relay == Relay!ReadFailed(ses.relay)
  <2>1. /\ RelaySound(relay) /\ Passed(ses.relay, relay)
        /\ relay.buffer = ses.relay.buffer /\ relay.admitted = ses.relay.admitted
        /\ relay.final = ses.relay.final /\ relay.decision = ses.relay.decision
    BY <1>2, ReaderFails DEF Followed
  <2>2. ses' = [ses EXCEPT !.relay = relay] /\ Report(t, "LOGSTOPPED")
    BY <1>1, <1>4
  <2>3. ses.logOpen
    <3>1. ~ses.logOpen => ses.relay = Relay!Opened
      BY <1>2 DEF Followed
    <3>2. Relay!Opened.disposed = FALSE
      BY DEF Relay!Opened
    <3>3. QED  BY <1>4, <3>1, <3>2
  <2> HIDE DEF relay
  <2>4. Carried(ses, [ses EXCEPT !.relay = relay])
    BY <1>2, <2>1, <2>3, CarriedRelay DEF Followed
  <2>5. Carried(ses, ses')
    BY <2>2, <2>4
  <2>6. Calmer(ses, proc, proc') /\ Sensible(ses', control', world)
    BY <1>1, <2>5, SameEvents
  <2>7. QED  BY <1>1, <1>3, <2>2, <2>5, <2>6, ObserverEvents
<1>5. CASE ~(t = "log" /\ ses.relay.disposed)
  <2>1. Report(t, "FAIL") /\ ses' = [ses EXCEPT !.failures = Append(@, t),
                                                !.writerFailed = @ \/ t = "writer"]
    BY <1>1, <1>5
  <2>2. DOMAIN ses' = DOMAIN ses /\ \A f \in LogFields \cup {"lc"} : ses'[f] = ses[f]
    BY <1>2, <2>1 DEF Formed, SessionFields, LogFields
  <2>3. Carried(ses, ses')
    BY <2>2, AsideEvents
  <2>4. Calmer(ses, proc, proc') /\ Sensible(ses', control', world)
    BY <1>1, <2>3, SameEvents
  <2>5. QED  BY <1>1, <1>3, <2>1, <2>3, <2>4, ObserverEvents
<1>6. QED  BY <1>4, <1>5

\* The writer and the credit task, and the deadline of the drain.
LEMMA CreditEvents ==
  ASSUME SessionInv, EventsInv, WriteLogFrame \/ ReturnCredit \/ LogDrainExpires
  PROVE  EventsInv'
<1>1. Formed(ses) /\ "log deadline" \in Tasks
  BY EventsTypes
<1>2. CASE WriteLogFrame
  <2>1. /\ ses' = [ses EXCEPT !.logInFlight = FALSE, !.creditBack = TRUE]
        /\ UNCHANGED <<coord, queue, task, control, proc, world>>
    BY <1>2 DEF WriteLogFrame
  <2>2. DOMAIN ses' = DOMAIN ses /\ \A f \in LogFields \cup {"lc"} : ses'[f] = ses[f]
    BY <1>1, <2>1 DEF Formed, SessionFields, LogFields
  <2>5. Carried(ses, ses')
    BY <2>2, AsideEvents
  <2>3. Carried(ses, ses') /\ Calmer(ses, proc, proc') /\ Sensible(ses', control', world)
    BY <2>1, <2>5, SameEvents
  <2>4. QED  BY <2>1, <2>3, QuietEvents
<1>3. CASE ReturnCredit
  <2>1. /\ ses' = [ses EXCEPT !.creditBack = FALSE] /\ task["credit"] = "on"
        /\ Report("credit", "LOGCREDIT") /\ UNCHANGED <<coord, control, proc, world>>
    BY <1>3 DEF ReturnCredit, Runs
  <2>2. DOMAIN ses' = DOMAIN ses /\ \A f \in LogFields \cup {"lc"} : ses'[f] = ses[f]
    BY <1>1, <2>1 DEF Formed, SessionFields, LogFields
  <2>3. Carried(ses, ses')
    BY <2>2, AsideEvents
  <2>4. Calmer(ses, proc, proc') /\ Sensible(ses', control', world)
    BY <2>1, <2>3, SameEvents
  <2>5. "credit" \in Tasks \ {"log"} /\ "LOGCREDIT" \in Silent
    BY DEF Tasks, SessionTasks, Silent, Kinds
  <2>6. QED  BY <2>1, <2>3, <2>4, <2>5, SilentEvents
<1>4. CASE LogDrainExpires
  <2>1. /\ task["log deadline"] = "on" /\ Report("log deadline", "LOGDEADLINE")
        /\ UNCHANGED <<ses, coord, control, proc, world>>
    BY <1>4 DEF LogDrainExpires, Runs
  <2>2. ses.logOpen /\ Ended(ses.lc)
    BY <2>1 DEF EventsInv, Reported
  <2>3. "LOGDEADLINE" \in Kinds /\ Means("LOGDEADLINE", ses, proc, world)
    BY <2>2 DEF Means, Kinds
  <2>4. Carried(ses, ses') /\ Calmer(ses, proc, proc') /\ Sensible(ses', control', world)
    BY <2>1, SameEvents
  <2>5. QED  BY <1>1, <2>1, <2>3, <2>4, ObserverEvents
<1>5. QED  BY <1>2, <1>3, <1>4

\* The client's writes and its end, as the control task reads them.
LEMMA ControlEvents ==
  ASSUME SessionInv, EventsInv, ReadStart \/ ReadRelease \/ ReadEOF
  PROVE  EventsInv'
<1>1. Formed(ses) /\ Sensible(ses, control, world)
  BY EventsTypes DEF EventsInv
<1>2. "control" \in Tasks \ {"log"} /\ "START" \in Kinds /\ "EOF" \in Silent
  BY DEF Tasks, SessionTasks, Kinds, Silent
<1>3. CASE ReadStart
  <2>1. /\ task["control"] = "on" /\ control = "sending" /\ control' = "start"
        /\ Report("control", "START") /\ UNCHANGED <<ses, coord, proc, world>>
    BY <1>3 DEF ReadStart, Runs
  <2>2. Asked(ses, world)
    BY <1>1, <2>1 DEF Sensible
  <2>3. Sensible(ses', control', world) /\ Means("START", ses, proc, world)
    BY <1>1, <2>1, <2>2 DEF Sensible, Means
  <2>4. Carried(ses, ses') /\ Calmer(ses, proc, proc')
    BY <2>1, SameEvents
  <2>5. QED  BY <1>2, <2>1, <2>3, <2>4, ObserverEvents
<1>4. CASE ReadRelease
  <2>1. /\ control = "start" /\ control' = "release"
        /\ UNCHANGED <<ses, coord, queue, task, proc, world>>
    BY <1>4 DEF ReadRelease
  <2>2. Sensible(ses', control', world)
    BY <1>1, <2>1 DEF Sensible
  <2>3. Carried(ses, ses') /\ Calmer(ses, proc, proc')
    BY <2>1, SameEvents
  <2>4. QED  BY <2>1, <2>2, <2>3, QuietEvents
<1>5. CASE ReadEOF
  <2>1. /\ task["control"] = "on" /\ control' = IF control = "start" THEN "lost" ELSE "closed"
        /\ ses' = [ses EXCEPT !.leaseLost = control = "start"]
        /\ Report("control", "EOF") /\ UNCHANGED <<coord, proc, world>>
    BY <1>5 DEF ReadEOF, Runs
  <2>2. DOMAIN ses' = DOMAIN ses /\ \A f \in LogFields \cup {"lc"} : ses'[f] = ses[f]
    BY <1>1, <2>1 DEF Formed, SessionFields, LogFields
  <2>3. Carried(ses, ses')
    BY <2>2, AsideEvents
  <2>4. Sensible(ses', control, world) /\ Calmer(ses, proc, proc')
    BY <2>1, <2>3, SameEvents
  <2>5. Sensible(ses', control', world)
    BY <2>1, <2>4 DEF Sensible
  <2>6. QED  BY <1>2, <2>1, <2>3, <2>4, <2>5, SilentEvents
<1>6. QED  BY <1>3, <1>4, <1>5

\* While the log has no end on its way, what is on its way does not depend on the
\* process.
LEMMA ReportedElse ==
  ASSUME NEW s, NEW p, NEW tk, NEW q, NEW w, Reported(s, p, tk, q, w), NEW r,
         \A i \in 1 .. Len(q) : q[i].kind # "LOGEOF", tk["log"] # "LOGEOF"
  PROVE  Reported(s, r, tk, q, w)
<1>1. \A kind : kind # "LOGEOF" /\ Means(kind, s, p, w) => Means(kind, s, r, w)
  BY DEF Means
<1>2. \A i \in 1 .. Len(q) : Means(q[i].kind, s, r, w)
  BY <1>1 DEF Reported
<1>3. \A t \in Tasks : Means(tk[t], s, r, w)
  BY <1>1 DEF Reported
<1>4. QED  BY <1>2, <1>3 DEF Reported

\* A byte is read from the log.
LEMMA ReadLogEvents ==
  ASSUME SessionInv, EventsInv, ReadLog
  PROVE  EventsInv'
<1>1. /\ task["log"] = "on" /\ proc.taken < proc.written
      /\ proc' = [proc EXCEPT !.taken = @ + 1]
      /\ Report("log", "LOG") /\ UNCHANGED <<ses, coord, control, world>>
  BY DEF ReadLog, Runs
<1>2. /\ Followed(ses) /\ Reported(ses, proc, task, queue, world)
      /\ Counted(ses, proc, task, queue)
      /\ Sensible(ses, control, world) /\ Timely(ses, coord)
  BY DEF EventsInv
<1>3. proc \in Processes /\ proc.taken \in Nat /\ proc.written \in Nat
  BY DEF SessionInv, Supervised, Processes
<1>4. /\ proc'.taken = proc.taken + 1 /\ proc'.written = proc.written
      /\ proc'.taken <= proc'.written
  BY <1>1, <1>3 DEF Processes
<1>20. proc.taken # proc.written
  BY <1>1, <1>3
<1>5. ses.acquisition \notin {"none", "no process"}
  BY <1>2, <1>20 DEF Counted, Blank
<1>6. ses.logOpen /\ ses.acquired /\ ~ses.relay.eof /\ task["log"] \in Reading
  BY <1>1, <1>2, <1>5 DEF Reported, Followed, Reading
<1>7. Means("LOG", ses, proc, world)
  BY <1>6 DEF Means
<1>8. "log" \in Tasks /\ "LOG" \in Kinds /\ task \in [Tasks -> TaskStates]
  BY EventsTypes DEF Kinds
<1>9. /\ Reported(ses, proc, task', queue', world) /\ queue' \in Seq(Observations)
      /\ Pending(queue', task') = Pending(queue, task) + 1
  BY <1>1, <1>6, <1>7, <1>8, PublishesNews
<1>10. task'["log"] \in Reading /\ task'["log"] # "LOGEOF"
  BY <1>1, <1>8 DEF Report, After, Continues, Reading
<1>11. \A i \in 1 .. Len(queue') : queue'[i].kind # "LOGEOF"
  BY <1>9, <1>10 DEF Reported
<1>12. Reported(ses, proc', task', queue', world)
  BY <1>9, <1>10, <1>11, ReportedElse
<1>13. ses.relay.decision # "complete"
  BY <1>2, <1>20 DEF Counted, Whole, AtEnd
<1>14. Cardinality(LogItems(queue)) \in Nat
  BY EventsTypes, LogItemsCounted
<1>15. Pending(queue, task) \in Nat
  BY <1>14 DEF Pending
<1>16. Kept(ses.relay) \in Nat
  <2>1. ses.relay.admitted \in Nat /\ ses.relay.buffer \in Seq({"b"})
    BY <1>2 DEF Followed, RelaySound, Relays
  <2>2. Len(ses.relay.buffer) \in Nat
    BY <2>1
  <2>3. QED  BY <2>1, <2>2 DEF Kept
<1>17. Unspoilt(ses.relay) => Kept(ses.relay) + Pending(queue', task') = proc'.taken
  <2>1. Unspoilt(ses.relay) => Kept(ses.relay) + Pending(queue, task) = proc.taken
    BY <1>2 DEF Counted
  <2>2. QED  BY <1>4, <1>9, <1>15, <1>16, <2>1
<1>18. Counted(ses, proc', task', queue')
  BY <1>4, <1>5, <1>6, <1>13, <1>17 DEF Counted
<1>19. QED  BY <1>1, <1>2, <1>12, <1>18 DEF EventsInv

\* The end of the log is read.
LEMMA ReadLogEOFEvents ==
  ASSUME SessionInv, EventsInv, ReadLogEOF
  PROVE  EventsInv'
<1>1. /\ task["log"] = "on" /\ proc.taken = proc.written /\ ses.relay.disposed
      /\ proc.state # "running" /\ ~proc.members /\ ~proc.escaped
      /\ Report("log", "LOGEOF") /\ UNCHANGED <<ses, coord, control, proc, world>>
  BY DEF ReadLogEOF, Runs
<1>2. Followed(ses) /\ Reported(ses, proc, task, queue, world)
  BY DEF EventsInv
<1>3. ses.logOpen
  BY <1>1, <1>2 DEF Reported, Reading
<1>4. ses.acquisition # "none"
  BY <1>1, <1>2 DEF Followed, RelaySound
<1>5. Means("LOGEOF", ses, proc, world)
  BY <1>1, <1>3, <1>4 DEF Means, AtEnd
<1>6. "log" \in Tasks /\ "LOGEOF" \in Kinds /\ task["log"] \in Reading
  BY <1>1, EventsTypes DEF Kinds, Reading
<1>7. Carried(ses, ses') /\ Calmer(ses, proc, proc') /\ Sensible(ses', control', world)
  BY <1>1, SameEvents
<1>8. QED  BY <1>1, <1>5, <1>6, <1>7, ObserverEvents

\* Termination only takes from the group.
LEMMA TerminationEvents ==
  ASSUME SessionInv, EventsInv, SendTerm \/ LeaderWaitEnds \/ SendKill
  PROVE  EventsInv'
<1>1. /\ task["cleanup"] = "on" /\ proc \in Processes
      /\ UNCHANGED <<ses, coord, queue, task, control, world>>
  BY DEF SendTerm, LeaderWaitEnds, SendKill, CleanupStage, Runs, SessionInv, Supervised
<1>2. ses.acquisition = "child"
  <2>1. ses.cleanup = "running"
    BY <1>1 DEF SessionInv, Watched
  <2>2. QED  BY <2>1 DEF SessionInv, Core, Staged
<1> DEFINE Less(p) == /\ DOMAIN p = DOMAIN proc
                      /\ p.written = proc.written /\ p.taken = proc.taken
                      /\ p.escaped = proc.escaped /\ p.members = proc.members
                      /\ p.state = "running" => proc.state = "running"
<1>3. \A gone, rc : Less(Signalled(proc, gone, rc))
  BY <1>1 DEF Signalled, Processes
<1>4. CASE SendTerm
  <2>1. PICK gone \in MayExit, rc \in ReturnCodes :
          proc' = [Signalled(proc, gone, rc) EXCEPT !.stage = "await"]
    BY <1>4 DEF SendTerm
  <2> DEFINE p == Signalled(proc, gone, rc)
  <2>2. Less(p)
    BY <1>3
  <2>3. proc' = [p EXCEPT !.stage = "await"]
    BY <2>1
  <2> HIDE DEF p
  <2>4. Less(proc')
    BY <1>1, <2>2, <2>3 DEF Processes
  <2>5. Calmer(ses, proc, proc')
    BY <1>2, <2>4 DEF Calmer
  <2>6. Carried(ses, ses') /\ Sensible(ses', control', world)
    BY <1>1, SameEvents
  <2>7. QED  BY <1>1, <2>5, <2>6, QuietEvents
<1>5. CASE LeaderWaitEnds
  <2>1. proc' = [proc EXCEPT !.observed = @ \/ proc.state # "running", !.stage = "kill"]
    BY <1>5 DEF LeaderWaitEnds
  <2>2. Calmer(ses, proc, proc')
    BY <1>1, <2>1 DEF Calmer, Processes
  <2>3. Carried(ses, ses') /\ Sensible(ses', control', world)
    BY <1>1, SameEvents
  <2>4. QED  BY <1>1, <2>2, <2>3, QuietEvents
<1>6. CASE SendKill
  <2>1. PICK gone \in MayExit, stuck \in May("stuck"), rc \in ReturnCodes :
          LET p == Signalled(proc, gone, rc) IN
          /\ gone \/ rc # 0
          /\ proc' = IF p.state = "running" /\ stuck
                     THEN [p EXCEPT !.stage = "vanish"]
                     ELSE [p EXCEPT !.state = "reaped", !.observed = TRUE,
                                    !.stage = "vanish",
                                    !.rc = IF p.state = "running" THEN rc ELSE @,
                                    !.members = @ /\ stuck]
    BY <1>6, Zenon DEF SendKill
  <2> DEFINE p == Signalled(proc, gone, rc)
  <2>2. Less(p)
    BY <1>3
  <2>3. proc' = IF p.state = "running" /\ stuck
                THEN [p EXCEPT !.stage = "vanish"]
                ELSE [p EXCEPT !.state = "reaped", !.observed = TRUE,
                               !.stage = "vanish",
                               !.rc = IF p.state = "running" THEN rc ELSE @,
                               !.members = @ /\ stuck]
    BY <2>1
  <2> HIDE DEF p
  <2>4. /\ proc'.written = proc.written /\ proc'.taken = proc.taken
        /\ proc'.escaped = proc.escaped /\ (proc'.members => proc.members)
        /\ proc'.state = "running" => proc.state = "running"
    BY <1>1, <2>2, <2>3 DEF Processes
  <2>5. Calmer(ses, proc, proc')
    BY <1>2, <2>4 DEF Calmer
  <2>6. Carried(ses, ses') /\ Sensible(ses', control', world)
    BY <1>1, SameEvents
  <2>7. QED  BY <1>1, <2>5, <2>6, QuietEvents
<1>7. QED  BY <1>4, <1>5, <1>6

----------------------------------------------------------------------------
\* The client and the child

\* The client tells its EventOrder what it asks for.
LEMMA ClientStartsEvents ==
  ASSUME SessionInv, EventsInv, ClientStarts
  PROVE  EventsInv'
<1>1. /\ control' = "sending" /\ ses.order.created
      /\ ses' = [ses EXCEPT !.order = Order!Expect(@, want.policy, want.log)]
      /\ UNCHANGED <<coord, queue, task, proc, world>>
  BY DEF ClientStarts
<1>2. /\ Followed(ses) /\ Reported(ses, proc, task, queue, world)
      /\ Counted(ses, proc, task, queue)
      /\ Sensible(ses, control, world) /\ Timely(ses, coord)
  BY DEF EventsInv
<1>3. want.policy \in Policies /\ want.log \in BOOLEAN /\ want = world.request
  BY SessionConstants DEF SessionInv, want, World
<1>4. Formed(ses) /\ queue \in Seq(Observations)
  BY EventsTypes
<1> DEFINE order == Order!Expect(ses.order, want.policy, want.log)
<1>5. /\ order \in Orders /\ order.policy = want.policy /\ order.logRequested = want.log
      /\ order.created = ses.order.created /\ order.attempted = ses.order.attempted
      /\ order.ready = ses.order.ready /\ order.output = ses.order.output
      /\ order.bytes = ses.order.bytes /\ order.ended = ses.order.ended
      /\ order.fault = ses.order.fault
  BY <1>2, <1>3 DEF Order!Expect, Followed, Orders
<1>6. ses' = [ses EXCEPT !.order = order]
  BY <1>1
<1> HIDE DEF order
<1>7. /\ ses'.order = order /\ \A f \in SessionFields \ {"order"} : ses'[f] = ses[f]
  BY <1>4, <1>6 DEF Formed, SessionFields
<1>8. /\ ses'.relay = ses.relay /\ ses'.logOpen = ses.logOpen /\ ses'.started = ses.started
      /\ ses'.acquired = ses.acquired /\ ses'.acquisition = ses.acquisition
      /\ ses'.drainStarted = ses.drainStarted /\ ses'.lc = ses.lc
  BY <1>7 DEF SessionFields
<1>9. Followed(ses')
  BY <1>2, <1>3, <1>5, <1>7, <1>8 DEF Followed, Delivered, Sensible
<1>10. Asked(ses', world)
  BY <1>1, <1>3, <1>5, <1>7 DEF Asked
<1>11. Sensible(ses', control', world)
  BY <1>2, <1>5, <1>7, <1>8, <1>10 DEF Sensible
<1>12. Timely(ses', coord')
  BY <1>1, <1>2, <1>5, <1>7, <1>8 DEF Timely, Delivered
<1>13. Calmer(ses, proc, proc') /\ Firmer(ses, proc, ses', proc', world)
  BY <1>1, <1>8, <1>10 DEF Calmer, Firmer
<1>14. Passed(ses.relay, ses'.relay) /\ Fewer(queue, queue') /\ Softer(ses', task, task')
  BY <1>1, <1>8 DEF Passed, Fewer, Softer
<1>15. QED  BY <1>1, <1>2, <1>4, <1>8, <1>9, <1>11, <1>12, <1>13, <1>14, EventsMove

\* The signal, the exit of the child and its artifact.
LEMMA ChildEvents ==
  ASSUME SessionInv, EventsInv, SignalArrives \/ ChildExits \/ ChildPublishes
  PROVE  EventsInv'
<1>1. Formed(ses) /\ proc \in Processes
  BY EventsTypes DEF SessionInv, Supervised
<1>2. CASE SignalArrives
  <2>1. /\ ses' = [ses EXCEPT !.sigPending = TRUE]
        /\ UNCHANGED <<coord, queue, task, control, proc, world>>
    BY <1>2 DEF SignalArrives
  <2>2. DOMAIN ses' = DOMAIN ses /\ \A f \in LogFields \cup {"lc"} : ses'[f] = ses[f]
    BY <1>1, <2>1 DEF Formed, SessionFields, LogFields
  <2>3. Carried(ses, ses')
    BY <2>2, AsideEvents
  <2>4. Calmer(ses, proc, proc') /\ Sensible(ses', control', world)
    BY <2>1, <2>3, SameEvents
  <2>5. QED  BY <2>1, <2>3, <2>4, QuietEvents
<1>3. CASE ChildExits \/ ChildPublishes
  <2>1. /\ proc.state = "running" /\ UNCHANGED <<ses, coord, queue, task, control, world>>
    BY <1>3 DEF ChildExits, ChildPublishes
  <2>2. /\ proc'.written = proc.written /\ proc'.taken = proc.taken
        /\ proc'.escaped = proc.escaped /\ proc'.members = proc.members
    BY <1>1, <1>3 DEF ChildExits, ChildPublishes, Processes
  <2>3. ses.acquisition \notin {"none", "no process"}
    BY <2>1 DEF EventsInv, Counted, Blank
  <2>4. Calmer(ses, proc, proc')
    BY <2>1, <2>2, <2>3 DEF Calmer
  <2>5. Carried(ses, ses') /\ Sensible(ses', control', world)
    BY <2>1, SameEvents
  <2>6. QED  BY <2>1, <2>4, <2>5, QuietEvents
<1>4. QED  BY <1>2, <1>3

\* The child writes to its log, which then has not ended.
LEMMA ChildLogsEvents ==
  ASSUME SessionInv, EventsInv, ChildLogs
  PROVE  EventsInv'
<1>1. /\ proc.state = "running" /\ proc' = [proc EXCEPT !.written = @ + 1]
      /\ UNCHANGED <<ses, coord, queue, task, control, world>>
  BY DEF ChildLogs
<1>2. /\ Followed(ses) /\ Reported(ses, proc, task, queue, world)
      /\ Counted(ses, proc, task, queue)
      /\ Sensible(ses, control, world) /\ Timely(ses, coord)
  BY DEF EventsInv
<1>3. proc \in Processes /\ proc.taken \in Nat /\ proc.written \in Nat
  BY DEF SessionInv, Supervised, Processes
<1>4. /\ proc'.written = proc.written + 1 /\ proc'.taken = proc.taken
      /\ proc'.state = proc.state
  BY <1>1, <1>3 DEF Processes
<1>5. /\ ~AtEnd(proc) /\ ses.acquisition \notin {"none", "no process"}
      /\ ~ses.relay.eof /\ ses.relay.decision # "complete"
  BY <1>1, <1>2 DEF AtEnd, Counted, Blank, Whole
<1>6. /\ \A i \in 1 .. Len(queue) : queue[i].kind # "LOGEOF"
      /\ task["log"] # "LOGEOF"
  BY <1>2, <1>5, EventsTypes DEF Reported, Means
<1>7. Reported(ses, proc', task, queue, world)
  BY <1>2, <1>6, ReportedElse
<1>11. proc.taken <= proc.written
  BY <1>2 DEF Counted
<1>8. proc'.taken <= proc'.written
  BY <1>3, <1>4, <1>11
<1>9. Counted(ses, proc', task, queue)
  BY <1>2, <1>4, <1>5, <1>8 DEF Counted
<1>10. QED  BY <1>1, <1>2, <1>7, <1>9 DEF EventsInv

----------------------------------------------------------------------------
\* The coordinator's bookkeeping

\* t is s after bookkeeping, and a session.
Booked(s, t) == Carried(s, t) /\ Formed(t)

\* Nothing is bookkeeping.
LEMMA BookedReflexive ==
  ASSUME NEW s, Formed(s), Followed(s)
  PROVE  Booked(s, s)
  BY CarriedReflexive DEF Booked

\* Bookkeeping after bookkeeping is bookkeeping.
LEMMA BookedTransitive ==
  ASSUME NEW s, NEW t, NEW u, Booked(s, t), Booked(t, u), Followed(s)
  PROVE  Booked(s, u)
  BY CarriedTransitive DEF Booked, Followed

\* So is a failure that ends the session ...
LEMMA BookedStops ==
  ASSUME NEW s, NEW t, Followed(s), Booked(s, t), NEW trigger \in Triggers,
         NEW failure \in SessionFailures \cup {NoFailure}
  PROVE  Booked(s, Stop(t, trigger, failure))
<1>1. failure \in Failures \cup {NoFailure}
  BY SessionConstants
<1>2. Formed(t) /\ Followed(t)
  BY DEF Booked, Carried
<1>3. Formed(Stop(t, trigger, failure))
  BY <1>1, <1>2, Stops DEF Noted
<1>4. Carried(t, Stop(t, trigger, failure))
  BY <1>1, <1>2, StopCarries
<1>5. QED  BY <1>3, <1>4, BookedTransitive DEF Booked

\* So is bookkeeping after which the cleanup has failed.
LEMMA BookedFails ==
  ASSUME NEW s, NEW t, Followed(s), Booked(s, t)
  PROVE  Booked(s, CleanupFails(t))
<1>1. "helper_failure" \in Triggers /\ "CLEANUP_FAILURE" \in SessionFailures
  BY DEF Triggers, SessionFailures
<1>2. QED  BY <1>1, BookedStops DEF CleanupFails

\* ... the accounting of the session's facts ...
LEMMA BookedAccounts ==
  ASSUME SessionInv, EventsInv, NEW admits
  PROVE  Booked(ses, Account(ses, admits)) /\ Formed(ses) /\ Followed(ses)
<1>1. Formed(ses) /\ Accounted(ses) /\ Followed(ses)
  BY EventsTypes DEF EventsInv
<1>2. Formed(Account(ses, admits))
  BY SessionAccounts
<1>3. QED  BY <1>1, <1>2, AccountCarries DEF Booked

\* ... and what concerns neither the log, the client nor the lifecycle.
LEMMA BookedAside ==
  ASSUME NEW s, NEW t, Followed(s), Booked(s, t), NEW u, DOMAIN u = SessionFields,
         u.lc = t.lc, u.failures = t.failures, u.finished \subseteq Streams,
         \A f \in LogFields : u[f] = t[f]
  PROVE  Booked(s, u)
<1>1. Formed(t) /\ Followed(t)
  BY DEF Booked, Carried
<1>2. Onward(t.lc, u.lc)
  BY DEF Onward
<1>3. Carried(t, u)
  BY <1>1, <1>2, CarriedAside
<1>4. u.order = t.order
  BY DEF LogFields
<1>5. Formed(u)
  BY <1>1, <1>4 DEF Formed
<1>6. QED  BY <1>3, <1>5, BookedTransitive DEF Booked

\* A step of the coordinator that is bookkeeping.
LEMMA CoordinatorEvents ==
  ASSUME SessionInv, EventsInv, coord \notin {"draining", "exiting", "exited"},
         coord' \in Idle, Booked(ses, ses'), Calmer(ses, proc, proc'),
         UNCHANGED <<control, world>>, Fewer(queue, queue'), Softer(ses', task, task'),
         \/ ~Unspoilt(ses'.relay) \/ ~ses.logOpen
         \/ /\ task'["log"] = task["log"]
            /\ queue' = queue \/ (queue # << >> /\ queue' = Tail(queue)
                                  /\ Head(queue).kind # "LOG")
  PROVE  EventsInv'
<1>1. /\ Followed(ses) /\ Timely(ses, coord) /\ Sensible(ses, control, world)
      /\ Reported(ses, proc, task, queue, world) /\ Counted(ses, proc, task, queue)
  BY DEF EventsInv
<1>2. Carried(ses, ses') /\ queue \in Seq(Observations)
  BY EventsTypes DEF Booked
<1>3. Timely(ses', coord')
  BY <1>1, <1>2, TimelyIdle
<1>4. Sensible(ses', control', world)
  BY <1>1, <1>2, SensibleOn
<1>5. QED  BY <1>1, <1>2, <1>3, <1>4, EventsGoOn

\* One that takes an observation.
LEMMA TakeEvents ==
  ASSUME SessionInv, EventsInv, NEW kind, Take(kind), kind # "LOG", Booked(ses, ses'),
         coord' \in Idle, UNCHANGED <<task, control, proc, world>>
  PROVE  EventsInv'
<1>1. /\ coord \in {"take", "waiting"} /\ queue # << >> /\ Head(queue).kind = kind
      /\ queue' = Tail(queue)
  BY DEF Take
<1>2. Calmer(ses, proc, proc')
  BY DEF Calmer
<1>3. Fewer(queue, queue') /\ Softer(ses', task, task')
  BY <1>1 DEF Fewer, Softer
<1>4. QED  BY <1>1, <1>2, <1>3, CoordinatorEvents

\* The end of the control stream, a signal, a failure and a check of readiness
\* that is due.
LEMMA FactsEvents ==
  ASSUME SessionInv, EventsInv, HandleEOF \/ HandleSignal \/ HandleFailure \/ HandleReadiness
  PROVE  EventsInv'
<1>1. Formed(ses) /\ Followed(ses)
  BY EventsTypes DEF EventsInv
<1>2. "yielded" \in Idle /\ "ready" \in Idle /\ "ready deadline" \in Idle
  BY DEF Idle
<1>3. CASE HandleEOF
  <2>1. PICK admits \in Admissions :
          /\ ses' = Stop(Account(ses, admits), "controller_eof", NoFailure)
          /\ coord' = "yielded"
    BY <1>3 DEF HandleEOF, Goto
  <2>2. Booked(ses, Account(ses, admits))
    BY BookedAccounts
  <2>3. "controller_eof" \in Triggers
    BY DEF Triggers
  <2>4. Booked(ses, ses')
    BY <1>1, <2>1, <2>2, <2>3, BookedStops
  <2>5. QED  BY <1>2, <1>3, <2>1, <2>4, TakeEvents DEF HandleEOF
<1>4. CASE HandleSignal
  <2>1. PICK admits \in Admissions :
          ses' = Account(ses, admits) /\ coord' = "yielded"
    BY <1>4 DEF HandleSignal, Goto
  <2>2. Booked(ses, ses')
    BY <2>1, BookedAccounts
  <2>3. QED  BY <1>2, <1>4, <2>1, <2>2, TakeEvents DEF HandleSignal
<1>5. CASE HandleFailure
  <2>1. PICK admits \in Admissions :
          /\ ses' = ObservationFailed(ses, Head(queue).src, admits)
          /\ coord' = "yielded"
    BY <1>5 DEF HandleFailure, Goto
  <2>2. Head(queue).src \in Tasks
    BY <1>5, Takes DEF HandleFailure, Observations
  <2>3. Booked(ses, ses')
    BY <1>1, <2>1, <2>2, FailureHeard, FailureCarries DEF Noted, Booked
  <2>4. QED  BY <1>2, <1>5, <2>1, <2>3, TakeEvents DEF HandleFailure
<1>6. CASE HandleReadiness
  <2>1. /\ coord' \in {"yielded", "ready", "ready deadline"}
        /\ UNCHANGED <<ses, task, control, proc, world>>
        /\ Take("POLL") \/ Take("DEADLINE")
    BY <1>6 DEF HandleReadiness
  <2>2. Booked(ses, ses')
    BY <1>1, <2>1, BookedReflexive
  <2>3. QED  BY <1>2, <2>1, <2>2, TakeEvents
<1>7. QED  BY <1>3, <1>4, <1>5, <1>6

\* Output is forwarded to a client that knows of the child.
LEMMA OutputBooked ==
  ASSUME NEW s, Formed(s), Followed(s), s.acquired, ~Delivered(s.order)
  PROVE  Booked(s, [s EXCEPT !.order = Order!ChildOutputRelayed(@)])
<1> DEFINE order == Order!ChildOutputRelayed(s.order)
           t     == [s EXCEPT !.order = order]
<1>1. /\ s.order \in Orders /\ s.order.attempted /\ s.order.created
      /\ ~s.order.ended /\ s.order.fault = "none"
  BY DEF Followed, Delivered
<1>2. order = [s.order EXCEPT !.output = TRUE]
  BY <1>1 DEF Order!ChildOutputRelayed, Order!Judge, Order!InSession
<1> HIDE DEF order
<1>3. /\ order \in Orders /\ DOMAIN order = EventFields
      /\ order.bytes = s.order.bytes /\ order.created = s.order.created
      /\ order.attempted = s.order.attempted /\ order.logRequested = s.order.logRequested
      /\ order.ended = s.order.ended /\ order.fault = s.order.fault
      /\ order = [s.order EXCEPT !.bytes = order.bytes, !.output = order.output]
  BY <1>1, <1>2 DEF Orders, EventFields
<1>4. /\ DOMAIN t = SessionFields /\ t.order = order
      /\ \A f \in SessionFields \ {"order"} : t[f] = s[f]
  BY DEF Formed, SessionFields
<1>5. /\ t.lc = s.lc /\ t.relay = s.relay /\ t.logOpen = s.logOpen /\ t.failures = s.failures
      /\ t.started = s.started /\ t.acquired = s.acquired
      /\ t.acquisition = s.acquisition /\ t.drainStarted = s.drainStarted
      /\ t.finished = s.finished
  BY <1>4 DEF SessionFields
<1>10. /\ t.order \in Orders /\ t.order.bytes = s.order.bytes /\ t.order.created
       /\ t.order.attempted /\ t.order.logRequested = s.order.logRequested
       /\ ~Delivered(t.order)
  BY <1>1, <1>3, <1>4 DEF Delivered
<1> HIDE DEF t
<1>6. Followed(t)
  BY <1>5, <1>10 DEF Followed
<1>7. Formed(t)
  BY <1>3, <1>4, <1>5 DEF Formed
<1>8. Carried(s, t)
  BY <1>3, <1>4, <1>5, <1>6 DEF Carried, Onward, Passed
<1>9. QED  BY <1>7, <1>8 DEF Booked, order, t

\* Handling the child's output keeps the invariant.
LEMMA OutputEvents ==
  ASSUME SessionInv, EventsInv, HandleOutput
  PROVE  EventsInv'
<1>1. Formed(ses) /\ Followed(ses)
  BY EventsTypes DEF EventsInv
<1>2. PICK fragment \in BOOLEAN, admitted \in Admissions :
        LET s == IF ~fragment \/ ~ses.outputAvailable THEN ses
                 ELSE IF admitted
                 THEN [ses EXCEPT !.order = Order!ChildOutputRelayed(@)]
                 ELSE Stop([ses EXCEPT !.outputAvailable = FALSE],
                           "output_failure", "CHILD_OUTPUT_ADMISSION")
            ended == {Head(queue).src} \cap
                     (IF Head(queue).kind = "OUTEOF" THEN Streams ELSE {})
        IN  Goto(IF ses.child THEN [s EXCEPT !.finished = @ \cup ended] ELSE ses,
                 "yielded")
  BY DEF HandleOutput
<1> DEFINE told   == [ses EXCEPT !.order = Order!ChildOutputRelayed(@)]
           silent == [ses EXCEPT !.outputAvailable = FALSE]
           s      == IF ~fragment \/ ~ses.outputAvailable THEN ses
                     ELSE IF admitted THEN told
                     ELSE Stop(silent, "output_failure", "CHILD_OUTPUT_ADMISSION")
           ended  == {Head(queue).src} \cap
                     (IF Head(queue).kind = "OUTEOF" THEN Streams ELSE {})
<1>3. ses' = (IF ses.child THEN [s EXCEPT !.finished = @ \cup ended] ELSE ses)
      /\ coord' = "yielded"
  BY <1>2 DEF Goto
<1>4. Booked(ses, ses)
  BY <1>1, BookedReflexive
<1>5. ASSUME ses.child  PROVE Booked(ses, s)
  <2>1. Booked(ses, told)
    <3>1. ses.acquired
      <4>1. Staged(ses, world)
        BY DEF SessionInv, Core
      <4>2. QED  BY <1>5, <4>1 DEF Staged
    <3>2. coord \notin {"draining", "exiting", "exited"}
      BY DEF HandleOutput, Take
    <3>3. ~Delivered(ses.order)
      BY <3>2 DEF EventsInv, Timely
    <3>4. QED  BY <1>1, <3>1, <3>3, OutputBooked
  <2>2. Booked(ses, Stop(silent, "output_failure", "CHILD_OUTPUT_ADMISSION"))
    <3>1. /\ DOMAIN silent = SessionFields /\ silent.lc = ses.lc
          /\ silent.finished \subseteq Streams
          /\ silent.failures = ses.failures /\ \A f \in LogFields : silent[f] = ses[f]
      BY <1>1 DEF Formed, SessionFields, LogFields
    <3>2. "output_failure" \in Triggers /\ "CHILD_OUTPUT_ADMISSION" \in SessionFailures
      BY DEF Triggers, SessionFailures
    <3> HIDE DEF silent
    <3>3. Booked(ses, silent)
      BY <1>1, <1>4, <3>1, BookedAside
    <3>4. QED  BY <1>1, <3>2, <3>3, BookedStops
  <2> HIDE DEF told, silent
  <2>3. QED  BY <1>4, <2>1, <2>2
<1> HIDE DEF s
<1>9. ended \subseteq Streams
  OBVIOUS
<1> HIDE DEF ended
<1>6. Booked(ses, ses')
  <2>1. CASE ~ses.child
    BY <1>3, <1>4, <2>1
  <2>2. CASE ses.child
    <3> DEFINE u == [s EXCEPT !.finished = @ \cup ended]
    <3>1. Booked(ses, s) /\ Formed(s)
      BY <1>5, <2>2 DEF Booked
    <3>2. /\ DOMAIN u = SessionFields /\ u.lc = s.lc /\ u.failures = s.failures
          /\ u.finished \subseteq Streams
          /\ \A f \in LogFields : u[f] = s[f]
      BY <1>9, <3>1 DEF Formed, SessionFields, LogFields
    <3>3. ses' = u
      BY <1>3, <2>2
    <3> HIDE DEF u
    <3>4. QED  BY <1>1, <3>1, <3>2, <3>3, BookedAside
  <2>3. QED  BY <2>1, <2>2
<1>7. "yielded" \in Idle
  BY DEF Idle
<1>8. QED  BY <1>3, <1>6, <1>7, TakeEvents DEF HandleOutput

\* What was waiting at the head of the queue.
LEMMA HeadSays ==
  ASSUME SessionInv, EventsInv, NEW kind, Take(kind)
  PROVE  /\ queue \in Seq(Observations) /\ queue # << >> /\ queue' = Tail(queue)
         /\ Head(queue) = queue[1] /\ 1 \in 1 .. Len(queue) /\ queue[1].kind = kind
         /\ Means(kind, ses, proc, world)
         /\ coord \in {"take", "waiting"} /\ ~Delivered(ses.order)
<1>1. /\ queue # << >> /\ queue' = Tail(queue) /\ Head(queue).kind = kind
      /\ coord \in {"take", "waiting"}
  BY DEF Take
<1>2. queue \in Seq(Observations)
  BY EventsTypes
<1>3. Head(queue) = queue[1] /\ 1 \in 1 .. Len(queue)
  BY <1>1, <1>2
<1>4. Means(queue[1].kind, ses, proc, world) /\ ~Delivered(ses.order)
  BY <1>1, <1>3 DEF EventsInv, Reported, Timely
<1>5. QED  BY <1>1, <1>2, <1>3, <1>4

\* The exit of the child and the deadline of its output.
LEMMA ExitEvents ==
  ASSUME SessionInv, EventsInv, HandleExit \/ HandleDrain
  PROVE  EventsInv'
<1>1. Formed(ses) /\ Followed(ses)
  BY EventsTypes DEF EventsInv
<1>2. Booked(ses, ses) /\ "yielded" \in Idle
  BY <1>1, BookedReflexive DEF Idle
<1>3. CASE HandleExit
  <2>1. /\ Take("EXIT") /\ ses' = (IF ses.child THEN RecordExit(ses, proc) ELSE ses)
        /\ coord' = "yielded" /\ UNCHANGED <<task, control, proc, world>>
    BY <1>3 DEF HandleExit, Goto
  <2>2. ASSUME ses.child  PROVE Booked(ses, RecordExit(ses, proc))
    <3>1. proc.state # "running"
      BY <2>1, Takes
    <3>2. Core(ses, world) /\ Supervised(ses, proc, world)
      BY DEF SessionInv
    <3>3. ses.lc.phase # "Closed"
      BY <2>1 DEF Take, SessionInv, Placed, Working
    <3>4. Core(RecordExit(ses, proc), world)
      BY <2>2, <3>1, <3>2, <3>3, ExitKeeps
    <3>5. Formed(RecordExit(ses, proc))
      BY <3>4 DEF Core
    <3>6. QED  BY <1>1, <3>5, ExitCarries DEF Booked
  <2>3. Booked(ses, ses')
    BY <1>2, <2>1, <2>2
  <2>4. QED  BY <1>2, <2>1, <2>3, TakeEvents
<1>4. CASE HandleDrain
  <2> DEFINE s == CleanupFails(ses)
             t == [s EXCEPT !.finished = world.streams]
  <2>1. /\ Take("DRAIN") /\ ses' \in {ses, t} /\ coord' = "yielded"
        /\ UNCHANGED <<task, control, proc, world>>
    BY <1>4 DEF HandleDrain, Goto
  <2>2. Booked(ses, s) /\ Formed(s)
    BY <1>1, <1>2, BookedFails DEF Booked
  <2>6. world.streams \subseteq Streams
    BY SessionConstants DEF SessionInv, World
  <2> HIDE DEF s
  <2>3. /\ DOMAIN t = SessionFields /\ t.lc = s.lc /\ t.failures = s.failures
        /\ t.finished \subseteq Streams
        /\ \A f \in LogFields : t[f] = s[f]
    BY <2>2, <2>6 DEF Formed, SessionFields, LogFields
  <2> HIDE DEF t
  <2>4. Booked(ses, t)
    BY <1>1, <2>2, <2>3, BookedAside
  <2>5. QED  BY <1>2, <2>1, <2>4, TakeEvents
<1>5. QED  BY <1>3, <1>4

\* The log is decided when its drain took too long.
LEMMA LogDeadlineEvents ==
  ASSUME SessionInv, EventsInv, HandleLogDeadline
  PROVE  EventsInv'
<1>1. Formed(ses) /\ Followed(ses) /\ "yielded" \in Idle
  BY EventsTypes DEF EventsInv, Idle
<1> DEFINE relay == Relay!Decide(ses.relay, TRUE, TRUE)
<1>2. /\ Take("LOGDEADLINE") /\ ses' = [ses EXCEPT !.relay = relay]
      /\ coord' = "yielded" /\ UNCHANGED <<task, control, proc, world>>
  BY DEF HandleLogDeadline, Goto
<1>3. ses.logOpen /\ Ended(ses.lc)
  BY <1>2, HeadSays DEF Means
<1>4. RelaySound(ses.relay)
  BY <1>1 DEF Followed
<1>12. \A deadline, childAcquired :
         LET m == Relay!Decide(ses.relay, deadline, childAcquired) IN
         /\ RelaySound(m) /\ m.decision # "none" /\ m.buffer = << >>
         /\ m.eof = ses.relay.eof /\ m.final = ses.relay.final
         /\ m.admitted = ses.relay.admitted
         /\ ses.relay.decision # "none" => m = ses.relay
         /\ ses.relay.decision = "none" /\ m.decision = "complete" =>
              /\ Unspoilt(ses.relay) /\ (childAcquired => ses.relay.eof /\ ses.relay.disposed)
              /\ deadline => ses.relay.buffer = << >>
  BY <1>4, LogDecides
<1> HIDE DEF relay
<1>5. /\ RelaySound(relay) /\ relay.decision # "none" /\ relay.buffer = << >>
      /\ relay.eof = ses.relay.eof /\ relay.final = ses.relay.final
      /\ relay.admitted = ses.relay.admitted
      /\ ses.relay.decision # "none" => relay = ses.relay
      /\ ses.relay.decision = "none" /\ relay.decision = "complete" =>
           /\ Unspoilt(ses.relay) /\ (TRUE => ses.relay.eof /\ ses.relay.disposed)
           /\ TRUE => ses.relay.buffer = << >>
  BY <1>12, Zenon DEF relay
<1>6. ses.relay.admitted \in Nat
  BY <1>4 DEF RelaySound, Relays
<1>7. ses.relay.buffer = << >> => Kept(ses.relay) = ses.relay.admitted
  BY <1>6 DEF Kept
<1>8. Passed(ses.relay, relay)
  BY <1>5, <1>7 DEF Passed, Unspoilt
<1>9. Carried(ses, [ses EXCEPT !.relay = relay])
  BY <1>1, <1>3, <1>5, <1>8, CarriedRelay DEF Followed
<1>10. Formed(ses')
  BY <1>1, <1>2, RelayTurns DEF Noted
<1>11. QED  BY <1>1, <1>2, <1>9, <1>10, TakeEvents DEF Booked

\* The group is gone, or given up.
LEMMA CleanedEvents ==
  ASSUME SessionInv, EventsInv, HandleCleaned
  PROVE  EventsInv'
<1>1. Formed(ses) /\ Followed(ses) /\ "yielded" \in Idle
  BY EventsTypes DEF EventsInv, Idle
<1>2. PICK admits \in Admissions :
        LET stored == [ses EXCEPT !.cleanup = "cleaned"]
            failed == IF proc.disposed THEN stored ELSE CleanupFails(stored)
        IN  Goto(LogDisposal(failed, proc.disposed, admits), "yielded")
  BY DEF HandleCleaned
<1> DEFINE stored == [ses EXCEPT !.cleanup = "cleaned"]
           failed == IF proc.disposed THEN stored ELSE CleanupFails(stored)
           t      == LogDisposal(failed, proc.disposed, admits)
<1>3. ses' = t /\ coord' = "yielded"
  BY <1>2 DEF Goto
<1>4. /\ Take("CLEANED") /\ UNCHANGED <<control, proc, world>>
      /\ task' = [x \in Tasks |->
                   IF x = "drain" /\ ses.finished # world.streams THEN "on"
                   ELSE IF x = "log" /\ ~proc.disposed /\ ses.relay.decision = "none"
                   THEN "done" ELSE task[x]]
  BY DEF HandleCleaned
<1>5. ses.acquisition = "child"
  <2>1. ses.cleanup = "running"
    BY <1>4, Takes
  <2>2. QED  BY <2>1 DEF SessionInv, Core, Staged
<1>6. Booked(ses, ses)
  BY <1>1, BookedReflexive
<1>7. Booked(ses, stored)
  <2>1. /\ DOMAIN stored = SessionFields /\ stored.lc = ses.lc
        /\ stored.finished \subseteq Streams
        /\ stored.failures = ses.failures /\ \A f \in LogFields : stored[f] = ses[f]
    BY <1>1 DEF Formed, SessionFields, LogFields
  <2> HIDE DEF stored
  <2>2. QED  BY <1>1, <1>6, <2>1, BookedAside
<1> HIDE DEF stored
<1>8. Booked(ses, failed)
  BY <1>1, <1>7, BookedFails
<1> HIDE DEF failed
<1>9. /\ Formed(failed) /\ Followed(failed) /\ failed.acquisition # "none"
      /\ failed.logOpen = ses.logOpen
  BY <1>5, <1>8 DEF Booked, Carried
<1>10. Carried(failed, t) /\ (failed.logOpen /\ ~proc.disposed => ~Unspoilt(t.relay))
  BY <1>9, LogDisposalCarries
<1>11. Formed(t)
  BY <1>9, LogDisposes DEF Noted
<1> HIDE DEF t
<1>12. Booked(ses, ses')
  BY <1>1, <1>3, <1>8, <1>10, <1>11, BookedTransitive DEF Booked
<1>13. /\ queue # << >> /\ queue' = Tail(queue) /\ Head(queue).kind # "LOG"
       /\ coord \in {"take", "waiting"}
  BY <1>4, HeadSays
<1>14. "log" \in Tasks /\ "log deadline" \in Tasks /\ task \in [Tasks -> TaskStates]
  BY EventsTypes
<1>15. Softer(ses', task, task')
  BY <1>4, <1>14 DEF Softer
<1>16. task'["log"] = task["log"] \/ ~Unspoilt(ses'.relay) \/ ~ses.logOpen
  BY <1>3, <1>4, <1>9, <1>10, <1>14
<1>17. Calmer(ses, proc, proc') /\ Fewer(queue, queue')
  BY <1>4, <1>13 DEF Calmer, Fewer
<1>18. QED  BY <1>1, <1>3, <1>4, <1>12, <1>13, <1>15, <1>16, <1>17, CoordinatorEvents

\* The relay took something in, and hands on what it can.
LEMMA RelayedEvents ==
  ASSUME SessionInv, EventsInv, NEW kind, Take(kind), NEW relay, NEW taken,
         taken = [ses EXCEPT !.relay = relay], Followed(taken),
         relay.decision = ses.relay.decision,
         Reported(taken, proc, task, Tail(queue), world),
         Counted(taken, proc, task, Tail(queue)), NEW admits,
         ses' = LogProgress(taken, admits), coord' = "yielded",
         UNCHANGED <<task, control, proc, world>>
  PROVE  EventsInv'
<1>1. Formed(ses) /\ Formed(taken)
  BY EventsTypes, RelayTurns DEF Noted
<1>2. Sensible(ses, control, world)
  BY DEF EventsInv
<1>3. /\ taken.order = ses.order /\ taken.lc = ses.lc /\ taken.logOpen = ses.logOpen
      /\ taken.started = ses.started
  BY <1>1 DEF Formed, SessionFields
<1>4. Sensible(taken, control, world)
  BY <1>2, <1>3 DEF Sensible, Asked
<1>5. /\ queue \in Seq(Observations) /\ queue # << >> /\ queue' = Tail(queue)
      /\ ~Delivered(ses.order)
  BY HeadSays
<1>6. Timely(taken, "yielded")
  BY <1>3, <1>5 DEF Timely, Ending, Late
<1>7. Carried(taken, ses')
  BY <1>1, LogProgressCarries
<1>8. Sensible(ses', control', world) /\ Timely(ses', coord')
  BY <1>4, <1>6, <1>7, SensibleOn, TimelyOn
<1>9. Calmer(taken, proc, proc') /\ queue' \in Seq(Observations)
  BY <1>5 DEF Calmer
<1>10. Firmer(taken, proc, ses', proc', world)
  BY <1>7, <1>9, FirmerOn
<1>11. Fewer(queue', queue') /\ Softer(ses', task, task')
  BY DEF Fewer, Softer
<1>12. /\ ses'.relay.eof = taken.relay.eof /\ Passed(taken.relay, ses'.relay)
       /\ ses'.acquisition = taken.acquisition /\ ses'.logOpen = taken.logOpen
       /\ Followed(ses')
  BY <1>7 DEF Carried, Passed
<1>13. Reported(taken, proc, task, queue', world) /\ Counted(taken, proc, task, queue')
  BY <1>5
<1>14. Reported(ses', proc', task', queue', world)
  BY <1>9, <1>10, <1>11, <1>12, <1>13, ReportedOn
<1>15. Counted(ses', proc', task', queue')
  BY <1>9, <1>11, <1>12, <1>13, CountedOn
<1>16. QED  BY <1>8, <1>12, <1>14, <1>15 DEF EventsInv

\* A byte for the relay.
LEMMA LogByteEvents ==
  ASSUME SessionInv, EventsInv, Take("LOG"), NEW admits, NEW taken,
         taken = [ses EXCEPT !.relay = Relay!Accept(ses.relay, <<"b">>)],
         ses' = LogProgress(taken, admits), coord' = "yielded",
         UNCHANGED <<task, control, proc, world>>
  PROVE  EventsInv'
<1> DEFINE relay == Relay!Accept(ses.relay, <<"b">>)
<1>1. /\ queue \in Seq(Observations) /\ queue # << >> /\ Head(queue) = queue[1]
      /\ 1 \in 1 .. Len(queue) /\ queue[1].kind = "LOG" /\ ~Delivered(ses.order)
      /\ Means("LOG", ses, proc, world)
  BY HeadSays
<1>2. /\ Formed(ses) /\ Followed(ses) /\ Reported(ses, proc, task, queue, world)
      /\ Counted(ses, proc, task, queue)
  BY EventsTypes DEF EventsInv
<1>3. ses.logOpen /\ ses.acquired /\ ~ses.relay.eof
  BY <1>1, <1>2 DEF Means, Reported
<1>4. /\ RelaySound(relay) /\ relay.eof = ses.relay.eof /\ relay.final = ses.relay.final
      /\ relay.admitted = ses.relay.admitted /\ relay.decision = ses.relay.decision
      /\ Unspoilt(relay) => Unspoilt(ses.relay) /\ Kept(relay) = Kept(ses.relay) + 1
  BY <1>2, ByteAccepted DEF Followed
<1> HIDE DEF relay
<1>5. /\ taken.relay = relay /\ taken.order = ses.order /\ taken.lc = ses.lc
      /\ taken.logOpen = ses.logOpen /\ taken.started = ses.started
      /\ taken.acquired = ses.acquired /\ taken.acquisition = ses.acquisition
      /\ taken.drainStarted = ses.drainStarted
  BY <1>2 DEF Formed, SessionFields, relay
<1>6. Followed(taken)
  BY <1>1, <1>2, <1>3, <1>4, <1>5 DEF Followed
<1>7. Firmer(ses, proc, taken, proc, world)
  BY <1>5 DEF Firmer, Asked
<1>8. Fewer(queue, Tail(queue)) /\ Softer(taken, task, task)
  BY <1>1 DEF Fewer, Softer
<1>9. taken.relay.eof = ses.relay.eof
  BY <1>4, <1>5
<1>10. Reported(taken, proc, task, Tail(queue), world)
  BY <1>1, <1>2, <1>7, <1>8, <1>9, ReportedOn
<1>11. Unspoilt(relay) => Kept(relay) + Pending(Tail(queue), task) = proc.taken
  <2>1. Cardinality(LogItems(queue)) = Cardinality(LogItems(Tail(queue))) + 1
    BY <1>1, LogItemTaken
  <2>2. Tail(queue) \in Seq(Observations)
    BY <1>1
  <2>3. Cardinality(LogItems(Tail(queue))) \in Nat
    BY <2>2, LogItemsCounted
  <2>4. Pending(queue, task) = Pending(Tail(queue), task) + 1
        /\ Pending(Tail(queue), task) \in Nat
    BY <2>1, <2>3 DEF Pending
  <2>5. Unspoilt(ses.relay) => Kept(ses.relay) + Pending(queue, task) = proc.taken
    BY <1>2 DEF Counted
  <2>6. Kept(ses.relay) \in Nat
    <3>1. ses.relay.admitted \in Nat /\ ses.relay.buffer \in Seq({"b"})
      BY <1>2 DEF Followed, RelaySound, Relays
    <3>2. Len(ses.relay.buffer) \in Nat
      BY <3>1
    <3>3. QED  BY <3>1, <3>2 DEF Kept
  <2>7. QED  BY <1>4, <2>4, <2>5, <2>6
<1>12. Counted(taken, proc, task, Tail(queue))
  BY <1>2, <1>3, <1>4, <1>5, <1>11 DEF Counted, Whole
<1>13. taken = [ses EXCEPT !.relay = relay]
  BY DEF relay
<1>14. QED  BY <1>4, <1>6, <1>10, <1>12, <1>13, RelayedEvents

\* Its end.
LEMMA LogEndEvents ==
  ASSUME SessionInv, EventsInv, Take("LOGEOF"), NEW admits, NEW taken,
         taken = [ses EXCEPT !.relay = Relay!AcceptEOF(ses.relay)],
         ses' = LogProgress(taken, admits), coord' = "yielded",
         UNCHANGED <<task, control, proc, world>>
  PROVE  EventsInv'
<1> DEFINE relay == Relay!AcceptEOF(ses.relay)
           rest  == Tail(queue)
<1>1. /\ queue \in Seq(Observations) /\ queue # << >> /\ Head(queue) = queue[1]
      /\ 1 \in 1 .. Len(queue) /\ queue[1].kind = "LOGEOF" /\ ~Delivered(ses.order)
      /\ Means("LOGEOF", ses, proc, world)
  BY HeadSays
<1>2. /\ Formed(ses) /\ Followed(ses) /\ Reported(ses, proc, task, queue, world)
      /\ Counted(ses, proc, task, queue)
  BY EventsTypes DEF EventsInv
<1>3. /\ ses.logOpen /\ ses.acquisition # "none" /\ AtEnd(proc)
      /\ task["log"] \notin Reading
      /\ \A j \in 1 .. Len(queue) : queue[j].kind \in {"LOG", "LOGEOF"} => j <= 1
  BY <1>1, <1>2 DEF Means, Reported
<1>4. /\ RelaySound(relay) /\ relay.eof /\ relay.final /\ relay.buffer = ses.relay.buffer
      /\ relay.admitted = ses.relay.admitted /\ relay.decision = ses.relay.decision
      /\ relay.incomplete = ses.relay.incomplete
  BY <1>2, EndAccepted DEF Followed
<1> HIDE DEF relay
<1>5. /\ taken.relay = relay /\ taken.order = ses.order /\ taken.lc = ses.lc
      /\ taken.logOpen = ses.logOpen /\ taken.started = ses.started
      /\ taken.acquired = ses.acquired /\ taken.acquisition = ses.acquisition
      /\ taken.drainStarted = ses.drainStarted
  BY <1>2 DEF Formed, SessionFields, relay
<1>6. Followed(taken)
  BY <1>1, <1>2, <1>3, <1>4, <1>5 DEF Followed
<1>7. Firmer(ses, proc, taken, proc, world)
  BY <1>5 DEF Firmer, Asked
<1>8. /\ rest \in Seq(Observations) /\ Len(rest) = Len(queue) - 1
      /\ \A i \in 1 .. Len(rest) : i + 1 \in 1 .. Len(queue) /\ rest[i] = queue[i + 1]
  BY <1>1
<1>14. Len(rest) \in Nat
  BY <1>8
<1>15. \A i \in 1 .. Len(rest) : ~(i + 1 <= 1)
  BY <1>14
<1> HIDE DEF rest
<1>9. \A i \in 1 .. Len(rest) : rest[i].kind \notin {"LOG", "LOGEOF"}
  BY <1>3, <1>8, <1>15
<1>16. \A kind : Means(kind, ses, proc, world) => Means(kind, taken, proc, world)
  BY <1>5 DEF Means, Asked
<1>17. /\ \A i \in 1 .. Len(rest) : Means(rest[i].kind, taken, proc, world)
       /\ \A t \in Tasks : /\ Means(task[t], taken, proc, world)
                           /\ task[t] \in {"LOG", "LOGEOF"} => t = "log"
  BY <1>2, <1>8, <1>16 DEF Reported
<1>10. Reported(taken, proc, task, rest, world)
  BY <1>2, <1>3, <1>5, <1>9, <1>17 DEF Reported
<1>11. Pending(rest, task) = Pending(queue, task)
  <2>1. Cardinality(LogItems(queue)) = Cardinality(LogItems(rest)) + 0
    BY <1>1, LogItemTaken DEF rest
  <2>2. Cardinality(LogItems(rest)) \in Nat
    BY <1>8, LogItemsCounted
  <2>3. QED  BY <2>1, <2>2 DEF Pending
<1>18. Unspoilt(relay) => Unspoilt(ses.relay) /\ Kept(relay) = Kept(ses.relay)
  BY <1>4 DEF Unspoilt, Kept
<1>12. Counted(taken, proc, task, rest)
  BY <1>2, <1>3, <1>4, <1>5, <1>11, <1>18 DEF Counted, Whole
<1>13. taken = [ses EXCEPT !.relay = relay]
  BY DEF relay
<1>19. QED  BY <1>4, <1>6, <1>10, <1>12, <1>13, RelayedEvents DEF rest

\* The log's growth and its end.
LEMMA LogEvents ==
  ASSUME SessionInv, EventsInv, HandleLog
  PROVE  EventsInv'
<1>1. PICK admits \in Admissions :
        LET taken == [ses EXCEPT !.relay =
                        CASE Head(queue).kind = "LOG"    -> Relay!Accept(@, <<"b">>)
                          [] Head(queue).kind = "LOGEOF" -> Relay!AcceptEOF(@)
                          [] OTHER                       -> @]
        IN  Goto(LogProgress(taken, admits), "yielded")
  BY DEF HandleLog
<1> DEFINE relay == CASE Head(queue).kind = "LOG"    -> Relay!Accept(ses.relay, <<"b">>)
                      [] Head(queue).kind = "LOGEOF" -> Relay!AcceptEOF(ses.relay)
                      [] OTHER                       -> ses.relay
           taken == [ses EXCEPT !.relay = relay]
<1>2. ses' = LogProgress(taken, admits) /\ coord' = "yielded"
      /\ UNCHANGED <<task, control, proc, world>>
  BY <1>1 DEF Goto, HandleLog
<1>3. CASE Take("LOG")
  <2>1. relay = Relay!Accept(ses.relay, <<"b">>)
    BY <1>3 DEF Take
  <2> HIDE DEF relay
  <2>2. taken = [ses EXCEPT !.relay = Relay!Accept(ses.relay, <<"b">>)]
    BY <2>1
  <2> HIDE DEF taken
  <2>3. QED  BY <1>2, <1>3, <2>2, LogByteEvents
<1>4. CASE Take("LOGEOF")
  <2>1. relay = Relay!AcceptEOF(ses.relay)
    BY <1>4 DEF Take
  <2> HIDE DEF relay
  <2>2. taken = [ses EXCEPT !.relay = Relay!AcceptEOF(ses.relay)]
    BY <2>1
  <2> HIDE DEF taken
  <2>3. QED  BY <1>2, <1>4, <2>2, LogEndEvents
<1>5. CASE Take("LOGCREDIT") \/ Take("LOGSTOPPED")
  <2>1. relay = ses.relay
    BY <1>5 DEF Take
  <2>2. Formed(ses) /\ Followed(ses)
    BY EventsTypes DEF EventsInv
  <2> HIDE DEF relay
  <2>3. /\ Formed(taken) /\ taken.lc = ses.lc
        /\ \A f \in LogFields : taken[f] = ses[f]
    BY <2>1, <2>2, RelayTurns DEF Formed, SessionFields, LogFields, Noted
  <2> HIDE DEF taken
  <2>7. Carried(ses, taken)
    BY <2>2, <2>3, CarriedAside DEF Onward
  <2>8. Followed(taken)
    BY <2>7 DEF Carried
  <2>9. Carried(taken, ses') /\ Formed(ses')
    BY <1>2, <2>3, <2>8, LogProgressCarries, LogProgresses DEF Noted
  <2>4. Carried(ses, ses')
    BY <2>2, <2>7, <2>9, CarriedTransitive DEF Followed
  <2>5. "yielded" \in Idle
    BY DEF Idle
  <2>6. QED  BY <1>2, <1>5, <2>4, <2>5, <2>9, TakeEvents DEF Booked
<1>6. QED  BY <1>3, <1>4, <1>5 DEF HandleLog

----------------------------------------------------------------------------
\* The start of the attempt

\* A step that makes one change, and then leaves the log and the attempt alone.
LEMMA EventsFrom ==
  ASSUME NEW s, NEW tk, NEW q \in Seq(Observations), Followed(s),
         Reported(s, proc', tk, q, world), Counted(s, proc', tk, q),
         Followed(ses'), ses'.acquisition = s.acquisition, ses'.logOpen = s.logOpen,
         Passed(s.relay, ses'.relay), Firmer(s, proc', ses', proc', world),
         Timely(ses', coord'), Sensible(ses', control', world'), world' = world,
         Fewer(q, queue'), Softer(ses', tk, task'),
         \/ ~Unspoilt(ses'.relay) \/ ~s.logOpen
         \/ /\ task'["log"] = tk["log"]
            /\ queue' = q \/ (q # << >> /\ queue' = Tail(q) /\ Head(q).kind # "LOG")
  PROVE  EventsInv'
<1>1. ses'.relay.eof = s.relay.eof
  BY DEF Passed
<1>2. Calmer(s, proc', proc')
  BY DEF Calmer
<1>3. Reported(ses', proc', task', queue', world)
  BY <1>1, ReportedOn
<1>4. Counted(ses', proc', task', queue')
  BY <1>2, CountedOn
<1>5. QED  BY <1>3, <1>4 DEF EventsInv

\* A step that makes one change, and the rest is bookkeeping.
LEMMA EventsCarried ==
  ASSUME NEW s, NEW tk, NEW q \in Seq(Observations), Followed(s), ~Delivered(s.order),
         Sensible(s, control', world), Reported(s, proc', tk, q, world),
         Counted(s, proc', tk, q), Carried(s, ses'), coord' \in Idle, world' = world,
         Fewer(q, queue'), Softer(ses', tk, task'),
         \/ ~Unspoilt(ses'.relay) \/ ~s.logOpen
         \/ /\ task'["log"] = tk["log"]
            /\ queue' = q \/ (q # << >> /\ queue' = Tail(q) /\ Head(q).kind # "LOG")
  PROVE  EventsInv'
<1>1. Calmer(s, proc', proc')
  BY DEF Calmer
<1>2. Firmer(s, proc', ses', proc', world)
  BY <1>1, FirmerOn
<1>3. Timely(s, "yielded")
  BY DEF Timely, Ending, Late
<1>4. Timely(ses', coord')
  BY <1>3, TimelyIdle
<1>5. Sensible(ses', control', world')
  BY SensibleOn
<1>6. /\ Followed(ses') /\ ses'.acquisition = s.acquisition /\ ses'.logOpen = s.logOpen
      /\ Passed(s.relay, ses'.relay)
  BY DEF Carried
<1>7. QED  BY <1>2, <1>4, <1>5, <1>6, EventsFrom

\* The session is announced, or the client cannot be told of it.
LEMMA AnnounceEvents ==
  ASSUME SessionInv, EventsInv, Announce
  PROVE  EventsInv'
<1>1. /\ Formed(ses) /\ queue \in Seq(Observations) /\ Followed(ses) /\ Timely(ses, coord)
      /\ Sensible(ses, control, world) /\ Reported(ses, proc, task, queue, world)
      /\ Counted(ses, proc, task, queue)
  BY EventsTypes DEF EventsInv
<1>2. /\ coord = "boot" /\ coord' = "loop" /\ UNCHANGED <<queue, task, control, proc, world>>
      /\ \/ ses' = [ses EXCEPT !.order = Order!SessionCreated(@)]
         \/ ses' = Stop(ses, "output_failure", "SESSION_CREATED_ADMISSION")
  BY DEF Announce, Goto
<1>3. Calmer(ses, proc, proc') /\ Fewer(queue, queue') /\ Softer(ses', task, task')
  BY <1>2 DEF Calmer, Fewer, Softer
<1>4. CASE ses' = [ses EXCEPT !.order = Order!SessionCreated(@)]
  <2> DEFINE order == Order!SessionCreated(ses.order)
  <2>1. ~ses.order.created /\ ~Delivered(ses.order) /\ ses.order \in Orders
    BY <1>1, <1>2 DEF Timely, Followed
  <2>2. order = [ses.order EXCEPT !.created = TRUE]
    BY <2>1 DEF Order!SessionCreated, Order!Judge, Order!InSession, Delivered
  <2>3. ses' = [ses EXCEPT !.order = order]
    BY <1>4
  <2> HIDE DEF order
  <2>4. /\ order \in Orders /\ order.created /\ ~Delivered(order)
        /\ order.policy = ses.order.policy /\ order.logRequested = ses.order.logRequested
        /\ order.attempted = ses.order.attempted /\ order.ready = ses.order.ready
        /\ order.output = ses.order.output /\ order.bytes = ses.order.bytes
    BY <2>1, <2>2 DEF Orders, Delivered
  <2>5. /\ ses'.order = order /\ ses'.lc = ses.lc /\ ses'.relay = ses.relay
        /\ ses'.logOpen = ses.logOpen /\ ses'.started = ses.started
        /\ ses'.acquired = ses.acquired /\ ses'.acquisition = ses.acquisition
        /\ ses'.drainStarted = ses.drainStarted
    BY <1>1, <2>3 DEF Formed, SessionFields
  <2>6. Followed(ses')
    BY <1>1, <2>4, <2>5 DEF Followed
  <2>7. Sensible(ses', control', world)
    BY <1>1, <1>2, <2>4, <2>5 DEF Sensible, Asked
  <2>8. Timely(ses', coord')
    BY <1>2, <2>4, <2>5 DEF Timely, Ending, Late
  <2>9. Firmer(ses, proc, ses', proc', world) /\ Passed(ses.relay, ses'.relay)
    BY <1>2, <2>4, <2>5 DEF Firmer, Asked, Passed
  <2>10. QED  BY <1>1, <1>2, <1>3, <2>5, <2>6, <2>7, <2>8, <2>9, EventsMove
<1>5. CASE ses' = Stop(ses, "output_failure", "SESSION_CREATED_ADMISSION")
  <2>1. "output_failure" \in Triggers /\ "SESSION_CREATED_ADMISSION" \in SessionFailures
    BY DEF Triggers, SessionFailures
  <2>2. Booked(ses, ses')
    BY <1>1, <1>5, <2>1, BookedReflexive, BookedStops
  <2>3. coord \notin {"draining", "exiting", "exited"} /\ coord' \in Idle
    BY <1>2 DEF Idle
  <2>4. QED  BY <1>2, <1>3, <2>2, <2>3, CoordinatorEvents
<1>6. QED  BY <1>2, <1>4, <1>5

\* START begins the attempt that the client told its EventOrder of.
LEMMA StartEvents ==
  ASSUME SessionInv, EventsInv, HandleStart
  PROVE  EventsInv'
<1>1. PICK admits \in Admissions, refused \in May("startup"), invalid \in May("startup") :
        LET s == Account(ses, admits)
            b == [s EXCEPT !.started = TRUE,
                           !.lc = Start(@, want.policy, want.required),
                           !.address = ~refused]
        IN  IF s.lc.phase # "Created" THEN Goto(s, "yielded")
            ELSE IF refused \/ invalid
            THEN Goto(Stop(b, "startup_failure", "STARTUP_FAILURE"), "yielded")
            ELSE Goto(b, "entries")
  BY DEF HandleStart
<1>2. Take("START") /\ UNCHANGED <<task, control, proc, world>>
  BY DEF HandleStart
<1> DEFINE s == Account(ses, admits)
           b == [s EXCEPT !.started = TRUE, !.lc = Start(s.lc, want.policy, want.required),
                          !.address = ~refused]
           f == Stop(b, "startup_failure", "STARTUP_FAILURE")
<1>3. IF s.lc.phase # "Created" THEN ses' = s /\ coord' = "yielded"
      ELSE IF refused \/ invalid THEN ses' = f /\ coord' = "yielded"
      ELSE ses' = b /\ coord' = "entries"
  BY <1>1 DEF Goto
<1>4. Booked(ses, s) /\ Followed(ses) /\ Formed(s)
  BY BookedAccounts DEF Booked
<1> HIDE DEF s
<1>5. /\ Carried(ses, s) /\ Followed(s) /\ Onward(ses.lc, s.lc)
      /\ s.logOpen = ses.logOpen /\ s.acquisition = ses.acquisition
      /\ s.started = ses.started /\ s.acquired = ses.acquired
  BY <1>4 DEF Booked, Carried
<1>6. CASE s.lc.phase # "Created"
  <2>1. "yielded" \in Idle
    BY DEF Idle
  <2>2. QED  BY <1>2, <1>3, <1>4, <1>6, <2>1, TakeEvents
<1>7. CASE s.lc.phase = "Created"
  <2>1. /\ queue \in Seq(Observations) /\ queue # << >> /\ queue' = Tail(queue)
        /\ Head(queue) = queue[1] /\ queue[1].kind = "START" /\ ~Delivered(ses.order)
        /\ Asked(ses, world)
    BY <1>2, HeadSays DEF Means
  <2>2. /\ Sensible(ses, control, world) /\ Reported(ses, proc, task, queue, world)
        /\ Counted(ses, proc, task, queue)
    BY DEF EventsInv
  <2>3. /\ s.order.created = ses.order.created /\ s.order.policy = ses.order.policy
        /\ s.order.logRequested = ses.order.logRequested
        /\ s.order.attempted = ses.order.attempted
        /\ s.order.ready = ses.order.ready
        /\ s.order.ended = ses.order.ended /\ s.order.fault = ses.order.fault
    BY <1>4, <1>5 DEF Carried, Followed, Orders
  <2>4. /\ Asked(s, world) /\ ~Delivered(s.order)
    BY <2>1, <2>3 DEF Asked, Delivered
  <2>5. ses.lc.phase = "Created"
    BY <1>5, <1>7 DEF Onward
  <2>6. ~s.order.attempted /\ ~s.logOpen
    BY <1>5, <2>2, <2>3, <2>5 DEF Sensible
  <2>7. /\ s.acquisition = "none" /\ ~s.acquired /\ ~s.order.ready /\ ~s.order.output
        /\ s.relay = Relay!Opened /\ ~s.drainStarted
    BY <1>5, <2>6 DEF Followed
  <2>8. s.lc \in Lifecycles /\ world.request.policy \in Policies
    BY <1>4, SessionConstants DEF Formed, LcSound, SessionInv, World
  <2> DEFINE m == Start(s.lc, want.policy, want.required)
  <2>9. /\ m.phase = "Starting" /\ m.policy = world.request.policy
        /\ m.log = s.lc.log /\ m.cleanup = s.lc.cleanup
    BY <2>8 DEF Start, Lifecycles, want
  <2>10. /\ DOMAIN b = SessionFields /\ b.lc = m /\ b.started = TRUE
         /\ \A g \in SessionFields \ {"lc", "started", "address"} : b[g] = s[g]
    BY <1>4 DEF Formed, SessionFields
  <2> HIDE DEF b, m
  <2>11. /\ b.order = s.order /\ b.relay = s.relay /\ b.logOpen = s.logOpen
         /\ b.acquired = s.acquired /\ b.acquisition = s.acquisition
         /\ b.drainStarted = s.drainStarted /\ b.failures = s.failures
         /\ b.finished = s.finished
    BY <2>10 DEF SessionFields
  <2>12. Followed(b)
    <3>1. Relay!Opened.decision = "none"
      BY DEF Relay!Opened
    <3>2. QED  BY <1>5, <2>7, <2>11, <3>1 DEF Followed
  <2>13. Sensible(b, control, world)
    BY <2>4, <2>6, <2>7, <2>9, <2>10, <2>11 DEF Sensible, Asked
  <2>14. ~Delivered(b.order)
    BY <2>4, <2>11
  <2>15. Firmer(ses, proc, b, proc, world)
    <3>1. Asked(b, world)
      BY <2>4, <2>11 DEF Asked
    <3>2. ~Ended(ses.lc)
      BY <2>5 DEF Ended
    <3>3. b.logOpen = ses.logOpen /\ b.acquired = ses.acquired /\ b.acquisition = ses.acquisition
      BY <1>5, <2>11
    <3>4. QED  BY <3>1, <3>2, <3>3 DEF Firmer
  <2>16. Passed(ses.relay, b.relay)
    BY <1>5, <2>11 DEF Carried
  <2>17. Fewer(queue, queue') /\ Softer(b, task, task) /\ Calmer(ses, proc, proc)
    BY <2>1 DEF Fewer, Softer, Calmer
  <2>18. b.relay.eof = ses.relay.eof
    BY <2>16 DEF Passed
  <2>19. Reported(b, proc, task, queue', world)
    BY <2>1, <2>2, <2>15, <2>17, <2>18, ReportedOn
  <2>24. ~ses.logOpen
    BY <1>5, <2>6
  <2>25. b.acquisition = ses.acquisition /\ b.logOpen = ses.logOpen
    BY <1>5, <2>11
  <2>20. Counted(b, proc, task, queue')
    BY <1>4, <2>1, <2>2, <2>16, <2>17, <2>24, <2>25, CountedOn
  <2>21. CASE refused \/ invalid
    <3>1. ses' = f /\ coord' = "yielded"
      BY <1>3, <1>7, <2>21
    <3>2. Formed(b)
      <4>1. LcSound(m)
        <5>1. LcSound(s.lc) /\ want.policy \in Policies /\ want.required \in SUBSET Evidence
          BY <1>4, SessionConstants DEF Formed, SessionInv, World, want
        <5>2. QED  BY <1>7, <5>1, Starts DEF m
      <4>2. QED  BY <1>4, <2>10, <2>11, <4>1 DEF Formed
    <3>3. "startup_failure" \in Triggers /\ "STARTUP_FAILURE" \in Failures
      BY SessionConstants DEF Triggers, SessionFailures
    <3>4. Carried(b, ses')
      BY <2>12, <3>1, <3>2, <3>3, StopCarries
    <3>5. "yielded" \in Idle /\ Fewer(queue', queue') /\ Softer(ses', task, task')
          /\ queue' \in Seq(Observations)
      BY <1>2, <2>1 DEF Idle, Fewer, Softer
    <3>6. ~b.logOpen
      BY <2>6, <2>11
    <3> HIDE DEF f
    <3>7. /\ Reported(b, proc', task, queue', world) /\ Counted(b, proc', task, queue')
          /\ Sensible(b, control', world) /\ world' = world
      BY <1>2, <2>13, <2>19, <2>20
    <3>8. QED  BY <2>12, <2>14, <3>1, <3>4, <3>5, <3>6, <3>7, EventsCarried
  <2>22. CASE ~(refused \/ invalid)
    <3>1. ses' = b /\ coord' = "entries"
      BY <1>3, <1>7, <2>22
    <3>2. Timely(b, "entries")
      BY <2>6, <2>11, <2>14 DEF Timely, Ending, Late
    <3>3. Reported(b, proc', task', queue', world') /\ Counted(b, proc', task', queue')
          /\ Sensible(b, control', world')
      BY <1>2, <2>13, <2>19, <2>20
    <3>4. QED  BY <2>12, <3>1, <3>2, <3>3 DEF EventsInv
  <2>23. QED  BY <2>21, <2>22
<1>8. QED  BY <1>6, <1>7

\* What can be told, while nothing was told of the attempt, where the entries are made.
LEMMA LogOpens ==
  ASSUME SessionInv, EventsInv, coord = "entries", UNCHANGED <<queue, control, proc, world>>,
         NEW fails \in BOOLEAN, NEW s, s.lc = ses.lc, s.logOpen = (want.log /\ ~fails),
         \A f \in LogFields \ {"logOpen"} : s[f] = ses[f],
         task' = IF s.logOpen THEN Started({"log", "credit"}) ELSE task
  PROVE  /\ Followed(s) /\ Sensible(s, control', world) /\ ~Delivered(s.order)
         /\ s.order.created /\ ~s.order.attempted /\ s.lc.phase = "Starting"
         /\ Reported(s, proc', task', queue', world) /\ Counted(s, proc', task', queue')
<1>1. /\ queue \in Seq(Observations) /\ task \in [Tasks -> TaskStates] /\ "log" \in Tasks
      /\ "log deadline" \in Tasks /\ ses.lc.phase = "Starting"
  BY EventsTypes DEF SessionInv, Placed
<1>2. /\ Followed(ses) /\ Sensible(ses, control, world) /\ Timely(ses, coord)
      /\ Reported(ses, proc, task, queue, world) /\ Counted(ses, proc, task, queue)
  BY DEF EventsInv
<1>3. /\ ~ses.order.attempted /\ ~ses.logOpen /\ ~Delivered(ses.order) /\ ses.started
      /\ Asked(ses, world)
  BY <1>1, <1>2 DEF Timely, Sensible
<1>4. /\ s.order = ses.order /\ s.relay = ses.relay /\ s.started = ses.started
      /\ s.acquired = ses.acquired /\ s.acquisition = ses.acquisition
      /\ s.drainStarted = ses.drainStarted
  BY DEF LogFields
<1>5. /\ ses.relay = Relay!Opened /\ ~ses.drainStarted
      /\ s.logOpen => world.request.log /\ ses.order.logRequested
  BY <1>2, <1>3 DEF Followed, Asked, want
<1>6. Followed(s)
  BY <1>2, <1>4, <1>5 DEF Followed
<1>7. Sensible(s, control', world)
  BY <1>1, <1>2, <1>3, <1>4, <1>5 DEF Sensible, Asked
<1>8. /\ Relay!Opened.eof = FALSE /\ Relay!Opened.admitted = 0
      /\ Relay!Opened.buffer = << >> /\ Relay!Opened.decision = "none"
  BY DEF Relay!Opened
<1>9. /\ \A i \in 1 .. Len(queue) : queue[i].kind \notin {"LOG", "LOGEOF", "LOGDEADLINE"}
      /\ \A t \in Tasks : task[t] \notin {"LOG", "LOGEOF", "LOGDEADLINE"}
      /\ task["log"] \notin Reading /\ task["log deadline"] \in {"off", "done"}
  BY <1>2, <1>3 DEF Reported, Means
<1>10. /\ \A t \in Tasks : task'[t] = task[t] \/ (s.logOpen /\ t \in {"log", "credit"}
                                                  /\ task'[t] = "on")
       /\ task'["log deadline"] = task["log deadline"]
  BY <1>1 DEF Started
<1>11. \A kind : Means(kind, ses, proc, world) /\ kind \notin {"LOG", "LOGEOF", "LOGDEADLINE"}
                   => Means(kind, s, proc, world)
  BY <1>4 DEF Means, Asked
<1>12. Means("on", s, proc, world)
  BY DEF Means
<1>13. \A t \in Tasks : /\ task'[t] \notin {"LOG", "LOGEOF", "LOGDEADLINE"}
                        /\ Means(task'[t], s, proc, world)
  <2>1. \A t \in Tasks : Means(task[t], ses, proc, world)
    BY <1>2 DEF Reported
  <2>2. QED  BY <1>9, <1>10, <1>11, <1>12, <2>1
<1>14. \A i \in 1 .. Len(queue) : Means(queue[i].kind, s, proc, world)
  BY <1>2, <1>9, <1>11 DEF Reported
<1>15. /\ task'["log"] \in Reading \cup {"off", "done", "FAIL", "LOGSTOPPED"}
       /\ task'["log"] \in Reading => s.logOpen
  BY <1>1, <1>2, <1>9, <1>10 DEF Reported, Reading
<1>16. Reported(s, proc', task', queue', world)
  <2>1. queue' = queue /\ proc' = proc /\ s.relay.eof = FALSE
    BY <1>1, <1>4, <1>5, <1>8
  <2>2. \A i \in 1 .. Len(queue') : Means(queue'[i].kind, s, proc', world)
    BY <1>14, <2>1
  <2>3. \A t \in Tasks : /\ Means(task'[t], s, proc', world)
                         /\ task'[t] \in {"LOG", "LOGEOF"} => t = "log"
    BY <1>13, <2>1
  <2>4. task'["log deadline"] \notin {"off", "done"} => s.logOpen /\ Ended(s.lc)
    BY <1>9, <1>10
  <2>5. \A i \in 1 .. Len(queue') : queue'[i].kind # "LOGEOF"
    BY <1>9, <2>1
  <2>6. QED  BY <1>15, <2>1, <2>2, <2>3, <2>4, <2>5 DEF Reported
<1>17. Pending(queue', task') = 0
  <2>1. Cardinality(LogItems(queue)) = 0
    BY <1>9, NoLogItems
  <2>2. task'["log"] # "LOG"
    BY <1>1, <1>13
  <2>3. QED  BY <2>1, <2>2 DEF Pending
<1>18. Kept(s.relay) = 0
  <2>1. Len(<< >>) = 0
    OBVIOUS
  <2>2. QED  BY <1>4, <1>5, <1>8, <2>1 DEF Kept
<1>19. proc.taken = 0
  BY <1>2, <1>3 DEF Counted
<1>20. Counted(s, proc', task', queue')
  <2>1. Kept(s.relay) + Pending(queue', task') = proc.taken
    BY <1>17, <1>18, <1>19
  <2>2. s.relay.decision = "none" /\ ~s.relay.eof
    BY <1>4, <1>5, <1>8
  <2>3. QED  BY <1>2, <1>4, <1>19, <2>1, <2>2 DEF Counted
<1>21. QED  BY <1>1, <1>3, <1>4, <1>6, <1>7, <1>16, <1>20 DEF Asked

\* The client is told of the attempt once the entries are there.
LEMMA EntriesEvents ==
  ASSUME SessionInv, EventsInv, CreateEntries
  PROVE  EventsInv'
<1>1. PICK admits \in Admissions, fails \in May("startup"), admitted \in Admissions :
        LET s == [ses EXCEPT !.readiness = want.policy = "live_server",
                             !.logOpen = want.log /\ ~fails]
            a == Account(s, admits)
        IN  /\ task' = IF s.logOpen THEN Started({"log", "credit"}) ELSE task
            /\ IF fails
               THEN Goto(Stop(s, "startup_failure", "STARTUP_FAILURE"), "yielded")
               ELSE IF a.lc.phase # "Starting" THEN Goto(a, "yielded")
               ELSE IF ~admitted
               THEN Goto(Stop(a, "output_failure", "ATTEMPT_ADMISSION"), "yielded")
               ELSE Goto([a EXCEPT !.order = Order!AttemptMade(@),
                                   !.lc = EnterAttempt(@, TRUE)], "spawn")
  BY Zenon DEF CreateEntries
<1>2. coord = "entries" /\ UNCHANGED <<queue, control, proc, world>>
  BY DEF CreateEntries
<1> DEFINE s == [ses EXCEPT !.readiness = want.policy = "live_server",
                            !.logOpen = want.log /\ ~fails]
           a == Account(s, admits)
           f == Stop(s, "startup_failure", "STARTUP_FAILURE")
           g == Stop(a, "output_failure", "ATTEMPT_ADMISSION")
           t == [a EXCEPT !.order = Order!AttemptMade(a.order),
                          !.lc = EnterAttempt(a.lc, TRUE)]
<1>3. Formed(ses) /\ Accounted(ses) /\ queue \in Seq(Observations) /\ fails \in BOOLEAN
  BY EventsTypes DEF May
<1>4. /\ task' = IF s.logOpen THEN Started({"log", "credit"}) ELSE task
      /\ \/ ses' = f /\ coord' = "yielded"
         \/ ses' = a /\ coord' = "yielded"
         \/ ses' = g /\ coord' = "yielded"
         \/ a.lc.phase = "Starting" /\ ses' = t /\ coord' = "spawn"
  BY <1>1 DEF Goto
<1>5. /\ DOMAIN s = SessionFields /\ s.logOpen = (want.log /\ ~fails)
      /\ \A x \in SessionFields \ {"readiness", "logOpen"} : s[x] = ses[x]
  BY <1>3 DEF Formed, SessionFields
<1> HIDE DEF s
<1>6. /\ s.lc = ses.lc /\ s.order = ses.order /\ s.failures = ses.failures
      /\ s.sigAccounted = ses.sigAccounted /\ s.leaseAccounted = ses.leaseAccounted
      /\ s.finished = ses.finished
      /\ \A x \in LogFields \ {"logOpen"} : s[x] = ses[x]
  BY <1>5 DEF SessionFields, LogFields
<1>7. Formed(s) /\ Accounted(s)
  BY <1>3, <1>5, <1>6 DEF Formed, Accounted
<1>8. /\ Followed(s) /\ Sensible(s, control', world) /\ ~Delivered(s.order)
      /\ s.order.created /\ ~s.order.attempted /\ s.lc.phase = "Starting"
      /\ Reported(s, proc', task', queue', world) /\ Counted(s, proc', task', queue')
  BY <1>2, <1>3, <1>4, <1>5, <1>6, LogOpens
<1>9. Carried(s, a) /\ Formed(a)
  BY <1>7, <1>8, AccountCarries, Accounts DEF Noted
<1> HIDE DEF a
<1>10. queue' \in Seq(Observations) /\ Fewer(queue', queue') /\ Softer(ses', task', task')
       /\ world' = world
  BY <1>2, <1>3 DEF Fewer, Softer
<1>11. ASSUME Carried(s, ses'), coord' = "yielded"  PROVE EventsInv'
  <2>1. coord' \in Idle
    BY <1>11 DEF Idle
  <2>2. QED  BY <1>8, <1>10, <1>11, <2>1, EventsCarried
<1>12. CASE ses' = f /\ coord' = "yielded"
  <2>1. "startup_failure" \in Triggers /\ "STARTUP_FAILURE" \in Failures \cup {NoFailure}
    BY SessionConstants DEF Triggers, SessionFailures
  <2>2. Carried(s, f)
    BY <1>7, <1>8, <2>1, StopCarries
  <2>3. QED  BY <1>11, <1>12, <2>2
<1>13. CASE ses' = a /\ coord' = "yielded"
  BY <1>9, <1>11, <1>13
<1>14. CASE ses' = g /\ coord' = "yielded"
  <2>1. "output_failure" \in Triggers /\ "ATTEMPT_ADMISSION" \in Failures \cup {NoFailure}
    BY SessionConstants DEF Triggers, SessionFailures
  <2>2. Followed(a) /\ s.order \in Orders
    BY <1>8, <1>9 DEF Carried, Followed
  <2>3. Carried(a, g)
    BY <1>9, <2>1, <2>2, StopCarries
  <2>4. Carried(s, g)
    BY <1>9, <2>2, <2>3, CarriedTransitive
  <2>5. QED  BY <1>11, <1>14, <2>4
<1>15. CASE a.lc.phase = "Starting" /\ ses' = t /\ coord' = "spawn"
  <2> DEFINE order == Order!AttemptMade(a.order)
             m     == EnterAttempt(a.lc, TRUE)
  <2>1. /\ Followed(a) /\ Onward(s.lc, a.lc) /\ a.logOpen = s.logOpen
        /\ a.started = s.started /\ a.acquired = s.acquired
        /\ a.acquisition = s.acquisition /\ Passed(s.relay, a.relay)
    BY <1>9 DEF Carried
  <2>2. /\ a.order.created /\ ~a.order.attempted /\ a.order.policy = s.order.policy
        /\ a.order.logRequested = s.order.logRequested /\ a.order.ready = s.order.ready
        /\ ~Delivered(a.order) /\ a.order \in Orders
    BY <1>8, <1>9 DEF Carried, Followed, Orders, Delivered
  <2>3. order = [a.order EXCEPT !.attempted = TRUE]
    BY <2>2 DEF Order!AttemptMade, Order!Judge, Order!InSession, Delivered
  <2>4. /\ a.lc \in Lifecycles /\ m.phase = "Starting" /\ m.policy = a.lc.policy
        /\ m.log = a.lc.log /\ m.cleanup = a.lc.cleanup
    <3>1. a.lc \in Lifecycles
      BY <1>9 DEF Formed, LcSound
    <3>2. m \in {a.lc, [a.lc EXCEPT !.attempt = Attempt("producing")]}
      BY DEF EnterAttempt
    <3> HIDE DEF m
    <3>3. QED  BY <1>15, <3>1, <3>2 DEF Lifecycles
  <2>5. t = [a EXCEPT !.order = order, !.lc = m]
    OBVIOUS
  <2> HIDE DEF order, m, t
  <2>6. /\ order \in Orders /\ order.attempted /\ order.created /\ ~Delivered(order)
        /\ order.policy = a.order.policy /\ order.logRequested = a.order.logRequested
        /\ order.ready = a.order.ready /\ order.output = a.order.output
        /\ order.bytes = a.order.bytes
    BY <2>2, <2>3 DEF Orders, Delivered
  <2>7. /\ t.lc = m /\ t.order = order /\ t.relay = a.relay /\ t.logOpen = a.logOpen
        /\ t.started = a.started /\ t.acquired = a.acquired
        /\ t.acquisition = a.acquisition /\ t.drainStarted = a.drainStarted
    BY <1>9, <2>5 DEF Formed, SessionFields
  <2>8. ~Ended(a.lc) /\ ~Ended(s.lc) /\ a.lc.policy = s.lc.policy
    BY <1>8, <1>15, <2>1 DEF Onward, Ended
  <2>9. Followed(t)
    BY <2>1, <2>6, <2>7, <2>8 DEF Followed
  <2>10. Firmer(s, proc', t, proc', world) /\ Passed(s.relay, t.relay)
    BY <2>1, <2>2, <2>6, <2>7, <2>8 DEF Firmer, Asked
  <2>11. Timely(t, "spawn")
    BY <2>6, <2>7 DEF Timely, Ending, Late
  <2>12. Sensible(t, control', world')
    BY <1>8, <1>10, <2>1, <2>2, <2>4, <2>6, <2>7, <2>8 DEF Sensible, Asked
  <2>13. t.acquisition = s.acquisition /\ t.logOpen = s.logOpen
    BY <2>1, <2>7
  <2>14. QED  BY <1>8, <1>10, <1>15, <2>9, <2>10, <2>11, <2>12, <2>13, EventsFrom
<1>16. QED  BY <1>4, <1>12, <1>13, <1>14, <1>15

----------------------------------------------------------------------------
\* The spawn

\* Where the child is spawned, nothing of the log was read.
LEMMA BeforeSpawn ==
  ASSUME SessionInv, EventsInv, coord = "spawn"
  PROVE  /\ ses.order.attempted /\ ses.acquisition = "none" /\ ~ses.acquired
         /\ ses.lc.phase = "Starting" /\ ~Delivered(ses.order)
         /\ ~ses.order.ready /\ ~ses.order.output /\ ~ses.drainStarted
         /\ ses.relay.buffer = << >> /\ ~ses.relay.final /\ ~ses.relay.eof
         /\ ses.relay.decision = "none" /\ proc.written = 0 /\ proc.taken = 0
         /\ Blank(proc) /\ task["log"] # "LOG"
<1>1. /\ ses.acquisition = "none" /\ ses.lc.phase = "Starting"
  BY DEF SessionInv, Placed
<1>2. /\ Followed(ses) /\ Timely(ses, coord) /\ Counted(ses, proc, task, queue)
      /\ Reported(ses, proc, task, queue, world) /\ "log" \in Tasks
  BY EventsTypes DEF EventsInv
<1>3. ses.order.attempted /\ ~Delivered(ses.order) /\ ~Ended(ses.lc)
  BY <1>1, <1>2 DEF Timely, Ended
<1>4. /\ ~ses.acquired /\ ~ses.order.ready /\ ~ses.order.output /\ ~ses.drainStarted
      /\ ses.relay.buffer = << >> /\ ~ses.relay.final /\ ses.relay.decision = "none"
      /\ RelaySound(ses.relay)
  BY <1>1, <1>2, <1>3 DEF Followed
<1>5. ~ses.relay.eof
  BY <1>4 DEF RelaySound
<1>6. Blank(proc) /\ proc.written = 0 /\ proc.taken = 0
  BY <1>1, <1>2 DEF Counted, Blank
<1>7. task["log"] # "LOG"
  BY <1>2, <1>4 DEF Reported, Means
<1>8. QED  BY <1>1, <1>3, <1>4, <1>5, <1>6, <1>7

\* s is what a step has come to before the bookkeeping that ends it.
SoFar(s) ==
  /\ Followed(s) /\ Sensible(s, control', world) /\ ~Delivered(s.order)
  /\ Reported(s, proc', task', queue', world) /\ Counted(s, proc', task', queue')

\* s has the result of the spawn, and the process after it has written nothing.
Spawned(s) ==
  /\ s.acquisition \in {"child", "no process", "rolled back", "leaked"}
  /\ s.acquired <=> s.acquisition # "no process"
  /\ s.lc.phase \in {"Starting", "Active"}
  /\ s.lc.phase = "Starting" => s.lc.policy = ses.lc.policy
  /\ \A f \in LogFields \ {"acquired", "acquisition"} : s[f] = ses[f]
  /\ s.acquired \in BOOLEAN
  /\ s.acquisition = "no process" => proc' = proc
  /\ s.acquisition # "no process" => proc'.written = 0 /\ proc'.taken = 0

\* What the client was told stays so once the spawn has a result.
LEMMA SpawnTold ==
  ASSUME SessionInv, EventsInv, coord = "spawn", UNCHANGED <<queue, control, world>>,
         NEW s, Spawned(s), Softer(s, task, task'),
         task'["log"] = task["log"] \/ task'["log"] = "done"
  PROVE  SoFar(s)
<1>1. /\ ses.order.attempted /\ ses.acquisition = "none" /\ ~ses.acquired
      /\ ses.lc.phase = "Starting" /\ ~Delivered(ses.order)
      /\ ~ses.order.ready /\ ~ses.order.output /\ ~ses.drainStarted
      /\ ses.relay.buffer = << >> /\ ~ses.relay.final /\ ~ses.relay.eof
      /\ ses.relay.decision = "none" /\ proc.written = 0 /\ proc.taken = 0
      /\ Blank(proc) /\ task["log"] # "LOG"
  BY BeforeSpawn
<1>2. /\ Followed(ses) /\ Sensible(ses, control, world)
      /\ Reported(ses, proc, task, queue, world) /\ Counted(ses, proc, task, queue)
      /\ queue \in Seq(Observations)
  BY EventsTypes DEF EventsInv
<1>3. /\ s.order = ses.order /\ s.relay = ses.relay /\ s.started = ses.started
      /\ s.logOpen = ses.logOpen /\ s.drainStarted = ses.drainStarted
  BY DEF LogFields, Spawned
<1>4. Followed(s)
  BY <1>1, <1>2, <1>3 DEF Followed, Spawned
<1>5. Sensible(s, control', world)
  BY <1>1, <1>2, <1>3 DEF Sensible, Asked, Spawned
<1>6. Firmer(ses, proc, s, proc', world)
  BY <1>1, <1>3 DEF Firmer, Asked, Ended, Spawned
<1>7. Fewer(queue, queue') /\ s.relay.eof = ses.relay.eof
  BY <1>3 DEF Fewer
<1>8. Reported(s, proc', task', queue', world)
  BY <1>2, <1>6, <1>7, ReportedOn
<1>9. Pending(queue', task') = Pending(queue, task)
  BY <1>1 DEF Pending
<1>10. proc'.written = 0 /\ proc'.taken = 0
  BY <1>1 DEF Spawned
<1>11. Counted(s, proc', task', queue')
  BY <1>1, <1>2, <1>3, <1>9, <1>10 DEF Counted, Spawned
<1>12. QED  BY <1>1, <1>3, <1>4, <1>5, <1>8, <1>11 DEF SoFar

\* The child is there, and nothing was told of it.
LEMMA SpawnEvents ==
  ASSUME SessionInv, EventsInv, SpawnChild
  PROVE  EventsInv'
<1> DEFINE s == [ses EXCEPT !.marker = TRUE, !.acquisition = "child", !.acquired = TRUE,
                            !.child = TRUE, !.lc = AdoptAttempt(@)]
           waits == s.lc.phase = "Starting"
           ts == world.streams \cup {"exit"} \cup IF waits THEN {"readiness"} ELSE {}
           m == AdoptAttempt(ses.lc)
<1>1. /\ coord = "spawn" /\ UNCHANGED <<queue, control, world>>
      /\ ses' = s /\ coord' \in {"ready", "yielded"} /\ task' = Started(ts)
  BY DEF SpawnChild, Goto
<1>2. PICK members \in May("stuck"), escaped \in May("escape") :
        proc' = [NoProcess EXCEPT !.state = "running", !.members = members,
                                  !.escaped = escaped]
  BY DEF SpawnChild
<1>3. proc'.written = 0 /\ proc'.taken = 0
  BY <1>2 DEF NoProcess
<1>4. /\ Formed(ses) /\ ses.lc \in Lifecycles /\ ses.lc.phase = "Starting"
      /\ task \in [Tasks -> TaskStates] /\ world \in Worlds
  BY <1>1, EventsTypes, BeforeSpawn DEF Formed, LcSound, SessionInv
<1>5. m.phase \in {"Starting", "Active"} /\ m.policy = ses.lc.policy
  <2> DEFINE l == ses.lc
             owned == [l EXCEPT !.attempt.stage = "owned"]
  <2>1. l \in Lifecycles /\ l.phase = "Starting" /\ ~l.attempt.result.seen
    BY <1>1, <1>4, BeforeSpawn DEF SessionInv, Core, Staged
  <2>2. m \in {l, owned, [owned EXCEPT !.phase = "Active", !.evidence = {}]}
    BY <2>1 DEF AdoptAttempt, Lifecycles, Attempts
  <2> HIDE DEF m, l
  <2>3. owned.phase = "Starting" /\ owned.policy = l.policy /\ DOMAIN owned = DOMAIN l
    BY <2>1 DEF Lifecycles
  <2> HIDE DEF owned
  <2>4. QED  BY <2>1, <2>2, <2>3 DEF Lifecycles, l
<1>6. /\ s.lc = m /\ s.acquisition = "child" /\ s.acquired = TRUE
      /\ \A f \in LogFields \ {"acquired", "acquisition"} : s[f] = ses[f]
  BY <1>4 DEF Formed, SessionFields, LogFields
<1>7. "log" \notin ts /\ "log deadline" \notin ts
  <2>1. world.streams \subseteq Streams
    BY <1>4, SessionConstants DEF World
  <2>2. QED  BY <2>1, SessionConstants DEF SessionTasks
<1> HIDE DEF m, s, waits, ts
<1>8. Softer(s, task, task') /\ task'["log"] = task["log"]
  BY <1>1, <1>4, <1>7 DEF Softer, Started, Tasks, SessionTasks
<1>9. SoFar(s)
  <2>1. /\ s.acquisition \in {"child", "no process", "rolled back", "leaked"}
        /\ s.acquired = (s.acquisition # "no process")
    BY <1>6
  <2>2. /\ s.lc.phase \in {"Starting", "Active"}
        /\ s.lc.phase = "Starting" => s.lc.policy = ses.lc.policy
    BY <1>5, <1>6
  <2>3. Spawned(s)
    BY <1>3, <1>6, <2>1, <2>2 DEF Spawned
  <2>4. QED  BY <1>1, <1>8, <2>3, SpawnTold
<1>10. Timely(s, coord')
  BY <1>1, <1>9 DEF SoFar, Timely, Ending, Late
<1>11. QED  BY <1>1, <1>9, <1>10 DEF SoFar, EventsInv

\* The child is not there, or it is not the session's.
LEMMA SpawnFailsEvents ==
  ASSUME SessionInv, EventsInv, SpawnFails
  PROVE  EventsInv' /\ coord' = "yielded"
<1>1. PICK result \in {"no process", "rolled back", "leaked"}, rc \in ReturnCodes,
           requested \in BOOLEAN, reaped \in BOOLEAN, admits \in Admissions :
        LET failed == Stop([ses EXCEPT !.marker = TRUE, !.acquisition = result,
                                       !.acquired = result # "no process"],
                           "startup_failure", "SPAWN_FAILURE")
            told   == IF requested THEN [failed EXCEPT !.lc = RecordChildTermination(@)]
                      ELSE failed
            exited == IF result # "no process" /\ reaped
                      THEN [told EXCEPT !.lc = ObserveChildExit(@, rc)] ELSE failed
        IN  /\ result = "rolled back" => reaped
            /\ result = "no process" => ~requested /\ ~reaped
            /\ ~reaped => rc = 0
            /\ Goto(LogDisposal(exited, result # "leaked", admits), "yielded")
            /\ task' = IF result = "leaked" THEN Cancelled({"log"}) ELSE task
            /\ proc' = IF result = "no process" THEN proc
                       ELSE [NoProcess EXCEPT
                               !.state = IF reaped THEN "reaped" ELSE "running",
                               !.rc = rc, !.requested = requested,
                               !.signalled = requested,
                               !.members = result = "leaked"]
  BY Zenon DEF SpawnFails
<1>2. coord = "spawn" /\ UNCHANGED <<queue, control, world>>
  BY DEF SpawnFails
<1> DEFINE spawned == [ses EXCEPT !.marker = TRUE, !.acquisition = result,
                                  !.acquired = result # "no process"]
           failed  == Stop(spawned, "startup_failure", "SPAWN_FAILURE")
           told    == IF requested THEN [failed EXCEPT !.lc = RecordChildTermination(@)]
                      ELSE failed
           exited  == IF result # "no process" /\ reaped
                      THEN [told EXCEPT !.lc = ObserveChildExit(@, rc)] ELSE failed
<1>3. /\ Formed(ses) /\ ses.lc.phase = "Starting" /\ queue \in Seq(Observations)
      /\ task \in [Tasks -> TaskStates]
  BY <1>2, EventsTypes, BeforeSpawn
<1>4. /\ ses.lc.attempt.stage = "producing" /\ ~ses.lc.attempt.result.seen
      /\ ~ses.lc.attempt.requested
  <2>1. Core(ses, world) /\ Placed(ses, proc, world, coord) /\ Supervised(ses, proc, world)
    BY DEF SessionInv
  <2>2. QED  BY <1>2, <2>1 DEF Core, Staged, Supervised, Placed
<1>5. /\ ses' = LogDisposal(exited, result # "leaked", admits) /\ coord' = "yielded"
      /\ task' = IF result = "leaked" THEN Cancelled({"log"}) ELSE task
      /\ result = "no process" => proc' = proc
      /\ result # "no process" => proc'.written = 0 /\ proc'.taken = 0
  BY <1>1 DEF Goto, NoProcess
<1>6. /\ DOMAIN spawned = SessionFields /\ spawned.acquisition = result
      /\ spawned.acquired = (result # "no process") /\ spawned.lc = ses.lc
      /\ spawned.order = ses.order /\ spawned.failures = ses.failures
      /\ spawned.finished = ses.finished
      /\ \A f \in LogFields \ {"acquired", "acquisition"} : spawned[f] = ses[f]
  BY <1>3 DEF Formed, SessionFields, LogFields
<1> HIDE DEF spawned
<1>7. Formed(spawned)
  BY <1>3, <1>6 DEF Formed
<1>8. Softer(spawned, task, task') /\ (task'["log"] = task["log"] \/ task'["log"] = "done")
  BY <1>3, <1>5 DEF Softer, Cancelled, Tasks, SessionTasks
<1>9. SoFar(spawned)
  <2>1. spawned.acquisition \in {"child", "no process", "rolled back", "leaked"}
        /\ spawned.acquired = (spawned.acquisition # "no process")
    BY <1>6
  <2>2. spawned.lc.phase \in {"Starting", "Active"}
        /\ (spawned.lc.phase = "Starting" => spawned.lc.policy = ses.lc.policy)
    BY <1>3, <1>6
  <2>3. (spawned.acquisition = "no process" => proc' = proc)
        /\ (spawned.acquisition # "no process" => proc'.written = 0 /\ proc'.taken = 0)
    BY <1>5, <1>6
  <2>4. Spawned(spawned)
    BY <1>6, <2>1, <2>2, <2>3 DEF Spawned
  <2>5. QED  BY <1>2, <1>8, <2>4, SpawnTold
<1>10. /\ Noted(spawned, failed) /\ Carried(spawned, failed)
  <2>1. /\ "startup_failure" \in Triggers /\ "SPAWN_FAILURE" \in SessionFailures
        /\ "SPAWN_FAILURE" \in Failures
    BY SessionConstants DEF Triggers, SessionFailures
  <2>2. Noted(spawned, failed)
    BY <1>7, <2>1, NotedReflexive, NotedStops
  <2>3. Carried(spawned, failed)
    BY <1>7, <1>9, <2>1, StopCarries DEF SoFar
  <2>4. QED  BY <2>2, <2>3
<1>11. Ended(failed.lc) /\ failed.lc.phase # "Closed"
  <2>1. failed.lc = Terminate(ses.lc, "startup_failure", "SPAWN_FAILURE")
    BY <1>6 DEF Stop, SessionFields
  <2>2. ses.lc \in Lifecycles
    BY <1>3 DEF Formed, LcSound
  <2>3. QED  BY <1>3, <2>1, <2>2 DEF Terminate, Lifecycles, Ended
<1> HIDE DEF failed
<1> DEFINE old == failed.lc
           new == ObserveChildExit(IF requested THEN RecordChildTermination(old) ELSE old, rc)
<1>12. /\ Formed(failed) /\ Followed(failed) /\ LcSound(old) /\ old.attempt = ses.lc.attempt
       /\ failed.acquisition = result
  BY <1>6, <1>10 DEF Noted, Carried, Formed, Later
<1>13. /\ LcOnly(failed, exited)
       /\ exited.lc = IF result # "no process" /\ reaped THEN new ELSE old
  BY <1>12 DEF LcOnly, Formed, SessionFields
<1>14. LcSound(exited.lc) /\ Onward(old, exited.lc)
  <2>1. InProduction(old) /\ LcSound(old) /\ rc \in Int /\ old.phase # "Closed"
        /\ Ended(old) /\ ~old.attempt.requested /\ old \in Lifecycles
    BY <1>4, <1>11, <1>12, LifecycleConstants DEF InProduction, LcSound
  <2> HIDE DEF old
  <2>2. LcSound(new)
    BY <2>1, ExitSeen DEF Exited
  <2>3. Onward(old, new)
    BY <2>1, ExitOnward
  <2>4. Onward(old, old)
    BY DEF Onward
  <2>5. QED  BY <1>13, <2>1, <2>2, <2>3, <2>4
<1> HIDE DEF exited, old, new
<1>15. Formed(exited)
  BY <1>12, <1>13, <1>14, LcOnlyHolds
<1>16. \A f \in LogFields : exited[f] = failed[f]
  BY <1>13 DEF LcOnly, LogFields, SessionFields
<1>17. Carried(failed, exited)
  BY <1>12, <1>14, <1>16, CarriedAside DEF old
<1>18. Followed(exited) /\ exited.acquisition = result
  BY <1>12, <1>17 DEF Carried
<1>19. Carried(exited, ses')
  BY <1>5, <1>15, <1>18, LogDisposalCarries
<1>20. spawned.order \in Orders /\ failed.order \in Orders
  BY <1>9, <1>12 DEF SoFar, Followed
<1>21. Carried(spawned, exited)
  BY <1>10, <1>17, <1>20, CarriedTransitive
<1>22. Carried(spawned, ses')
  BY <1>19, <1>20, <1>21, CarriedTransitive
<1>23. /\ queue' \in Seq(Observations) /\ Fewer(queue', queue')
       /\ Softer(ses', task', task') /\ coord' \in Idle /\ world' = world
  BY <1>2, <1>3, <1>5 DEF Fewer, Softer, Idle
<1>24. EventsInv'
  BY <1>9, <1>22, <1>23, EventsCarried DEF SoFar
<1>25. QED  BY <1>5, <1>24

----------------------------------------------------------------------------
\* Readiness

\* What the coordinator does after a check of readiness is bookkeeping.
LEMMA BookedReady ==
  ASSUME NEW s, NEW t, Followed(s), Booked(s, t)
  PROVE  Booked(s, AfterReady(t))
<1>1. "startup_failure" \in Triggers /\ "READINESS_TIMEOUT" \in SessionFailures
  BY DEF Triggers, SessionFailures
<1>2. QED  BY <1>1, BookedStops DEF AfterReady

\* So is what changes the lifecycle alone, onward.
LEMMA BookedLcOnly ==
  ASSUME NEW s, NEW t, Followed(s), Booked(s, t), NEW u, LcOnly(t, u), LcSound(u.lc),
         Onward(t.lc, u.lc)
  PROVE  Booked(s, u)
<1>1. Formed(t) /\ Followed(t)
  BY DEF Booked, Carried
<1>2. Formed(u) /\ \A f \in LogFields : u[f] = t[f]
  BY <1>1, LcOnlyHolds DEF LcOnly, LogFields, SessionFields
<1>3. Carried(t, u)
  BY <1>1, <1>2, CarriedAside
<1>4. QED  BY <1>2, <1>3, BookedTransitive DEF Booked

\* The evidence is read of a lifecycle that goes on.
LEMMA EvidenceOnward ==
  ASSUME NEW s, Formed(s)
  PROVE  Onward(s.lc, ReadEvidence(s).lc)
<1> DEFINE e == ReadEvidence(s)
<1>1. CASE ~AwaitsReadiness(s.lc)
  BY <1>1 DEF ReadEvidence, Onward
<1>2. CASE AwaitsReadiness(s.lc)
  <2> DEFINE evidence == s.lc.evidence \cup (s.lc.required \cap proc.artifact)
             l == s.lc
             m == [l EXCEPT !.evidence = evidence]
  <2>1. e = [s EXCEPT !.lc = m]
    BY <1>2 DEF ReadEvidence, Formed, SessionFields
  <2>2. e.lc = m /\ l \in Lifecycles
    BY <2>1 DEF Formed, SessionFields, LcSound
  <2> HIDE DEF evidence, e, l
  <2>3. /\ m.phase = l.phase /\ m.policy = l.policy /\ m.log = l.log
        /\ m.cleanup = l.cleanup
    BY <2>2 DEF Lifecycles
  <2> HIDE DEF m
  <2>4. Onward(l, m)
    BY <2>3 DEF Onward, Ended
  <2>5. QED  BY <2>2, <2>4 DEF e, l
<1>3. QED  BY <1>1, <1>2

\* _ready looks at the evidence and at the child.
LEMMA CheckReadyEvents ==
  ASSUME SessionInv, EventsInv, CheckReady
  PROVE  EventsInv'
<1>1. PICK admits \in Admissions, unreadable \in May("artifact") :
        LET a == Account(ses, admits)
            e == ReadEvidence(a)
        IN  IF a.lc.phase # "Starting" \/ ~a.child
            THEN Goto(AfterReady(a), "yielded") /\ UNCHANGED proc
            ELSE IF unreadable /\ a.lc.required # {}
            THEN /\ Goto(AfterReady(Stop(a, "helper_failure", "READINESS_ARTIFACT_FAILURE")),
                         "yielded")
                 /\ UNCHANGED proc
            ELSE IF ~AwaitsReadiness(e.lc) \/ ~(e.lc.required \subseteq e.lc.evidence)
            THEN Goto(AfterReady(e), "yielded") /\ UNCHANGED proc
            ELSE IF proc.state # "running"
            THEN /\ Goto(AfterReady(RecordExit(e, proc)), "yielded")
                 /\ proc' = [proc EXCEPT !.observed = TRUE]
            ELSE /\ Goto(e, IF coord = "ready" THEN "commit" ELSE "commit deadline")
                 /\ UNCHANGED proc
  BY Zenon DEF CheckReady
<1>2. /\ coord \in {"ready", "ready deadline"} /\ UNCHANGED <<queue, task, control, world>>
  BY DEF CheckReady
<1> DEFINE a == Account(ses, admits)
           e == ReadEvidence(a)
           x == RecordExit(e, proc)
           f == Stop(a, "helper_failure", "READINESS_ARTIFACT_FAILURE")
<1>3. /\ \/ ses' \in {AfterReady(a), AfterReady(f), AfterReady(e)} /\ coord' = "yielded"
            /\ proc' = proc
         \/ /\ ses' = AfterReady(x) /\ coord' = "yielded"
            /\ proc' = [proc EXCEPT !.observed = TRUE]
            /\ proc.state # "running" /\ a.child /\ a.lc.phase = "Starting"
         \/ /\ ses' = e /\ coord' \in {"commit", "commit deadline"} /\ proc' = proc
  BY <1>1 DEF Goto
<1>4. /\ Core(ses, world) /\ Placed(ses, proc, world, coord) /\ Supervised(ses, proc, world)
  BY DEF SessionInv
<1>5. Noted(ses, a) /\ Booked(ses, a) /\ Followed(ses) /\ Formed(a)
  BY SessionAccounts, BookedAccounts
<1>6. Core(a, world) /\ Supervised(a, proc, world)
  BY <1>4, <1>5, NotedCore, NotedSupervised
<1>7. /\ Core(e, world) /\ Supervised(e, proc, world) /\ LcOnly(a, e)
      /\ e.lc.phase = a.lc.phase /\ LcSound(e.lc) /\ Onward(a.lc, e.lc)
  <2> HIDE DEF a
  <2>1. QED  BY <1>5, <1>6, EvidenceKeeps, EvidenceOnward
<1> HIDE DEF a, e
<1>8. Booked(ses, e)
  BY <1>5, <1>7, BookedLcOnly
<1>9. Booked(ses, f)
  <2>1. "helper_failure" \in Triggers /\ "READINESS_ARTIFACT_FAILURE" \in SessionFailures
    BY DEF Triggers, SessionFailures
  <2>2. QED  BY <1>5, <2>1, BookedStops
<1>10. ASSUME proc.state # "running", a.child, a.lc.phase = "Starting"
       PROVE  Booked(ses, x)
  <2>1. e.child /\ e.lc.phase # "Closed"
    BY <1>7, <1>10 DEF LcOnly, SessionFields
  <2>2. Core(x, world)
    BY <1>7, <1>10, <2>1, ExitKeeps
  <2>3. Formed(e) /\ Followed(e)
    BY <1>8 DEF Booked, Carried
  <2>4. Carried(e, x)
    BY <2>3, ExitCarries
  <2>5. QED  BY <1>5, <1>8, <2>2, <2>4, BookedTransitive DEF Booked, Core
<1> HIDE DEF f, x
<1>11. Calmer(ses, proc, proc')
  <2>1. proc \in Processes
    BY <1>4 DEF Supervised
  <2>2. QED  BY <1>3, <2>1 DEF Calmer, Processes
<1>12. Booked(ses, ses')
  <2>1. /\ Booked(ses, AfterReady(a)) /\ Booked(ses, AfterReady(f))
        /\ Booked(ses, AfterReady(e))
    BY <1>5, <1>8, <1>9, BookedReady
  <2>2. ASSUME proc.state # "running", a.child, a.lc.phase = "Starting"
        PROVE  Booked(ses, AfterReady(x))
    BY <1>5, <1>10, <2>2, BookedReady
  <2>3. QED  BY <1>3, <1>8, <2>1, <2>2
<1>13. Fewer(queue, queue') /\ Softer(ses', task, task')
  BY <1>2 DEF Fewer, Softer
<1>14. CASE coord' = "yielded"
  BY <1>2, <1>11, <1>12, <1>13, <1>14, CoordinatorEvents DEF Idle
<1>15. CASE coord' \in {"commit", "commit deadline"}
  <2>1. /\ Timely(ses, coord) /\ Sensible(ses, control, world)
        /\ Reported(ses, proc, task, queue, world) /\ Counted(ses, proc, task, queue)
        /\ queue \in Seq(Observations)
    BY EventsTypes DEF EventsInv
  <2>2. Carried(ses, ses')
    BY <1>12 DEF Booked
  <2>3. Timely(ses', "yielded")
    BY <1>2, <1>5, <2>1, <2>2, TimelyIdle DEF Idle
  <2>4. Timely(ses', coord')
    BY <1>15, <2>3 DEF Timely, Ending, Late
  <2>5. Sensible(ses', control', world)
    BY <1>2, <1>5, <2>1, <2>2, SensibleOn
  <2>6. QED  BY <1>2, <1>11, <1>13, <2>1, <2>2, <2>4, <2>5, EventsGoOn
<1>16. QED  BY <1>3, <1>14, <1>15

\* READY is told to a client that awaits it, of a child it knows of.
LEMMA ReadyTold ==
  ASSUME NEW s, Formed(s), Followed(s), NEW w, NEW ctl, Sensible(s, ctl, w),
         ~Delivered(s.order), s.acquired, s.lc.policy = "live_server",
         s.lc.phase = "Starting", NEW t,
         t.order = Order!ReadyReported(s.order), t.lc.phase = "Active",
         \A f \in LogFields \ {"order"} : t[f] = s[f]
  PROVE  /\ Followed(t) /\ Sensible(t, ctl, w) /\ ~Delivered(t.order)
         /\ (Asked(s, w) => Asked(t, w))
<1>1. /\ t.relay = s.relay /\ t.logOpen = s.logOpen /\ t.started = s.started
      /\ t.acquired = s.acquired /\ t.acquisition = s.acquisition
      /\ t.drainStarted = s.drainStarted
  BY DEF LogFields
<1>2. /\ s.order \in Orders /\ s.order.attempted /\ s.order.created
      /\ ~s.order.ended /\ s.order.fault = "none" /\ ~s.order.ready
      /\ s.order.policy = "live_server"
  BY DEF Followed, Delivered, Sensible, Asked
<1>3. t.order = [s.order EXCEPT !.ready = TRUE]
  BY <1>2 DEF Order!ReadyReported, Order!Judge, Order!InSession
<1>4. /\ t.order \in Orders /\ t.order.bytes = s.order.bytes
      /\ t.order.created /\ t.order.attempted /\ ~t.order.ended /\ t.order.fault = "none"
      /\ t.order.logRequested = s.order.logRequested /\ t.order.policy = s.order.policy
  BY <1>2, <1>3 DEF Orders
<1>5. ~Delivered(t.order)
  BY <1>4 DEF Delivered
<1>6. ~Ended(s.lc)
  BY DEF Ended
<1>7. Followed(t)
  BY <1>1, <1>4, <1>5, <1>6 DEF Followed
<1>8. Sensible(t, ctl, w)
  BY <1>1, <1>2, <1>4 DEF Sensible, Asked
<1>9. QED  BY <1>4, <1>5, <1>7, <1>8, <1>2 DEF Asked

\* READY is committed, or given up.
LEMMA CommitReadyEvents ==
  ASSUME SessionInv, EventsInv, CommitsAwaited, CommitReady
  PROVE  EventsInv'
<1>1. PICK admits \in Admissions, admitted \in Admissions :
        LET a == Account(ses, admits) IN
        IF a.lc.phase # "Starting" THEN Goto(AfterReady(a), "yielded") /\ UNCHANGED task
        ELSE IF ~admitted
        THEN /\ Goto(AfterReady(Stop(a, "output_failure", "READY_ADMISSION")), "yielded")
             /\ UNCHANGED task
        ELSE /\ Goto([a EXCEPT !.order = Order!ReadyReported(@),
                               !.lc = Ready(@, TRUE, TRUE)], "yielded")
             /\ task' = Cancelled({"readiness"})
  BY Zenon DEF CommitReady
<1>2. /\ coord \in {"commit", "commit deadline"} /\ UNCHANGED <<queue, control, proc, world>>
  BY DEF CommitReady
<1> DEFINE a == Account(ses, admits)
           f == Stop(a, "output_failure", "READY_ADMISSION")
           t == [a EXCEPT !.order = Order!ReadyReported(a.order),
                          !.lc = Ready(a.lc, TRUE, TRUE)]
<1>3. /\ \/ ses' \in {AfterReady(a), AfterReady(f)} /\ task' = task
         \/ /\ ses' = t /\ a.lc.phase = "Starting" /\ task' = Cancelled({"readiness"})
      /\ coord' = "yielded"
  BY <1>1 DEF Goto
<1>4. Noted(ses, a) /\ Booked(ses, a) /\ Followed(ses) /\ Formed(a)
  BY SessionAccounts, BookedAccounts
<1>5. Booked(ses, f)
  <2>1. "output_failure" \in Triggers /\ "READY_ADMISSION" \in SessionFailures
    BY DEF Triggers, SessionFailures
  <2>2. QED  BY <1>4, <2>1, BookedStops
<1> HIDE DEF a, f
<1>6. Calmer(ses, proc, proc') /\ Fewer(queue, queue')
  BY <1>2 DEF Calmer, Fewer
<1>7. CASE ses' \in {AfterReady(a), AfterReady(f)} /\ task' = task
  <2>1. Booked(ses, ses')
    BY <1>4, <1>5, <1>7, BookedReady
  <2>2. Softer(ses', task, task')
    BY <1>7 DEF Softer
  <2>3. QED  BY <1>2, <1>3, <1>6, <1>7, <2>1, <2>2, CoordinatorEvents DEF Idle
<1>8. CASE ses' = t /\ a.lc.phase = "Starting" /\ task' = Cancelled({"readiness"})
  <2> DEFINE l == ses.lc
  <2>1. a.lc = l /\ AwaitsReadiness(l) /\ l \in Lifecycles
    <3>1. Later(l, a.lc) /\ AwaitsReadiness(l) /\ LcSound(a.lc)
      BY <1>2, <1>4 DEF CommitsAwaited, Noted, Formed
    <3>2. ~Ended(l)
      BY <3>1 DEF AwaitsReadiness, Ended
    <3>3. a.lc = l
      BY <1>8, <3>1, <3>2 DEF Later
    <3>4. QED  BY <3>1, <3>3 DEF LcSound
  <2>2. l.required \subseteq l.evidence /\ ses.child /\ ses.acquired
    BY <1>2 DEF SessionInv, Placed, Core, Staged
  <2>3. /\ DOMAIN t = SessionFields /\ t.lc = Ready(a.lc, TRUE, TRUE)
        /\ t.order = Order!ReadyReported(a.order)
        /\ \A g \in LogFields \ {"order"} : t[g] = a[g]
    BY <1>4 DEF Formed, SessionFields, LogFields
  <2> HIDE DEF t
  <2>4. t.lc.phase = "Active"
    <3> HIDE DEF l
    <3> DEFINE m == [l EXCEPT !.phase = "Active", !.evidence = {}]
    <3>1. Ready(l, TRUE, TRUE) = m
      BY <2>1, <2>2 DEF Ready
    <3>2. m.phase = "Active"
      BY <2>1 DEF Lifecycles
    <3> HIDE DEF m
    <3>3. QED  BY <2>1, <2>3, <3>1, <3>2
  <2>5. /\ l.policy = "live_server" /\ l.phase = "Starting"
    BY <2>1 DEF AwaitsReadiness
  <2>6. /\ Timely(ses, coord) /\ Sensible(ses, control, world)
        /\ Reported(ses, proc, task, queue, world) /\ Counted(ses, proc, task, queue)
        /\ queue \in Seq(Observations) /\ task \in [Tasks -> TaskStates]
    BY EventsTypes DEF EventsInv
  <2>7. Carried(ses, a) /\ Followed(a)
    BY <1>4 DEF Booked, Carried
  <2>8. Timely(a, "yielded") /\ Sensible(a, control, world)
    BY <1>2, <1>4, <2>6, <2>7, TimelyIdle, SensibleOn DEF Idle
  <2>9. a.acquired /\ ~Delivered(a.order)
    BY <2>2, <2>7, <2>8 DEF Carried, Timely
  <2>10. /\ Followed(t) /\ Sensible(t, control, world) /\ ~Delivered(t.order)
         /\ (Asked(a, world) => Asked(t, world))
    BY <1>4, <1>8, <2>1, <2>3, <2>4, <2>5, <2>7, <2>8, <2>9, ReadyTold
  <2>11. /\ t.relay = a.relay /\ t.logOpen = a.logOpen /\ t.acquired = a.acquired
         /\ t.acquisition = a.acquisition
    BY <2>3 DEF LogFields
  <2>12. /\ t.acquisition = ses.acquisition /\ t.logOpen = ses.logOpen
         /\ Passed(ses.relay, t.relay)
    BY <2>7, <2>11 DEF Carried
  <2>13. Firmer(ses, proc, a, proc', world)
    BY <1>4, <1>6, <2>7, FirmerOn
  <2>14. Firmer(ses, proc, t, proc', world)
    <3>1. ~Ended(ses.lc)
      BY <2>5 DEF Ended
    <3>2. QED  BY <2>10, <2>11, <2>13, <3>1 DEF Firmer
  <2>15. Timely(t, "yielded")
    BY <2>10 DEF Timely, Ending, Late
  <2>16. Softer(t, task, task') /\ task'["log"] = task["log"]
    BY <1>8, <2>6 DEF Softer, Cancelled, Tasks, SessionTasks
  <2>17. QED  BY <1>2, <1>3, <1>6, <1>8, <2>6, <2>10, <2>12, <2>14, <2>15, <2>16, EventsMove
<1>9. QED  BY <1>3, <1>7, <1>8

----------------------------------------------------------------------------
\* The loop of the coordinator

\* The head of the loop is bookkeeping, which starts the drain of the log only
\* once the session ends.
LEMMA LoopHeadBooked ==
  ASSUME NEW s, NEW a, Followed(s), Booked(s, a)
  PROVE  Booked(s, LoopHead(a))
<1> DEFINE t == LoopHead(a)
<1>1. Formed(a) /\ Followed(a)
  BY DEF Booked, Carried
<1>2. /\ DOMAIN t = SessionFields /\ t.lc = a.lc /\ t.failures = a.failures
      /\ t.finished = a.finished
      /\ \A f \in LogFields \ {"drainStarted"} : t[f] = a[f]
      /\ t.drainStarted => a.drainStarted \/ (a.lc.phase = "Terminating" /\ a.logOpen)
  BY <1>1 DEF LoopHead, Formed, SessionFields, LogFields
<1> HIDE DEF t
<1>3. t.drainStarted => a.logOpen /\ Ended(t.lc)
  BY <1>1, <1>2 DEF Followed, Ended
<1>4. Onward(a.lc, t.lc)
  BY <1>2 DEF Onward
<1>5. Carried(a, t)
  BY <1>1, <1>2, <1>3, <1>4, CarriedBeside
<1>6. t.order = a.order
  BY <1>2 DEF LogFields
<1>7. Formed(t)
  BY <1>1, <1>2, <1>6 DEF Formed
<1>8. QED  BY <1>5, <1>7, BookedTransitive DEF Booked, t

\* The loop ends with the log decided.
LEMMA LoopEnds ==
  ASSUME SessionInv, EventsInv, NEW s, Booked(ses, s), coord \in {"loop", "yielded"},
         Ended(s.lc), LogDecided(s), NEW relay,
         relay = IF s.logOpen THEN Relay!Decide(s.relay, FALSE, s.acquired) ELSE s.relay,
         ses' = [s EXCEPT !.relay = relay], coord' = "ending", queue' = << >>,
         Softer(s, task, task'), UNCHANGED <<control, proc, world>>
  PROVE  EventsInv'
<1>1. /\ Followed(ses) /\ Timely(ses, coord) /\ Sensible(ses, control, world)
      /\ Reported(ses, proc, task, queue, world) /\ Counted(ses, proc, task, queue)
      /\ queue \in Seq(Observations) /\ Formed(s) /\ Carried(ses, s) /\ Followed(s)
  BY EventsTypes DEF EventsInv, Booked, Carried
<1>2. Calmer(ses, proc, proc')
  BY DEF Calmer
<1>3. /\ Sensible(s, control', world) /\ Firmer(ses, proc, s, proc', world)
      /\ Timely(s, "yielded")
  BY <1>1, <1>2, SensibleOn, FirmerOn, TimelyIdle DEF Idle
<1>4. /\ DOMAIN ses' = SessionFields /\ ses'.relay = relay
      /\ \A f \in SessionFields \ {"relay"} : ses'[f] = s[f]
  BY <1>1 DEF Formed, SessionFields
<1>5. /\ ses'.lc = s.lc /\ ses'.order = s.order /\ ses'.logOpen = s.logOpen
      /\ ses'.started = s.started /\ ses'.acquired = s.acquired
      /\ ses'.acquisition = s.acquisition /\ ses'.drainStarted = s.drainStarted
  BY <1>4 DEF SessionFields
<1>6. RelaySound(s.relay)
  BY <1>1 DEF Followed
<1>7. /\ RelaySound(relay) /\ relay.eof = s.relay.eof /\ relay.final = s.relay.final
      /\ relay.admitted = s.relay.admitted
      /\ s.logOpen => relay.decision # "none" /\ relay.buffer = << >>
      /\ s.relay.decision # "none" => relay = s.relay
      /\ s.relay.decision = "none" /\ relay.decision = "complete" => Unspoilt(s.relay)
  <2>1. CASE ~s.logOpen
    BY <1>6, <2>1 DEF Unspoilt, RelaySound, Relays, Relay!Decisions
  <2>2. CASE s.logOpen
    <3>1. \A deadline, childAcquired :
            LET m == Relay!Decide(s.relay, deadline, childAcquired) IN
            /\ RelaySound(m) /\ m.decision # "none" /\ m.buffer = << >>
            /\ m.eof = s.relay.eof /\ m.final = s.relay.final
            /\ m.admitted = s.relay.admitted
            /\ s.relay.decision # "none" => m = s.relay
            /\ s.relay.decision = "none" /\ m.decision = "complete" =>
                 /\ Unspoilt(s.relay) /\ (childAcquired => s.relay.eof /\ s.relay.disposed)
                 /\ deadline => s.relay.buffer = << >>
      BY <1>6, LogDecides
    <3> DEFINE m == Relay!Decide(s.relay, FALSE, s.acquired)
    <3>2. /\ RelaySound(m) /\ m.decision # "none" /\ m.buffer = << >>
          /\ m.eof = s.relay.eof /\ m.final = s.relay.final
          /\ m.admitted = s.relay.admitted
          /\ s.relay.decision # "none" => m = s.relay
          /\ s.relay.decision = "none" /\ m.decision = "complete" => Unspoilt(s.relay)
      BY <3>1, Zenon
    <3> HIDE DEF m
    <3>3. relay = m
      BY <2>2 DEF m
    <3>4. QED  BY <3>2, <3>3
  <2>3. QED  BY <2>1, <2>2
<1>8. Followed(ses')
  <2>1. ~s.logOpen => relay = s.relay
    OBVIOUS
  <2>2. relay.buffer # << >> => s.relay.buffer # << >>
    BY <1>7, <2>1
  <2> DEFINE t == ses'
  <2>3. /\ t.relay = relay /\ t.lc = s.lc /\ t.order = s.order /\ t.logOpen = s.logOpen
        /\ t.acquired = s.acquired /\ t.acquisition = s.acquisition
        /\ t.drainStarted = s.drainStarted
    BY <1>4, <1>5
  <2>4. /\ RelaySound(relay) /\ relay.admitted = s.relay.admitted
        /\ relay.final = s.relay.final /\ Followed(s) /\ Ended(s.lc)
    BY <1>1, <1>7
  <2> HIDE DEF t
  <2>5. Followed(t)
    BY <2>1, <2>2, <2>3, <2>4 DEF Followed
  <2>6. QED  BY <2>5 DEF t
<1>9. Sensible(ses', control', world)
  BY <1>3, <1>5 DEF Sensible, Asked
<1>10. Timely(ses', coord')
  BY <1>3, <1>4, <1>5, <1>7 DEF Timely, Late, Ending
<1>11. Firmer(ses, proc, ses', proc', world)
  BY <1>3, <1>5 DEF Firmer, Asked
<1>12. ses'.relay.eof = ses.relay.eof
  BY <1>1, <1>4, <1>7 DEF Carried, Passed
<1>13. Fewer(queue, queue') /\ Softer(ses', task, task')
  BY <1>5 DEF Fewer, Softer
<1>14. Reported(ses', proc', task', queue', world)
  BY <1>1, <1>11, <1>12, <1>13, ReportedOn
<1>15. Counted(ses', proc', task', queue')
  <2>1. Counted(s, proc, task, queue)
    <3>1. Fewer(queue, queue) /\ Softer(s, task, task) /\ Calmer(ses, proc, proc)
      BY DEF Fewer, Softer, Calmer
    <3>2. /\ s.acquisition = ses.acquisition /\ s.logOpen = ses.logOpen
          /\ Passed(ses.relay, s.relay)
      BY <1>1 DEF Carried
    <3>3. QED  BY <1>1, <3>1, <3>2, CountedOn
  <2>2. relay.decision = "complete" => s.relay.admitted = proc.written /\ AtEnd(proc)
    <3>1. CASE s.relay.decision = "complete"
      BY <2>1, <3>1 DEF Counted, Whole
    <3>2. CASE s.relay.decision # "complete" /\ relay.decision = "complete"
      <4>1. s.logOpen /\ s.relay.decision = "none" /\ Unspoilt(s.relay)
        BY <1>7, <3>2 DEF RelaySound, Relays, Relay!Decisions
      <4>2. s.acquisition \in {"none", "no process"}
        BY <1>1, <4>1 DEF LogDecided, Followed
      <4>3. /\ Blank(proc) /\ proc.written = 0 /\ proc.taken = 0
            /\ Kept(s.relay) + Pending(queue, task) = 0
        BY <2>1, <4>1, <4>2 DEF Counted, Blank
      <4>4. s.relay.admitted \in Nat /\ Len(s.relay.buffer) \in Nat
        BY <1>6 DEF RelaySound, Relays
      <4>5. Pending(queue, task) \in Nat
        <5>1. IsFiniteSet(LogItems(queue))
          BY <1>1, LogItemsCounted
        <5>2. Cardinality(LogItems(queue)) \in Nat
          BY <5>1, FS_CardinalityType
        <5>3. QED  BY <5>2 DEF Pending
      <4>6. s.relay.admitted = 0
        BY <4>3, <4>4, <4>5 DEF Kept
      <4>7. AtEnd(proc)
        BY <4>3 DEF Blank, AtEnd
      <4>8. QED  BY <4>3, <4>6, <4>7
    <3>3. QED  BY <3>1, <3>2
  <2>3. Unspoilt(relay) => ~s.logOpen
    BY <1>7 DEF Unspoilt
  <2>4. ~s.logOpen => relay = s.relay /\ Pending(queue', task') = Pending(queue, task)
    <3> SUFFICES ASSUME ~s.logOpen  PROVE Pending(queue', task') = Pending(queue, task)
      OBVIOUS
    <3>1. ~ses.logOpen /\ ~ses'.logOpen
      BY <1>1, <1>5 DEF Carried
    <3>2. Pending(queue, task) = 0
      BY <1>1, <3>1, NothingPending
    <3>3. << >> \in Seq(Observations) /\ Reported(ses', proc', task', << >>, world)
      BY <1>14
    <3>4. Pending(<< >>, task') = 0
      BY <3>1, <3>3, NothingPending
    <3>5. QED  BY <3>2, <3>4
  <2>5. QED  BY <1>4, <1>5, <1>7, <2>1, <2>2, <2>3, <2>4 DEF Counted, Whole
<1>16. QED  BY <1>8, <1>9, <1>10, <1>14, <1>15 DEF EventsInv

\* The coordinator goes round its loop.
LEMMA CoordinateEvents ==
  ASSUME SessionInv, EventsInv, Coordinate
  PROVE  EventsInv'
<1>1. PICK admits \in Admissions :
        LET s     == LoopHead(Account(ses, admits))
            armed == IF s.drainStarted /\ ~ses.drainStarted
                     THEN Started({"log deadline"}) ELSE task
        IN  IF AttemptOver(s) /\ LogDecided(s)
            THEN /\ Goto([s EXCEPT !.relay = IF s.logOpen
                                             THEN Relay!Decide(@, FALSE, s.acquired)
                                             ELSE @], "ending")
                 /\ task' = armed
                 /\ queue' = << >>
                 /\ UNCHANGED proc
            ELSE IF NeedsCleanup(s)
            THEN /\ UNCHANGED queue
                 /\ Goto([s EXCEPT !.cleanup = "running"],
                         IF queue = << >> THEN "waiting" ELSE "take")
                 /\ task' = [armed EXCEPT !["cleanup"] = "on", !["readiness"] = "done"]
                 /\ proc' = [proc EXCEPT !.stage = "term"]
            ELSE /\ IF CanFinish(s)
                    THEN Goto(s, "settling") /\ task' = [t \in Tasks |->
                           IF t \in ChildTasks THEN "done" ELSE armed[t]]
                    ELSE /\ Goto(s, IF queue = << >> THEN "waiting" ELSE "take")
                         /\ task' = armed
                 /\ UNCHANGED <<queue, proc>>
  BY Zenon DEF Coordinate
<1>2. coord \in {"loop", "yielded"} /\ UNCHANGED <<control, world>>
  BY DEF Coordinate
<1> DEFINE a     == Account(ses, admits)
           s     == LoopHead(a)
           armed == IF s.drainStarted /\ ~ses.drainStarted
                    THEN Started({"log deadline"}) ELSE task
           relay == IF s.logOpen THEN Relay!Decide(s.relay, FALSE, s.acquired) ELSE s.relay
           e     == [s EXCEPT !.relay = relay]
           n     == [s EXCEPT !.cleanup = "running"]
<1>3. \/ /\ ses' = e /\ coord' = "ending" /\ task' = armed /\ queue' = << >>
         /\ proc' = proc /\ AttemptOver(s) /\ LogDecided(s)
      \/ /\ ses' = n /\ coord' \in {"waiting", "take"} /\ queue' = queue
         /\ task' = [armed EXCEPT !["cleanup"] = "on", !["readiness"] = "done"]
         /\ proc' = [proc EXCEPT !.stage = "term"]
      \/ /\ ses' = s /\ coord' \in {"settling", "waiting", "take"} /\ queue' = queue
         /\ proc' = proc
         /\ task' \in {armed, [t \in Tasks |-> IF t \in ChildTasks THEN "done" ELSE armed[t]]}
  BY <1>1 DEF Goto
<1>4. Booked(ses, a) /\ Followed(ses) /\ task \in [Tasks -> TaskStates]
  BY BookedAccounts, EventsTypes
<1> HIDE DEF a
<1>5. Booked(ses, s) /\ Formed(s) /\ Followed(s)
  <2>1. Booked(ses, s)
    BY <1>4, LoopHeadBooked
  <2> HIDE DEF s
  <2>2. QED  BY <2>1 DEF Booked, Carried
<1> HIDE DEF s
<1>6. /\ armed \in [Tasks -> TaskStates] /\ "log" \in Tasks /\ "log deadline" \in Tasks
      /\ \A t \in Tasks \ {"log deadline"} : armed[t] = task[t]
      /\ \/ armed["log deadline"] = task["log deadline"]
         \/ armed["log deadline"] = "on" /\ s.drainStarted
  BY <1>4 DEF Started, Tasks, SessionTasks, TaskStates
<1> HIDE DEF armed
<1>7. s.drainStarted => s.logOpen /\ Ended(s.lc)
  BY <1>5 DEF Followed
<1>8. Softer(s, task, armed) /\ armed["log"] = task["log"]
  BY <1>6, <1>7 DEF Softer
<1>9. CASE /\ ses' = e /\ coord' = "ending" /\ task' = armed /\ queue' = << >>
           /\ proc' = proc /\ AttemptOver(s) /\ LogDecided(s)
  <2>1. Ended(s.lc)
    BY <1>9 DEF AttemptOver, Ended
  <2> HIDE DEF relay
  <2>2. QED  BY <1>2, <1>5, <1>8, <1>9, <2>1, LoopEnds DEF relay
<1>10. CASE /\ ses' = n /\ coord' \in {"waiting", "take"} /\ queue' = queue
            /\ task' = [armed EXCEPT !["cleanup"] = "on", !["readiness"] = "done"]
            /\ proc' = [proc EXCEPT !.stage = "term"]
  <2>1. /\ DOMAIN n = SessionFields /\ n.lc = s.lc /\ n.failures = s.failures
        /\ n.finished \subseteq Streams
        /\ \A f \in LogFields : n[f] = s[f]
    BY <1>5 DEF Formed, SessionFields, LogFields
  <2>2. n.logOpen = s.logOpen
    BY <2>1 DEF LogFields
  <2> HIDE DEF n
  <2>3. Booked(ses, n)
    BY <1>4, <1>5, <2>1, BookedAside
  <2>4. Calmer(ses, proc, proc')
    <3>1. proc \in Processes
      BY DEF SessionInv, Supervised
    <3>2. QED  BY <1>10, <3>1 DEF Calmer, Processes
  <2>5. /\ task'["log"] = armed["log"] /\ task'["log deadline"] = armed["log deadline"]
        /\ \A t \in Tasks : task'[t] = armed[t] \/ task'[t] = "on" \/ task'[t] = "done"
    BY <1>6, <1>10
  <2>6. Softer(ses', task, task') /\ task'["log"] = task["log"]
    BY <1>8, <1>10, <2>1, <2>2, <2>5 DEF Softer
  <2>7. Fewer(queue, queue') /\ coord' \in Idle
    BY <1>10 DEF Fewer, Idle
  <2>8. QED  BY <1>2, <1>10, <2>3, <2>4, <2>6, <2>7, CoordinatorEvents
<1>11. CASE /\ ses' = s /\ coord' \in {"settling", "waiting", "take"} /\ queue' = queue
            /\ proc' = proc
            /\ task' \in {armed, [t \in Tasks |->
                                    IF t \in ChildTasks THEN "done" ELSE armed[t]]}
  <2>1. "log" \notin ChildTasks /\ "log deadline" \notin ChildTasks
    BY SessionConstants DEF SessionTasks, ChildTasks
  <2>2. /\ task'["log"] = armed["log"] /\ task'["log deadline"] = armed["log deadline"]
        /\ \A t \in Tasks : task'[t] = armed[t] \/ task'[t] = "done"
    BY <1>6, <1>11, <2>1
  <2>3. Softer(ses', task, task') /\ task'["log"] = task["log"]
    BY <1>8, <1>11, <2>2 DEF Softer
  <2>4. Fewer(queue, queue') /\ coord' \in Idle /\ Calmer(ses, proc, proc')
    BY <1>11 DEF Fewer, Idle, Calmer
  <2>5. QED  BY <1>2, <1>5, <1>11, <2>3, <2>4, CoordinatorEvents
<1>12. QED  BY <1>3, <1>9, <1>10, <1>11

----------------------------------------------------------------------------
\* The end of the attempt

\* The exit of the owned child is recorded once its failures are heard.
LEMMA BookedExit ==
  ASSUME SessionInv, EventsInv, coord = "settling", NEW s, Noted(ses, s), Booked(ses, s),
         proc.observed \/ proc.state = "reaped"
  PROVE  Booked(ses, RecordExit(s, proc))
<1>1. /\ Core(ses, world) /\ Placed(ses, proc, world, coord) /\ Supervised(ses, proc, world)
      /\ Followed(ses) /\ Formed(s) /\ Followed(s)
  BY DEF SessionInv, EventsInv, Booked, Carried
<1>2. ses.child /\ ses.lc.phase # "Closed" /\ proc.state # "running"
  BY <1>1 DEF Placed, Working, Supervised
<1>3. Core(s, world) /\ Supervised(s, proc, world) /\ s.child /\ s.lc.phase # "Closed"
  <2>1. Core(s, world) /\ Supervised(s, proc, world)
    BY <1>1, NotedCore, NotedSupervised
  <2>2. s.child /\ s.lc.phase # "Closed"
    BY <1>2 DEF Noted, SameHoldings, Later, Ended
  <2>3. QED  BY <2>1, <2>2
<1>4. Core(RecordExit(s, proc), world)
  BY <1>2, <1>3, ExitKeeps
<1>5. Formed(RecordExit(s, proc)) /\ Carried(s, RecordExit(s, proc))
  BY <1>1, <1>4, ExitCarries DEF Core
<1>6. QED  BY <1>1, <1>5, BookedTransitive DEF Booked

\* What the settled attempt forgets, the client was not told.
LEMMA SettlingOnward ==
  ASSUME NEW l, LcSound(l)
  PROVE  Onward(l, SettleAttempt(l, TRUE, TRUE))
<1> DEFINE m == SettleAttempt(l, TRUE, TRUE)
<1>1. l \in Lifecycles
  BY DEF LcSound
<1>2. /\ m.phase = l.phase /\ m.policy = l.policy /\ m.log = l.log
      /\ m.cleanup = l.cleanup
  BY <1>1 DEF SettleAttempt, Lifecycles
<1> HIDE DEF m
<1>3. Onward(l, m)
  BY <1>2 DEF Onward, Ended
<1>4. QED  BY <1>3 DEF m

\* The attempt settles.
LEMMA SettleEvents ==
  ASSUME SessionInv, EventsInv, SettleAttemptStep
  PROVE  EventsInv'
<1>1. PICK admits \in Admissions, stillOpen \in May("lease") :
       LET heard  == Hear(ses, ChildTasks, admits)
           exited == IF proc.observed \/ proc.state = "reaped"
                     THEN RecordExit(heard, proc) ELSE heard
           closed == IF exited.address /\ stillOpen THEN CleanupFails(exited)
                     ELSE [exited EXCEPT !.address = FALSE]
           told   == Account([closed EXCEPT !.settlement = IF proc.disposed
                                              THEN "confirmed" ELSE "unconfirmed"], admits)
           ended  == IF told.lc.phase = "Starting"
                     THEN Stop(told, "startup_failure", "STARTUP_EXIT") ELSE told
           done   == [ended EXCEPT !.attemptFinished = TRUE]
       IN  IF proc.disposed /\ ~done.address
           THEN /\ Goto([done EXCEPT !.lc = SettleAttempt(@, TRUE, TRUE),
                                     !.child = FALSE], "loop")
                /\ UNCHANGED task
           ELSE /\ Goto(LogDisposal(CleanupFails(done), FALSE, admits), "loop")
                /\ task' = IF done.relay.decision = "none" THEN Cancelled({"log"}) ELSE task
  BY Zenon DEF SettleAttemptStep
<1>2. coord = "settling" /\ UNCHANGED <<queue, control, proc, world>>
  BY DEF SettleAttemptStep
<1> DEFINE heard  == Hear(ses, ChildTasks, admits)
           exited == IF proc.observed \/ proc.state = "reaped"
                     THEN RecordExit(heard, proc) ELSE heard
           failed == CleanupFails(exited)
           free   == [exited EXCEPT !.address = FALSE]
           closed == IF exited.address /\ stillOpen THEN failed ELSE free
           settlement == IF proc.disposed THEN "confirmed" ELSE "unconfirmed"
           sett   == [closed EXCEPT !.settlement = settlement]
           told   == Account(sett, admits)
           ended  == IF told.lc.phase = "Starting"
                     THEN Stop(told, "startup_failure", "STARTUP_EXIT") ELSE told
           done   == [ended EXCEPT !.attemptFinished = TRUE]
           over   == [done EXCEPT !.lc = SettleAttempt(@, TRUE, TRUE), !.child = FALSE]
           left   == LogDisposal(CleanupFails(done), FALSE, admits)
<1>3. /\ coord' = "loop"
      /\ \/ ses' = over /\ task' = task
         \/ /\ ses' = left
            /\ task' = IF done.relay.decision = "none" THEN Cancelled({"log"}) ELSE task
  BY <1>1 DEF Goto
<1>4. /\ Formed(ses) /\ Accounted(ses) /\ Followed(ses) /\ task \in [Tasks -> TaskStates]
      /\ ses.acquisition = "child"
  <2>1. /\ Formed(ses) /\ Accounted(ses) /\ Followed(ses) /\ task \in [Tasks -> TaskStates]
    BY EventsTypes DEF EventsInv
  <2>2. ses.child
    BY <1>2 DEF SessionInv, Placed
  <2>3. ses.acquisition = "child"
    BY <2>2 DEF SessionInv, Core, Staged
  <2>4. QED  BY <2>1, <2>3
<1>5. Noted(ses, heard) /\ Booked(ses, heard)
  <2>1. Noted(ses, heard)
    BY <1>4, Hears
  <2>2. Carried(ses, heard)
    BY <1>4, HearCarries
  <2> HIDE DEF heard
  <2>3. QED  BY <2>1, <2>2 DEF Noted, Booked
<1> HIDE DEF heard
<1>6. Booked(ses, exited) /\ Accounted(exited)
  <2>1. CASE proc.observed \/ proc.state = "reaped"
    <3> DEFINE r == RecordExit(heard, proc)
    <3>1. Booked(ses, r)
      BY <1>2, <1>5, <2>1, BookedExit
    <3>2. exited = r
      BY <2>1
    <3>3. Core(r, world)
      <4>1. /\ Core(ses, world) /\ Supervised(ses, proc, world)
            /\ Placed(ses, proc, world, coord)
        BY DEF SessionInv
      <4>2. /\ Core(heard, world) /\ Supervised(heard, proc, world)
        BY <1>5, <4>1, NotedCore, NotedSupervised
      <4>3. heard.child /\ heard.lc.phase # "Closed" /\ proc.state # "running"
        BY <1>2, <1>5, <2>1, <4>1
             DEF Placed, Working, Supervised, Noted, SameHoldings, Later, Ended
      <4>4. QED  BY <4>2, <4>3, ExitKeeps
    <3> HIDE DEF r, exited
    <3>4. QED  BY <3>1, <3>2, <3>3 DEF Core
  <2>2. CASE ~(proc.observed \/ proc.state = "reaped")
    BY <1>4, <1>5, <2>2, NotedAccounted
  <2>3. QED  BY <2>1, <2>2
<1> HIDE DEF exited
<1>7. Formed(exited)
  BY <1>6 DEF Booked
<1>8. Booked(ses, failed) /\ Accounted(failed)
  <2>1. Noted(exited, failed)
    BY <1>7, CleanupFailureTold
  <2>2. Booked(ses, failed)
    BY <1>4, <1>6, BookedFails
  <2> HIDE DEF failed
  <2>3. QED  BY <1>6, <2>1, <2>2, NotedAccounted
<1>9. Booked(ses, free) /\ Accounted(free)
  <2>1. /\ DOMAIN free = SessionFields /\ free.lc = exited.lc
        /\ free.finished \subseteq Streams
        /\ free.failures = exited.failures
        /\ free.sigAccounted = exited.sigAccounted
        /\ free.leaseAccounted = exited.leaseAccounted
        /\ \A f \in LogFields : free[f] = exited[f]
    BY <1>7 DEF Formed, SessionFields, LogFields
  <2> HIDE DEF free
  <2>2. QED  BY <1>4, <1>6, <2>1, BookedAside DEF Accounted
<1>10. Booked(ses, closed) /\ Accounted(closed) /\ Formed(closed)
  <2>1. closed \in {failed, free}
    OBVIOUS
  <2> HIDE DEF failed, free, closed
  <2>2. QED  BY <1>8, <1>9, <2>1 DEF Booked
<1> HIDE DEF closed, settlement
<1>11. Booked(ses, sett) /\ Accounted(sett) /\ Formed(sett) /\ Followed(sett)
  <2>1. /\ DOMAIN sett = SessionFields /\ sett.lc = closed.lc
        /\ sett.finished \subseteq Streams
        /\ sett.failures = closed.failures
        /\ sett.sigAccounted = closed.sigAccounted
        /\ sett.leaseAccounted = closed.leaseAccounted
        /\ \A f \in LogFields : sett[f] = closed[f]
    BY <1>10 DEF Formed, SessionFields, LogFields
  <2> HIDE DEF sett
  <2>2. Booked(ses, sett)
    BY <1>4, <1>10, <2>1, BookedAside
  <2>3. QED  BY <1>10, <2>1, <2>2 DEF Accounted, Booked, Carried
<1> HIDE DEF sett
<1>12. Booked(ses, told)
  <2>1. Carried(sett, told) /\ Noted(sett, told)
    BY <1>11, AccountCarries, Accounts
  <2> HIDE DEF told
  <2>2. QED  BY <1>4, <1>11, <2>1, BookedTransitive DEF Booked, Noted
<1> HIDE DEF told
<1>13. Booked(ses, ended)
  <2>1. "startup_failure" \in Triggers /\ "STARTUP_EXIT" \in SessionFailures
    BY DEF Triggers, SessionFailures
  <2>2. QED  BY <1>4, <1>12, <2>1, BookedStops
<1> HIDE DEF ended
<1>14. Booked(ses, done) /\ Formed(done) /\ Followed(done)
  <2>1. Formed(ended)
    BY <1>13 DEF Booked
  <2>2. /\ DOMAIN done = SessionFields /\ done.lc = ended.lc
        /\ done.finished \subseteq Streams
        /\ done.failures = ended.failures
        /\ \A f \in LogFields : done[f] = ended[f]
    BY <2>1 DEF Formed, SessionFields, LogFields
  <2> HIDE DEF done
  <2>3. Booked(ses, done)
    BY <1>4, <1>13, <2>2, BookedAside
  <2>4. QED  BY <2>3 DEF Booked, Carried
<1>15. done.acquisition = "child" /\ done.logOpen = ses.logOpen
  BY <1>4, <1>14 DEF Booked, Carried
<1> HIDE DEF done
<1>16. "loop" \in Idle /\ Fewer(queue, queue') /\ Calmer(ses, proc, proc')
  BY <1>2 DEF Idle, Fewer, Calmer
<1>17. CASE ses' = over /\ task' = task
  <2> DEFINE l == SettleAttempt(done.lc, TRUE, TRUE)
  <2>1. /\ DOMAIN over = SessionFields /\ over.lc = l
        /\ over.order = done.order /\ over.failures = done.failures
        /\ over.finished = done.finished
        /\ \A f \in LogFields : over[f] = done[f]
    BY <1>14 DEF Formed, SessionFields, LogFields
  <2>2. done.lc.phase # "Closed"
    <3>1. ses.lc.phase # "Closed"
      BY <1>2 DEF SessionInv, Placed, Working
    <3>2. QED  BY <1>14, <3>1 DEF Booked, Carried, Onward
  <2>3. LcSound(l) /\ Onward(done.lc, l)
    <3> DEFINE d == done.lc
    <3>1. LcSound(d) /\ d.phase # "Closed"
      BY <1>14, <2>2 DEF Formed
    <3> HIDE DEF d
    <3>2. LcSound(SettleAttempt(d, TRUE, TRUE)) /\ Onward(d, SettleAttempt(d, TRUE, TRUE))
      BY <3>1, Settles, SettlingOnward
    <3>3. QED  BY <3>2 DEF d
  <2> HIDE DEF l, over
  <2>4. Carried(done, over)
    BY <1>14, <2>1, <2>3, CarriedAside
  <2>5. Formed(over)
    BY <1>14, <2>1, <2>3 DEF Formed
  <2>6. Booked(ses, over)
    BY <1>4, <1>14, <2>4, <2>5, BookedTransitive DEF Booked
  <2>7. Softer(ses', task, task')
    BY <1>17 DEF Softer
  <2>8. QED  BY <1>2, <1>3, <1>16, <1>17, <2>6, <2>7, CoordinatorEvents
<1>18. CASE /\ ses' = left
            /\ task' = IF done.relay.decision = "none" THEN Cancelled({"log"}) ELSE task
  <2> DEFINE f == CleanupFails(done)
  <2>1. Booked(ses, f)
    BY <1>4, <1>14, BookedFails
  <2>2. f.relay.decision = done.relay.decision /\ f.acquisition = "child"
        /\ f.logOpen = ses.logOpen
    <3>1. f.relay = done.relay
      BY <1>14 DEF CleanupFails, Stop, Formed, SessionFields
    <3> HIDE DEF f
    <3>2. QED  BY <1>4, <2>1, <3>1 DEF Booked, Carried
  <2> HIDE DEF f
  <2>3. Formed(f) /\ Followed(f)
    BY <2>1 DEF Booked, Carried
  <2>4. \A confirmed, ad : LET t == LogDisposal(f, confirmed, ad) IN
           /\ Carried(f, t) /\ Noted(f, t)
           /\ f.logOpen /\ ~confirmed => ~Unspoilt(t.relay)
    BY <2>2, <2>3, LogDisposalCarries, LogDisposes
  <2> DEFINE t == LogDisposal(f, FALSE, admits)
  <2>5. Carried(f, t) /\ Noted(f, t) /\ (f.logOpen => ~Unspoilt(t.relay))
    BY <2>4, Zenon
  <2>6. ses' = t
    BY <1>18 DEF f
  <2> HIDE DEF t
  <2>7. Booked(ses, ses')
    BY <1>4, <2>1, <2>5, <2>6, BookedTransitive DEF Booked, Noted
  <2>8. ~Unspoilt(ses'.relay) \/ ~ses.logOpen
    BY <2>2, <2>5, <2>6
  <2>9. Softer(ses', task, task')
    <3>1. \A x \in Tasks : task'[x] = task[x] \/ task'[x] = "done"
      BY <1>4, <1>18 DEF Cancelled
    <3>2. QED  BY <1>4, <3>1, EventsTypes DEF Softer
  <2> HIDE DEF left
  <2>10. QED  BY <1>2, <1>3, <1>16, <2>7, <2>8, <2>9, CoordinatorEvents
<1>19. QED  BY <1>3, <1>17, <1>18

----------------------------------------------------------------------------
\* The end of the session

\* While the session ends, the log is decided or was never opened.
LEMMA EndingDecided ==
  ASSUME SessionInv, EventsInv, coord \in Ending \cup Late
  PROVE  /\ Formed(ses) /\ Followed(ses) /\ Accounted(ses)
         /\ ses.logOpen => ses.relay.decision # "none"
         /\ ses.relay.buffer = << >>
         /\ ~Unspoilt(ses.relay) \/ ~ses.logOpen
<1>1. /\ Formed(ses) /\ Followed(ses) /\ Accounted(ses)
      /\ ses.logOpen => ses.relay.decision # "none"
  BY EventsTypes DEF EventsInv, Timely
<1>2. Relay!Opened.buffer = << >>
  BY DEF Relay!Opened
<1>3. ses.relay.buffer = << >>
  BY <1>1, <1>2 DEF Followed, RelaySound
<1>4. QED  BY <1>1, <1>3 DEF Unspoilt

\* Bookkeeping leaves the session as it ends.
LEMMA EndingEvents ==
  ASSUME SessionInv, EventsInv, Booked(ses, ses'), UNCHANGED <<queue, control, proc, world>>,
         \A t \in Tasks : task'[t] = task[t] \/ task'[t] = "done",
         \/ coord \in Ending /\ coord' \in Ending
         \/ coord \in Late /\ coord' \in {"exiting", "exited"}
  PROVE  EventsInv'
<1>1. /\ Followed(ses) /\ Timely(ses, coord) /\ Sensible(ses, control, world)
      /\ Reported(ses, proc, task, queue, world) /\ Counted(ses, proc, task, queue)
      /\ queue \in Seq(Observations) /\ Carried(ses, ses')
  BY EventsTypes DEF EventsInv, Booked
<1>2. Timely(ses', coord)
  BY <1>1, TimelyOn
<1>3. Timely(ses', coord')
  BY <1>2 DEF Timely, Ending, Late
<1>4. Sensible(ses', control', world)
  BY <1>1, SensibleOn
<1>5. ~Unspoilt(ses'.relay) \/ ~ses.logOpen
  <2>1. ~Unspoilt(ses.relay) \/ ~ses.logOpen
    BY EndingDecided
  <2>2. QED  BY <1>1, <2>1 DEF Carried, Passed
<1>6. Fewer(queue, queue') /\ Calmer(ses, proc, proc') /\ Softer(ses', task, task')
  BY EventsTypes DEF Fewer, Calmer, Softer
<1>7. QED  BY <1>1, <1>3, <1>4, <1>5, <1>6, EventsGoOn

\* The tasks of the session are cancelled.
LEMMA CancelEvents ==
  ASSUME SessionInv, EventsInv, CancelSessionTasks
  PROVE  EventsInv'
<1>1. PICK admits \in Admissions : Goto(Hear(ses, SessionTasks, admits), "closing")
  BY DEF CancelSessionTasks
<1> DEFINE h == Hear(ses, SessionTasks, admits)
<1>2. /\ ses' = h /\ coord' = "closing" /\ task' = Cancelled(SessionTasks)
      /\ coord = "ending" /\ UNCHANGED <<queue, control, proc, world>>
  BY <1>1 DEF CancelSessionTasks, Goto
<1>3. Formed(ses) /\ Followed(ses)
  BY EventsTypes DEF EventsInv
<1>4. Booked(ses, h)
  <2>1. Carried(ses, h) /\ Noted(ses, h)
    BY <1>3, HearCarries, Hears
  <2> HIDE DEF h
  <2>2. QED  BY <2>1 DEF Booked, Noted
<1> HIDE DEF h
<1>5. \A t \in Tasks : task'[t] = task[t] \/ task'[t] = "done"
  BY <1>2, CancelledTasks DEF SessionInv
<1>6. QED  BY <1>2, <1>4, <1>5, EndingEvents DEF Ending

\* The address and the workspace are given up.
LEMMA ReleaseEvents ==
  ASSUME SessionInv, EventsInv, ReleaseWorkspace
  PROVE  EventsInv'
<1>1. PICK stillOpen \in May("lease"), stays \in May("remove") :
       LET s == IF ses.address /\ stillOpen THEN CleanupFails(ses)
                ELSE [ses EXCEPT !.address = FALSE]
           r == [s EXCEPT !.readiness = FALSE, !.stagingClosed = TRUE]
       IN  IF ~ChildDisposed(r) \/ r.address THEN Goto(CleanupFails(r), "freezing")
           ELSE IF stays
           THEN Goto(CleanupFails([r EXCEPT !.marker = FALSE]), "freezing")
           ELSE Goto([r EXCEPT !.marker = FALSE, !.workspace = FALSE], "freezing")
  BY Zenon DEF ReleaseWorkspace
<1> DEFINE failed == CleanupFails(ses)
           free   == [ses EXCEPT !.address = FALSE]
           s == IF ses.address /\ stillOpen THEN failed ELSE free
           r == [s EXCEPT !.readiness = FALSE, !.stagingClosed = TRUE]
           m == [r EXCEPT !.marker = FALSE]
           g == [r EXCEPT !.marker = FALSE, !.workspace = FALSE]
<1>2. /\ coord = "closing" /\ coord' = "freezing"
      /\ UNCHANGED <<queue, task, control, proc, world>>
      /\ ses' = CleanupFails(r) \/ ses' = CleanupFails(m) \/ ses' = g
  BY <1>1 DEF ReleaseWorkspace, Goto
<1>3. Formed(ses) /\ Followed(ses)
  BY EventsTypes DEF EventsInv
<1>4. Booked(ses, ses)
  BY <1>3, BookedReflexive
<1>5. Booked(ses, failed)
  BY <1>3, <1>4, BookedFails
<1>6. Booked(ses, free)
  <2>1. /\ DOMAIN free = SessionFields /\ free.lc = ses.lc /\ free.failures = ses.failures
        /\ free.finished \subseteq Streams
        /\ \A f \in LogFields : free[f] = ses[f]
    BY <1>3 DEF Formed, SessionFields, LogFields
  <2> HIDE DEF free
  <2>2. QED  BY <1>3, <1>4, <2>1, BookedAside
<1>7. s \in {failed, free}
  OBVIOUS
<1> HIDE DEF failed, free, s
<1>8. Booked(ses, s) /\ Formed(s)
  BY <1>5, <1>6, <1>7 DEF Booked
<1>9. Booked(ses, r) /\ Formed(r)
  <2>1. /\ DOMAIN r = SessionFields /\ r.lc = s.lc /\ r.failures = s.failures
        /\ r.finished \subseteq Streams
        /\ \A f \in LogFields : r[f] = s[f]
    BY <1>8 DEF Formed, SessionFields, LogFields
  <2> HIDE DEF r
  <2>2. Booked(ses, r)
    BY <1>3, <1>8, <2>1, BookedAside
  <2>3. QED  BY <2>2 DEF Booked
<1> HIDE DEF r
<1>10. Booked(ses, m)
  <2>1. /\ DOMAIN m = SessionFields /\ m.lc = r.lc /\ m.failures = r.failures
        /\ m.finished \subseteq Streams
        /\ \A f \in LogFields : m[f] = r[f]
    BY <1>9 DEF Formed, SessionFields, LogFields
  <2> HIDE DEF m
  <2>2. QED  BY <1>3, <1>9, <2>1, BookedAside
<1>11. Booked(ses, g)
  <2>1. /\ DOMAIN g = SessionFields /\ g.lc = r.lc /\ g.failures = r.failures
        /\ g.finished \subseteq Streams
        /\ \A f \in LogFields : g[f] = r[f]
    BY <1>9 DEF Formed, SessionFields, LogFields
  <2> HIDE DEF g
  <2>2. QED  BY <1>3, <1>9, <2>1, BookedAside
<1>12. Booked(ses, CleanupFails(r)) /\ Booked(ses, CleanupFails(m))
  <2> HIDE DEF m
  <2>1. QED  BY <1>3, <1>9, <1>10, BookedFails
<1> HIDE DEF m, g
<1>13. Booked(ses, ses')
  BY <1>2, <1>11, <1>12
<1>14. QED  BY <1>2, <1>13, EndingEvents DEF Ending

\* The session with its attempt settled and its failures accounted.
LEMMA SnapshotBooked ==
  ASSUME SessionInv, EventsInv, coord = "freezing", NEW settled,
         settled = IF ChildDisposed(ses) /\ ~ses.address /\ ses.acquisition # "none"
                   THEN [ses EXCEPT !.lc = SettleAttempt(@, TRUE, TRUE)] ELSE ses,
         NEW admits
  PROVE  Booked(ses, Account(settled, admits)) /\ Noted(settled, Account(settled, admits))
<1>1. Formed(ses) /\ Followed(ses)
  BY EventsTypes DEF EventsInv
<1>2. Formed(settled) /\ Accounted(settled)
  BY SettledForSnapshot DEF Frozenable
<1>3. Carried(ses, settled)
  <2>1. CASE settled = ses
    BY <1>1, <2>1, CarriedReflexive
  <2>2. CASE settled = [ses EXCEPT !.lc = SettleAttempt(@, TRUE, TRUE)]
    <3> DEFINE d == ses.lc
    <3>1. LcSound(d)
      BY <1>1 DEF Formed
    <3>2. /\ settled.lc = SettleAttempt(d, TRUE, TRUE)
          /\ \A f \in LogFields : settled[f] = ses[f]
      BY <1>1, <2>2 DEF Formed, SessionFields, LogFields
    <3> HIDE DEF d
    <3>3. Onward(d, settled.lc)
      BY <3>1, <3>2, SettlingOnward
    <3>4. QED  BY <1>1, <3>2, <3>3, CarriedAside DEF d
  <2>3. QED  BY <2>1, <2>2
<1>4. Followed(settled)
  BY <1>3 DEF Carried
<1>5. /\ Carried(settled, Account(settled, admits))
      /\ Noted(settled, Account(settled, admits))
  BY <1>2, <1>4, AccountCarries, Accounts
<1>6. Booked(ses, settled) /\ Booked(settled, Account(settled, admits))
  BY <1>2, <1>3, <1>5 DEF Booked, Noted
<1>7. QED  BY <1>1, <1>5, <1>6, BookedTransitive

\* A complete log that was opened was decided complete, and its child is disposed of.
LEMMA CompleteReport ==
  ASSUME NEW s, s.started, want.log, s.logOpen, s.relay.decision # "none", NEW cleanup,
         LogReport(s, cleanup) = "complete"
  PROVE  s.relay.decision = "complete" /\ cleanup.child # "unconfirmed"
<1>1. Relay!Decide(s.relay, FALSE, TRUE) = s.relay
  BY DEF Relay!Decide
<1>2. Relay!Report(s.relay, cleanup.child # "unconfirmed") = "complete"
  BY DEF LogReport
<1>3. QED  BY <1>1, <1>2 DEF Relay!Report

\* The snapshot is taken, or is refused.
LEMMA FreezeEvents ==
  ASSUME SessionInv, EventsInv, FreezeSnapshot
  PROVE  EventsInv'
<1>1. PICK admits \in Admissions :
       LET cleanup == CleanupReport(ses)
           settled == IF ChildDisposed(ses) /\ ~ses.address /\ ses.acquisition # "none"
                      THEN [ses EXCEPT !.lc = SettleAttempt(@, TRUE, TRUE)] ELSE ses
           s       == Account(settled, admits)
           log     == LogReport(s, cleanup)
       IN  IF CanFreeze(s.lc, cleanup, log)
           THEN Goto([s EXCEPT !.lc = Freeze(@, cleanup, log)], "delivering")
           ELSE Goto([s EXCEPT !.status = 1], "crashed")
  BY Zenon DEF FreezeSnapshot
<1> DEFINE cleanup == CleanupReport(ses)
           settled == IF ChildDisposed(ses) /\ ~ses.address /\ ses.acquisition # "none"
                      THEN [ses EXCEPT !.lc = SettleAttempt(@, TRUE, TRUE)] ELSE ses
           s       == Account(settled, admits)
           log     == LogReport(s, cleanup)
           f       == [s EXCEPT !.lc = Freeze(@, cleanup, log)]
           c       == [s EXCEPT !.status = 1]
<1>2. /\ coord = "freezing" /\ UNCHANGED <<queue, task, control, proc, world>>
      /\ \/ ses' = f /\ coord' = "delivering"
         \/ ses' = c /\ coord' = "crashed"
  BY <1>1 DEF FreezeSnapshot, Goto
<1>3. Booked(ses, s) /\ Noted(settled, s)
  <2>1. settled = IF ChildDisposed(ses) /\ ~ses.address /\ ses.acquisition # "none"
                  THEN [ses EXCEPT !.lc = SettleAttempt(@, TRUE, TRUE)] ELSE ses
    OBVIOUS
  <2> HIDE DEF settled
  <2>2. QED  BY <1>2, <2>1, SnapshotBooked
<1>4. "freezing" \in Ending
  BY DEF Ending
<1>5. /\ Formed(ses) /\ Followed(ses)
      /\ ses.logOpen => ses.relay.decision # "none"
      /\ ~Unspoilt(ses.relay) \/ ~ses.logOpen
      /\ Timely(ses, coord) /\ Sensible(ses, control, world)
      /\ Reported(ses, proc, task, queue, world) /\ Counted(ses, proc, task, queue)
      /\ queue \in Seq(Observations)
  BY <1>2, <1>4, EndingDecided, EventsTypes DEF EventsInv
<1>6. ses.lc.phase = "Terminating"
  BY <1>2, <1>4 DEF SessionInv, Placed
<1> HIDE DEF settled, s
<1>7. Formed(s) /\ Followed(s) /\ Carried(ses, s)
  BY <1>3 DEF Booked, Carried
<1>8. CASE ses' = c /\ coord' = "crashed"
  <2>1. /\ DOMAIN c = SessionFields /\ c.lc = s.lc /\ c.failures = s.failures
        /\ c.finished \subseteq Streams
        /\ \A x \in LogFields : c[x] = s[x]
    BY <1>7 DEF Formed, SessionFields, LogFields
  <2> HIDE DEF c
  <2>2. Booked(ses, ses')
    BY <1>3, <1>5, <1>8, <2>1, BookedAside
  <2>3. coord \in Ending /\ coord' \in Ending
    BY <1>2, <1>8 DEF Ending
  <2>4. QED  BY <1>2, <2>2, <2>3, EndingEvents
<1>9. CASE ses' = f /\ coord' = "delivering"
  <2> DEFINE l == Freeze(s.lc, cleanup, log)
  <2>1. /\ DOMAIN f = SessionFields /\ f.lc = l
        /\ \A x \in SessionFields \ {"lc"} : f[x] = s[x]
    BY <1>7 DEF Formed, SessionFields
  <2>2. /\ f.order = s.order /\ f.relay = s.relay /\ f.logOpen = s.logOpen
        /\ f.started = s.started /\ f.acquired = s.acquired
        /\ f.acquisition = s.acquisition /\ f.drainStarted = s.drainStarted
    BY <2>1 DEF SessionFields
  <2>3. l.phase = "Closed" /\ l.cleanup = cleanup /\ l.log = log
    <3> DEFINE d == s.lc
    <3>1. d \in Lifecycles
      BY <1>7 DEF Formed, LcSound
    <3> HIDE DEF d, cleanup, log
    <3>2. LET m == Freeze(d, cleanup, log) IN
          m.phase = "Closed" /\ m.cleanup = cleanup /\ m.log = log
      BY <3>1 DEF Freeze, Lifecycles
    <3>3. QED  BY <3>2 DEF d
  <2>4. Ended(l) /\ Ended(ses.lc)
    BY <1>6, <2>3 DEF Ended
  <2> HIDE DEF l, f
  <2>5. Followed(f)
    BY <1>7, <2>1, <2>2, <2>4 DEF Followed
  <2>6. /\ s.logOpen = ses.logOpen /\ s.started = ses.started /\ s.acquired = ses.acquired
        /\ s.acquisition = ses.acquisition /\ Passed(ses.relay, s.relay)
        /\ s.order.created = ses.order.created /\ s.order.policy = ses.order.policy
        /\ s.order.logRequested = ses.order.logRequested
        /\ s.order.ended = ses.order.ended /\ s.order.fault = ses.order.fault
        /\ s.order.attempted = ses.order.attempted /\ s.order.ready = ses.order.ready
    BY <1>5, <1>7 DEF Carried, Followed, Orders
  <2>7. Calmer(ses, proc, proc')
    BY <1>2 DEF Calmer
  <2>8. Firmer(ses, proc, f, proc', world)
    BY <1>2, <2>1, <2>2, <2>4, <2>6 DEF Firmer, Asked
  <2>9. Sensible(f, control', world)
    BY <1>2, <1>5, <2>1, <2>2, <2>3, <2>6 DEF Sensible, Asked
  <2>10. s.logOpen => s.relay.decision # "none"
    BY <1>5, <2>6 DEF Passed
  <2>11. s.logOpen => s.started /\ want.log
    BY <1>5, <2>6 DEF Sensible, want
  <2>12. s.logOpen /\ log = "complete" =>
           s.relay.decision = "complete" /\ cleanup.child # "unconfirmed"
    <3> HIDE DEF cleanup
    <3>1. QED  BY <2>10, <2>11, CompleteReport
  <2>13. ~Delivered(f.order)
    BY <1>2, <1>5, <2>2, <2>6 DEF Timely, Delivered
  <2> HIDE DEF cleanup, log
  <2>14. Timely(f, "delivering")
    BY <2>1, <2>2, <2>3, <2>10, <2>12, <2>13 DEF Timely, Late
  <2>15. ~Unspoilt(f.relay) \/ ~ses.logOpen
    BY <1>5, <2>2, <2>6 DEF Passed
  <2>16. Fewer(queue, queue') /\ Softer(f, task, task')
    BY <1>2 DEF Fewer, Softer
  <2>17. QED  BY <1>2, <1>5, <1>9, <2>2, <2>5, <2>6, <2>7, <2>8, <2>9, <2>14, <2>15, <2>16,
                 EventsMove
<1>10. QED  BY <1>2, <1>8, <1>9

----------------------------------------------------------------------------
\* The terminal event

\* The client accepts the snapshot, or disagrees about the log alone.
LEMMA SnapshotAccepted ==
  ASSUME SessionInv, EventsInv, coord = "delivering"
  PROVE  LET n == Order!SessionEnded(ses.order, ses.lc.outcome.result.seen,
                                     ses.lc.cleanup.child, ses.lc.cleanup.workspace,
                                     ses.lc.log, IF ses.logOpen THEN ses.relay.admitted ELSE 0)
         IN  \/ n = [ses.order EXCEPT !.ended = TRUE]
             \/ n = [ses.order EXCEPT !.fault = LogReportRefused]
<1> DEFINE o         == ses.order
           seen      == ses.lc.outcome.result.seen
           child     == ses.lc.cleanup.child
           workspace == ses.lc.cleanup.workspace
           log       == ses.lc.log
           count     == IF ses.logOpen THEN ses.relay.admitted ELSE 0
           complaint == Order!TerminalComplaint(o, seen, child, workspace, log, count)
<1>1. /\ Formed(ses) /\ Followed(ses) /\ Timely(ses, coord) /\ coord \in Late
  BY EventsTypes DEF EventsInv, Late
<1>2. o \in Orders /\ ~o.ended /\ o.fault = "none"
  BY <1>1 DEF Followed, Timely, Delivered
<1>3. /\ Core(ses, world) /\ ses.lc.phase = "Closed"
      /\ ses.lc.cleanup = CleanupReport(ses)
  BY <1>1 DEF SessionInv, Placed
<1>4. count = o.bytes
  <2>1. Relay!Opened.admitted = 0
    BY DEF Relay!Opened
  <2>2. QED  BY <1>1, <2>1 DEF Followed
<1>5. workspace # "not_created" /\ (child = "not_acquired" => ~ses.acquired)
  BY <1>3, CleanupReports
<1>6. (o.ready \/ o.output) => child # "not_acquired"
  BY <1>1, <1>5 DEF Followed
<1>7. seen => o.attempted
  <2>1. Ended(ses.lc) /\ LcSound(ses.lc)
    BY <1>1, <1>3 DEF Ended, Formed
  <2>2. ses.lc.outcome.result = ses.lc.attempt.result
    BY <2>1 DEF LcSound
  <2>3. seen => ses.acquired
    BY <1>3, <2>2 DEF Core, Staged
  <2>4. QED  BY <1>1, <2>3 DEF Followed
<1> HIDE DEF o, seen, child, workspace, log, count
<1>8. complaint \in {"none", LogReportRefused}
  BY <1>2, <1>4, <1>5, <1>6, <1>7 DEF Order!TerminalComplaint, LogReportRefused
<1>9. Order!SessionEnded(o, seen, child, workspace, log, count) =
        IF complaint = "none" THEN [o EXCEPT !.ended = TRUE]
        ELSE [o EXCEPT !.fault = complaint]
  <2>1. complaint = Order!TerminalComplaint(o, seen, child, workspace, log, count)
    OBVIOUS
  <2> HIDE DEF complaint
  <2>2. QED  BY <1>2, <2>1 DEF Order!SessionEnded, Order!Judge, Order!InSession
<1> HIDE DEF complaint
<1>10. LogReportRefused # "none"
  BY DEF LogReportRefused
<1>11. \/ Order!SessionEnded(o, seen, child, workspace, log, count) = [o EXCEPT !.ended = TRUE]
       \/ Order!SessionEnded(o, seen, child, workspace, log, count)
            = [o EXCEPT !.fault = LogReportRefused]
  BY <1>8, <1>9, <1>10
<1>12. QED  BY <1>11 DEF o, seen, child, workspace, log, count

\* The client is told the snapshot.
LEMMA SnapshotTold ==
  ASSUME SessionInv, EventsInv, coord = "delivering", coord' = "draining", NEW order,
         order = [ses.order EXCEPT !.ended = TRUE]
           \/ order = [ses.order EXCEPT !.fault = LogReportRefused],
         ses' = [ses EXCEPT !.order = order], UNCHANGED <<queue, task, control, proc, world>>
  PROVE  EventsInv'
<1>1. coord \in Ending \cup Late
  BY DEF Late
<1>2. /\ Formed(ses) /\ Followed(ses)
      /\ ses.logOpen => ses.relay.decision # "none"
      /\ ses.relay.buffer = << >>
      /\ ~Unspoilt(ses.relay) \/ ~ses.logOpen
      /\ Timely(ses, coord) /\ Sensible(ses, control, world)
      /\ Reported(ses, proc, task, queue, world) /\ Counted(ses, proc, task, queue)
      /\ queue \in Seq(Observations)
  BY <1>1, EndingDecided, EventsTypes DEF EventsInv
<1>3. ses.order \in Orders
  BY <1>2 DEF Followed
<1>4. /\ order \in Orders /\ order.bytes = ses.order.bytes
      /\ order.output = ses.order.output /\ order.ready = ses.order.ready
      /\ order.attempted = ses.order.attempted /\ order.created = ses.order.created
      /\ order.policy = ses.order.policy /\ order.logRequested = ses.order.logRequested
  BY <1>3 DEF Orders
<1> DEFINE t == ses'
<1>5. /\ t.order = order /\ t.relay = ses.relay /\ t.lc = ses.lc /\ t.logOpen = ses.logOpen
      /\ t.started = ses.started /\ t.acquired = ses.acquired
      /\ t.acquisition = ses.acquisition /\ t.drainStarted = ses.drainStarted
  BY <1>2 DEF Formed, SessionFields
<1> HIDE DEF t
<1>6. Followed(t)
  BY <1>2, <1>4, <1>5 DEF Followed
<1>7. Timely(t, coord')
  BY <1>2, <1>5 DEF Timely, Late, Ending
<1>8. Sensible(t, control', world)
  BY <1>2, <1>4, <1>5 DEF Sensible, Asked
<1>9. Firmer(ses, proc, t, proc', world)
  BY <1>2, <1>4, <1>5 DEF Firmer, Asked
<1>10. Calmer(ses, proc, proc') /\ Fewer(queue, queue') /\ Softer(t, task, task')
  BY DEF Calmer, Fewer, Softer
<1>11. Passed(ses.relay, t.relay)
  BY <1>2, <1>5 DEF Passed
<1>12. QED  BY <1>2, <1>5, <1>6, <1>7, <1>8, <1>9, <1>10, <1>11, EventsMove DEF t

\* A terminal event that could not be delivered ends in the exit status.
LEMMA UndeliveredEvents ==
  ASSUME SessionInv, EventsInv, coord \in Late, coord' = "exiting",
         ses' = ses \/ ses' = Stop(ses, "output_failure", "TERMINAL_DELIVERY"),
         UNCHANGED <<queue, task, control, proc, world>>
  PROVE  EventsInv'
<1>1. Formed(ses) /\ Followed(ses)
  BY EventsTypes DEF EventsInv
<1>2. Booked(ses, ses)
  BY <1>1, BookedReflexive
<1>3. "output_failure" \in Triggers /\ "TERMINAL_DELIVERY" \in SessionFailures
  BY DEF Triggers, SessionFailures
<1>4. Booked(ses, Stop(ses, "output_failure", "TERMINAL_DELIVERY"))
  BY <1>1, <1>2, <1>3, BookedStops
<1>5. Booked(ses, ses')
  BY <1>2, <1>4
<1>6. QED  BY <1>5, EndingEvents

\* The terminal event, the rest of the output, and the exit.
LEMMA LateEvents ==
  ASSUME SessionInv, EventsInv, EmitTerminal \/ DrainOutput \/ Exit
  PROVE  EventsInv'
<1>1. CASE EmitTerminal
  <2> DEFINE order == Order!SessionEnded(ses.order, ses.lc.outcome.result.seen,
                        ses.lc.cleanup.child, ses.lc.cleanup.workspace, ses.lc.log,
                        IF ses.logOpen THEN ses.relay.admitted ELSE 0)
  <2>1. /\ coord = "delivering" /\ UNCHANGED <<queue, task, control, proc, world>>
        /\ \/ ses' = Stop(ses, "output_failure", "TERMINAL_DELIVERY") /\ coord' = "exiting"
           \/ ses' = [ses EXCEPT !.order = order] /\ coord' = "draining"
    BY <1>1 DEF EmitTerminal, Goto
  <2>2. \/ order = [ses.order EXCEPT !.ended = TRUE]
        \/ order = [ses.order EXCEPT !.fault = LogReportRefused]
    BY <2>1, SnapshotAccepted
  <2> HIDE DEF order
  <2>3. coord \in Late
    BY <2>1 DEF Late
  <2>4. QED  BY <2>1, <2>2, <2>3, SnapshotTold, UndeliveredEvents
<1>2. CASE DrainOutput
  <2>1. /\ coord = "draining" /\ coord' = "exiting"
        /\ UNCHANGED <<queue, task, control, proc, world>>
        /\ ses' = ses \/ ses' = Stop(ses, "output_failure", "TERMINAL_DELIVERY")
    BY <1>2 DEF DrainOutput, Goto
  <2>2. coord \in Late
    BY <2>1 DEF Late
  <2>3. QED  BY <2>1, <2>2, UndeliveredEvents
<1>3. CASE Exit
  <2> DEFINE s      == Account(ses, FALSE)
             policy == IF s.started THEN want.policy ELSE "live_server"
             status == IF s.lc.local # << >> \/ SnapshotFailed(s.lc, policy) THEN 1 ELSE 0
             e      == [s EXCEPT !.status = status]
  <2>1. /\ coord = "exiting" /\ coord' = "exited" /\ ses' = e /\ task' = Cancelled(Tasks)
        /\ UNCHANGED <<queue, control, proc, world>>
    BY <1>3 DEF Exit, Goto
  <2>2. \A admits : Booked(ses, Account(ses, admits)) /\ Followed(ses)
    BY BookedAccounts
  <2>3. Booked(ses, s) /\ Followed(ses)
    BY <2>2, Zenon
  <2> HIDE DEF s, status
  <2>4. Formed(s)
    BY <2>3 DEF Booked
  <2>5. /\ DOMAIN e = SessionFields /\ e.lc = s.lc /\ e.failures = s.failures
        /\ e.finished \subseteq Streams
        /\ \A f \in LogFields : e[f] = s[f]
    BY <2>4 DEF Formed, SessionFields, LogFields
  <2> HIDE DEF e
  <2>6. Booked(ses, e)
    BY <2>3, <2>5, BookedAside
  <2>7. \A t \in Tasks : task'[t] = task[t] \/ task'[t] = "done"
    BY <2>1 DEF Cancelled
  <2>8. coord \in Late
    BY <2>1 DEF Late
  <2>9. QED  BY <2>1, <2>6, <2>7, <2>8, EndingEvents
<1>4. QED  BY <1>1, <1>2, <1>3

----------------------------------------------------------------------------
\* Where READY is committed

\* An observation leaves the lifecycle and the coordinator where they are.
LEMMA ObserveAside ==
  ASSUME SessionInv, Observe \/ Environment
  PROVE  coord' = coord /\ ses'.lc = ses.lc
<1>1. DOMAIN ses = SessionFields /\ "lc" \in SessionFields
  BY DEF SessionInv, Core, Formed, SessionFields
<1>2. CASE \E t \in Tasks : FinishPut(t) \/ ObserverFails(t)
  BY <1>1, <1>2 DEF FinishPut, ObserverFails
<1>3. CASE \E t \in Streams : ReadOutput(t) \/ ReadOutputEOF(t)
  BY <1>3 DEF ReadOutput, ReadOutputEOF
<1>4. CASE ReadStart \/ ReadRelease \/ ReadEOF \/ ObserveSignal \/ ObserveExit
           \/ PollReadiness \/ ReadinessExpires \/ DrainExpires
  BY <1>1, <1>4 DEF ReadStart, ReadRelease, ReadEOF, ObserveSignal, ObserveExit,
     PollReadiness, ReadinessExpires, DrainExpires
<1>5. CASE ReadLog \/ ReadLogEOF \/ WriteLogFrame \/ ReturnCredit \/ LogDrainExpires
  BY <1>1, <1>5 DEF ReadLog, ReadLogEOF, WriteLogFrame, ReturnCredit, LogDrainExpires
<1>6. CASE SendTerm \/ LeaderWaitEnds \/ SendKill \/ GroupWaitEnds
  BY <1>6 DEF SendTerm, LeaderWaitEnds, SendKill, GroupWaitEnds
<1>7. CASE Environment
  BY <1>1, <1>7 DEF Environment, ClientStarts, SignalArrives, ChildExits, ChildPublishes,
     ChildLogs
<1>8. QED  BY <1>2, <1>3, <1>4, <1>5, <1>6, <1>7 DEF Observe

\* Only a check of readiness leads to the commit, and it has just seen that READY
\* is awaited.
LEMMA CommitsStep ==
  ASSUME SessionInv, EventsInv, CommitsAwaited, [Next]_vars
  PROVE  CommitsAwaited'
<1>1. CASE Observe \/ Environment
  BY <1>1, ObserveAside DEF CommitsAwaited
<1>2. CASE UNCHANGED vars
  BY <1>2 DEF vars, CommitsAwaited
<1>3. CASE CheckReady
  <2>1. PICK admits \in Admissions, unreadable \in May("artifact") :
         LET a == Account(ses, admits)
             e == ReadEvidence(a)
         IN  IF a.lc.phase # "Starting" \/ ~a.child
             THEN Goto(AfterReady(a), "yielded") /\ UNCHANGED proc
             ELSE IF unreadable /\ a.lc.required # {}
             THEN /\ Goto(AfterReady(Stop(a, "helper_failure", "READINESS_ARTIFACT_FAILURE")),
                          "yielded")
                  /\ UNCHANGED proc
             ELSE IF ~AwaitsReadiness(e.lc) \/ ~(e.lc.required \subseteq e.lc.evidence)
             THEN Goto(AfterReady(e), "yielded") /\ UNCHANGED proc
             ELSE IF proc.state # "running"
             THEN /\ Goto(AfterReady(RecordExit(e, proc)), "yielded")
                  /\ proc' = [proc EXCEPT !.observed = TRUE]
             ELSE /\ Goto(e, IF coord = "ready" THEN "commit" ELSE "commit deadline")
                  /\ UNCHANGED proc
    BY <1>3, Zenon DEF CheckReady
  <2> DEFINE e == ReadEvidence(Account(ses, admits))
  <2>2. coord' = "yielded" \/ (ses' = e /\ AwaitsReadiness(e.lc))
    BY <2>1 DEF Goto
  <2> HIDE DEF e
  <2>3. QED  BY <2>2 DEF CommitsAwaited
<1>4. CASE Announce \/ SettleAttemptStep \/ CancelSessionTasks \/ ReleaseWorkspace
           \/ FreezeSnapshot \/ EmitTerminal \/ DrainOutput \/ Exit
  <2>1. CASE Announce \/ CancelSessionTasks
    BY <2>1 DEF Announce, CancelSessionTasks, Goto, CommitsAwaited
  <2>6. CASE SettleAttemptStep
    BY <2>6, SettleAttemptStepKeeps DEF CommitsAwaited
  <2>2. CASE ReleaseWorkspace
    BY <2>2 DEF ReleaseWorkspace, Goto, CommitsAwaited
  <2>3. CASE FreezeSnapshot
    BY <2>3 DEF FreezeSnapshot, Goto, CommitsAwaited
  <2>4. CASE EmitTerminal \/ DrainOutput \/ Exit
    BY <2>4 DEF EmitTerminal, DrainOutput, Exit, Goto, CommitsAwaited
  <2>5. QED  BY <1>4, <2>1, <2>2, <2>3, <2>4, <2>6
<1>5. CASE Coordinate
  <2>1. coord' \in {"ending", "waiting", "take", "settling"}
    BY <1>5 DEF Coordinate, Goto
  <2>2. QED  BY <2>1 DEF CommitsAwaited
<1>6. CASE Handle
  <2>1. coord' \in {"yielded", "entries", "ready", "ready deadline"}
    BY <1>6 DEF Handle, HandleStart, HandleReadiness, HandleEOF, HandleSignal, HandleFailure,
       HandleOutput, HandleLog, HandleLogDeadline, HandleExit, HandleCleaned, HandleDrain, Goto
  <2>2. QED  BY <2>1 DEF CommitsAwaited
<1>7. CASE CreateEntries \/ SpawnChild \/ SpawnFails \/ CommitReady
  <2>1. CASE CreateEntries
    BY <2>1 DEF CreateEntries, Goto, CommitsAwaited
  <2>2. CASE SpawnChild
    BY <2>2 DEF SpawnChild, Goto, CommitsAwaited
  <2>5. CASE SpawnFails
    BY <2>5, SpawnFailsEvents DEF CommitsAwaited
  <2>3. CASE CommitReady
    BY <2>3 DEF CommitReady, Goto, CommitsAwaited
  <2>4. QED  BY <1>7, <2>1, <2>2, <2>3, <2>5
<1>8. QED  BY <1>1, <1>2, <1>3, <1>4, <1>5, <1>6, <1>7 DEF Next, Coordinator, Finished

----------------------------------------------------------------------------
\* The log and the client's view always fit the session.

\* They do when the session begins.
LEMMA EventsBegin ==
  ASSUME Init
  PROVE  EventsInv /\ CommitsAwaited
<1>1. /\ world \in Worlds /\ ses = NewSession /\ coord = "boot" /\ queue = << >>
      /\ control = "none" /\ proc = NoProcess
      /\ task = [t \in Tasks |-> IF t \in {"writer", "control", "signal"} THEN "on" ELSE "off"]
  BY DEF Init
<1>2. /\ ses.order = Order!NoEvents /\ ses.relay = Relay!Opened /\ ses.lc = Created
      /\ ~ses.logOpen /\ ~ses.started /\ ~ses.drainStarted
      /\ ses.acquired = FALSE /\ ses.acquisition = "none"
  BY <1>1 DEF NewSession
<1>3. Created.phase = "Created" /\ ~Ended(Created)
  BY DEF Created, Ended
<1>4. /\ ses.order \in Orders /\ ~ses.order.created /\ ~ses.order.attempted
      /\ ~ses.order.ready /\ ~ses.order.output /\ ses.order.bytes = 0
      /\ ~Delivered(ses.order)
  BY <1>2 DEF Order!NoEvents, Orders, Policies, Delivered
<1>5. /\ ses.relay.buffer = << >> /\ ses.relay.admitted = 0 /\ ~ses.relay.lost
      /\ ~ses.relay.eof /\ ~ses.relay.final /\ ~ses.relay.disposed
      /\ ses.relay.incomplete = "none" /\ ses.relay.decision = "none"
      /\ RelaySound(ses.relay)
  <2>1. << >> \in Seq({"b"})
    OBVIOUS
  <2>2. QED  BY <1>2, <2>1 DEF Relay!Opened, RelaySound, Relays, Causes, Relay!Decisions
<1>6. Followed(ses)
  BY <1>2, <1>4, <1>5 DEF Followed
<1>7. Sensible(ses, control, world)
  BY <1>1, <1>2, <1>3, <1>4 DEF Sensible
<1>8. Timely(ses, coord)
  BY <1>1, <1>2, <1>4 DEF Timely, Ending, Late
<1>9. "log" \in Tasks /\ "log deadline" \in Tasks
  BY DEF Tasks, SessionTasks
<1>10. /\ task["log"] = "off" /\ task["log deadline"] = "off"
       /\ \A t \in Tasks : task[t] \in {"on", "off"}
  BY <1>1, <1>9
<1>11. Reported(ses, proc, task, queue, world)
  <2>1. Len(queue) = 0
    BY <1>1
  <2>2. \A t \in Tasks : Means(task[t], ses, proc, world) /\ task[t] \notin {"LOG", "LOGEOF"}
    BY <1>10 DEF Means
  <2>3. task["log"] = "off" /\ task["log deadline"] = "off" /\ ~ses.relay.eof
    BY <1>5, <1>10
  <2>4. \A i \in 1 .. Len(queue) : FALSE
    BY <2>1
  <2>5. task["log"] \notin Reading
    BY <2>3 DEF Reading
  <2>6. QED  BY <2>2, <2>3, <2>4, <2>5, Zenon DEF Reported
<1>12. Pending(queue, task) = 0
  <2>1. Len(queue) = 0
    BY <1>1
  <2>2. Cardinality(LogItems(queue)) = 0
    BY <2>1, NoLogItems
  <2>3. task["log"] # "LOG"
    BY <1>10
  <2>4. QED  BY <2>2, <2>3 DEF Pending
<1>13. /\ proc.state = "none" /\ ~proc.members /\ ~proc.escaped /\ proc.written = 0
       /\ proc.taken = 0
  BY <1>1 DEF NoProcess
<1>14. Counted(ses, proc, task, queue)
  <2>1. Len(<< >>) = 0
    OBVIOUS
  <2>2. Kept(ses.relay) = 0
    BY <1>5, <2>1 DEF Kept
  <2>3. Kept(ses.relay) + Pending(queue, task) = proc.taken /\ proc.taken <= proc.written
    BY <1>12, <1>13, <2>2
  <2>4. Blank(proc)
    BY <1>13 DEF Blank
  <2>5. ~ses.relay.eof /\ ses.relay.decision # "complete" /\ proc.taken = 0
    BY <1>5, <1>13
  <2>6. QED  BY <2>3, <2>4, <2>5 DEF Counted
<1>15. CommitsAwaited
  BY <1>1 DEF CommitsAwaited
<1>16. QED  BY <1>6, <1>7, <1>8, <1>11, <1>14, <1>15 DEF EventsInv

\* Every handler keeps them so.
LEMMA HandleEvents ==
  ASSUME SessionInv, EventsInv, Handle
  PROVE  EventsInv'
  BY StartEvents, FactsEvents, OutputEvents, LogEvents, LogDeadlineEvents, ExitEvents,
     CleanedEvents DEF Handle

\* Every observation does, and every step of the client and of the child.
LEMMA ObserveEvents ==
  ASSUME SessionInv, EventsInv, Observe \/ Environment
  PROVE  EventsInv'
<1>1. CASE \E t \in Tasks : FinishPut(t) \/ ObserverFails(t)
  BY <1>1, FinishPutEvents, ObserverFailsEvents
<1>2. CASE \/ \E t \in Streams : ReadOutput(t) \/ ReadOutputEOF(t)
           \/ ObserveSignal \/ ObserveExit \/ PollReadiness \/ ReadinessExpires
           \/ DrainExpires \/ GroupWaitEnds
  BY <1>2, SimpleEvents
<1>3. CASE ReadStart \/ ReadRelease \/ ReadEOF
  BY <1>3, ControlEvents
<1>4. CASE ReadLog \/ ReadLogEOF
  BY <1>4, ReadLogEvents, ReadLogEOFEvents
<1>5. CASE WriteLogFrame \/ ReturnCredit \/ LogDrainExpires
  BY <1>5, CreditEvents
<1>6. CASE SendTerm \/ LeaderWaitEnds \/ SendKill
  BY <1>6, TerminationEvents
<1>7. CASE Environment
  BY <1>7, ClientStartsEvents, ChildEvents, ChildLogsEvents DEF Environment
<1>8. QED  BY <1>1, <1>2, <1>3, <1>4, <1>5, <1>6, <1>7 DEF Observe

\* Every step of the specification does.
LEMMA EventsStep ==
  ASSUME SessionInv, EventsInv, CommitsAwaited, [Next]_vars
  PROVE  EventsInv'
<1>1. CASE Observe \/ Environment
  BY <1>1, ObserveEvents
<1>2. CASE Coordinator
  BY <1>2, AnnounceEvents, CoordinateEvents, HandleEvents, EntriesEvents, SpawnEvents,
     SpawnFailsEvents, CheckReadyEvents, CommitReadyEvents, SettleEvents, CancelEvents,
     ReleaseEvents, FreezeEvents, LateEvents DEF Coordinator
<1>3. CASE UNCHANGED vars
  BY <1>3 DEF vars, EventsInv
<1>4. QED  BY <1>1, <1>2, <1>3 DEF Next, Finished

\* Every state of a helper session satisfies the invariant of its events.
THEOREM AlwaysEventsInv == Spec => [](EventsInv /\ CommitsAwaited)
<1>1. Init => EventsInv /\ CommitsAwaited
  BY EventsBegin
<1>2. SessionInv /\ EventsInv /\ CommitsAwaited /\ [Next]_vars =>
        EventsInv' /\ CommitsAwaited'
  BY EventsStep, CommitsStep
<1>3. QED  BY <1>1, <1>2, AlwaysSessionInv, PTL DEF Spec

\* The client refuses no event of the helper's stream but one: the terminal snapshot,
\* when the START that asked for a log was never handled (EventOrder.accept,
\* _log_report).
THEOREM AlwaysFollowed == Spec => []ClientFollowsEvents
<1>1. EventsInv => ClientFollowsEvents
  BY DEF EventsInv, Followed, Orders, LogReportRefused, ClientFollowsEvents
<1>2. QED  BY <1>1, AlwaysEventsInv, PTL

\* A log told as complete holds every byte that was written to it, and nobody is
\* left to write to it again (LogRelay.report, _log_report).
THEOREM AlwaysWhole == Spec => []CompleteLogIsWhole
<1>1. SessionInv /\ EventsInv => CompleteLogIsWhole
  <2>1. SUFFICES ASSUME SessionInv, EventsInv, Frozen, ses.logOpen, ses.lc.log = "complete"
                 PROVE  ses.order.bytes = proc.written /\ Gone /\ ~proc.escaped
    BY DEF CompleteLogIsWhole
  <2>2. coord \in Late /\ ses.lc.cleanup = CleanupReport(ses)
    BY <2>1 DEF SessionInv, Placed, Frozen, Working, Ending, Late
  <2>3. ses.relay.decision = "complete" /\ ses.lc.cleanup.child # "unconfirmed"
    BY <2>1, <2>2 DEF EventsInv, Timely
  <2>4. ses.relay.admitted = proc.written /\ AtEnd(proc)
    BY <2>1, <2>3 DEF EventsInv, Counted, Whole
  <2>5. ses.order.bytes = ses.relay.admitted
    BY <2>1 DEF EventsInv, Followed
  <2>6. ChildDisposed(ses)
    BY <2>2, <2>3, CleanupReports
  <2>7. Gone
    BY <2>1, <2>6 DEF SessionInv, Supervised, Quiet, Gone
  <2>8. QED  BY <2>4, <2>5, <2>7 DEF AtEnd
<1>2. QED  BY <1>1, AlwaysSessionInv, AlwaysEventsInv, PTL

----------------------------------------------------------------------------
\* The types of the session.  What SessionInv leaves out: the states of the
\* control stream, the bound of the queue, and that the child's evidence is
\* what START asked for.
Bounded ==
  /\ control \in {"none", "sending", "start", "release", "closed", "lost"}
  /\ Len(queue) <= QueueBound
  /\ proc.artifact \subseteq want.required

\* An observation enters the queue only where there is room.
LEMMA ReportBounded ==
  ASSUME Len(queue) <= QueueBound, queue \in Seq(Observations), NEW t \in Tasks,
         NEW kind \in Kinds, Report(t, kind)
  PROVE  Len(queue') <= QueueBound
<1> DEFINE item == [src |-> t, kind |-> kind]
<1>1. item \in Observations
  BY DEF Observations
<1> HIDE DEF item
<1>2. Len(Append(queue, item)) = Len(queue) + 1 /\ Len(queue) \in Nat
  BY <1>1
<1>3. QED  BY <1>2, SessionConstants DEF Report, item

\* Observations leave it one by one, or all at once.
LEMMA TakenBounded ==
  ASSUME Len(queue) <= QueueBound, queue \in Seq(Observations),
         queue' \in {queue, << >>} \/ \E kind : Take(kind)
  PROVE  Len(queue') <= QueueBound
<1>1. Len(<< >>) = 0 /\ Len(queue) \in Nat
  OBVIOUS
<1>2. ASSUME queue # << >>  PROVE Len(Tail(queue)) = Len(queue) - 1
  BY <1>2
<1>3. QED  BY <1>1, <1>2, SessionConstants DEF Take

\* No step of an observer or of the client fills the queue beyond its bound.
LEMMA ObserveBounded ==
  ASSUME SessionInv, Bounded, Observe \/ ClientStarts
  PROVE  Bounded'
<1>1. queue \in Seq(Observations) /\ proc \in Processes /\ Len(queue) <= QueueBound
  BY DEF SessionInv, Watched, Supervised, Bounded
<1>2. world' = world
  BY DEF Observe, ClientStarts, FinishPut, ObserverFails, ReadOutput, ReadOutputEOF,
         ReadStart, ReadRelease, ReadEOF, ObserveSignal, ObserveExit, PollReadiness,
         ReadinessExpires, DrainExpires, ReadLog, ReadLogEOF, WriteLogFrame,
         ReturnCredit, LogDrainExpires, SendTerm, LeaderWaitEnds, SendKill, GroupWaitEnds
<1>3. proc'.artifact = proc.artifact
  <2>1. CASE \/ ClientStarts \/ ReadStart \/ ReadRelease \/ ReadEOF
             \/ \E t \in Tasks : FinishPut(t) \/ ObserverFails(t)
             \/ \E t \in Streams : ReadOutputEOF(t)
             \/ ObserveSignal \/ PollReadiness \/ ReadinessExpires \/ DrainExpires
             \/ ReadLogEOF \/ WriteLogFrame \/ ReturnCredit \/ LogDrainExpires
    BY <2>1 DEF ClientStarts, FinishPut, ObserverFails, ReadOutputEOF, ReadStart,
         ReadRelease, ReadEOF, ObserveSignal, PollReadiness, ReadinessExpires,
         DrainExpires, ReadLogEOF, WriteLogFrame, ReturnCredit, LogDrainExpires
  <2>2. CASE \/ \E t \in Streams : ReadOutput(t)
             \/ ObserveExit \/ ReadLog \/ LeaderWaitEnds \/ GroupWaitEnds
    BY <1>1, <2>2 DEF Processes, ReadOutput, ObserveExit, ReadLog, LeaderWaitEnds,
         GroupWaitEnds
  <2>3. \A gone, rc : /\ DOMAIN Signalled(proc, gone, rc) = DOMAIN proc
                      /\ Signalled(proc, gone, rc).artifact = proc.artifact
                      /\ "artifact" \in DOMAIN proc
    BY <1>1 DEF Processes, Signalled
  <2>4. CASE SendTerm
    <3>1. PICK gone, rc : proc' = [Signalled(proc, gone, rc) EXCEPT !.stage = "await"]
      BY <2>4 DEF SendTerm
    <3>2. QED  BY <2>3, <3>1
  <2>5. CASE SendKill
    <3>1. PICK gone \in MayExit, stuck \in May("stuck"), rc \in ReturnCodes :
            LET p == Signalled(proc, gone, rc) IN
            /\ gone \/ rc # 0
            /\ proc' = IF p.state = "running" /\ stuck
                       THEN [p EXCEPT !.stage = "vanish"]
                       ELSE [p EXCEPT !.state = "reaped", !.observed = TRUE,
                                      !.stage = "vanish",
                                      !.rc = IF p.state = "running" THEN rc ELSE @,
                                      !.members = @ /\ stuck]
      BY <2>5, Zenon DEF SendKill
    <3>2. QED  BY <2>3, <3>1
  <2>6. QED  BY <2>1, <2>2, <2>4, <2>5 DEF Observe
<1>4. control' = control \/ control' \in {"sending", "start", "release", "closed", "lost"}
  BY DEF Observe, ClientStarts, FinishPut, ObserverFails, ReadOutput, ReadOutputEOF,
         ReadStart, ReadRelease, ReadEOF, ObserveSignal, ObserveExit, PollReadiness,
         ReadinessExpires, DrainExpires, ReadLog, ReadLogEOF, WriteLogFrame,
         ReturnCredit, LogDrainExpires, SendTerm, LeaderWaitEnds, SendKill, GroupWaitEnds
<1>5. \A t \in Tasks, kind \in Kinds : Report(t, kind) => Len(queue') <= QueueBound
  BY <1>1, ReportBounded
<1>6. Len(queue') <= QueueBound
  <2>1. /\ {"START", "EOF", "SIGNAL", "FAIL", "OUT", "OUTEOF", "EXIT", "POLL", "DEADLINE",
            "CLEANED", "DRAIN", "LOG", "LOGEOF", "LOGSTOPPED", "LOGCREDIT",
            "LOGDEADLINE"} \subseteq Kinds
        /\ {"control", "signal", "exit", "readiness", "drain", "log", "credit",
            "log deadline", "cleanup"} \subseteq Tasks
        /\ Streams \subseteq Tasks
    BY DEF Kinds, Tasks, SessionTasks, ChildTasks
  <2>2. ASSUME NEW t \in Tasks, FinishPut(t) \/ ObserverFails(t)
        PROVE  Len(queue') <= QueueBound
    BY <1>5, <2>1, <2>2 DEF FinishPut, ObserverFails
  <2>3. ASSUME NEW t \in Streams, ReadOutput(t) \/ ReadOutputEOF(t)
        PROVE  Len(queue') <= QueueBound
    BY <1>5, <2>1, <2>3 DEF ReadOutput, ReadOutputEOF
  <2>4. CASE ReadStart \/ ReadEOF \/ ObserveSignal \/ ObserveExit
    BY <1>5, <2>1, <2>4 DEF ReadStart, ReadEOF, ObserveSignal, ObserveExit
  <2>5. CASE PollReadiness \/ ReadinessExpires \/ DrainExpires \/ GroupWaitEnds
    BY <1>5, <2>1, <2>5 DEF PollReadiness, ReadinessExpires, DrainExpires, GroupWaitEnds,
       CleanupStage
  <2>6. CASE ReadLog \/ ReadLogEOF \/ ReturnCredit \/ LogDrainExpires
    BY <1>5, <2>1, <2>6 DEF ReadLog, ReadLogEOF, ReturnCredit, LogDrainExpires
  <2>7. CASE \/ ClientStarts \/ ReadRelease \/ WriteLogFrame
             \/ SendTerm \/ LeaderWaitEnds \/ SendKill
    BY <1>1, <2>7 DEF ClientStarts, ReadRelease, WriteLogFrame, SendTerm, LeaderWaitEnds,
       SendKill
  <2>8. QED  BY <2>2, <2>3, <2>4, <2>5, <2>6, <2>7 DEF Observe
<1>7. QED  BY <1>2, <1>3, <1>4, <1>6 DEF Bounded, want

\* The environment adds no evidence but what START asked for.
LEMMA EnvironmentBounded ==
  ASSUME SessionInv, Bounded, SignalArrives \/ ChildExits \/ ChildPublishes \/ ChildLogs
  PROVE  Bounded'
<1>1. proc \in Processes /\ UNCHANGED <<queue, control, world>>
  BY DEF SessionInv, Supervised, SignalArrives, ChildExits, ChildPublishes, ChildLogs
<1>2. proc'.artifact = proc.artifact \/
      \E name \in want.required \ proc.artifact : proc'.artifact = proc.artifact \cup {name}
  BY <1>1 DEF Processes, SignalArrives, ChildExits, ChildPublishes, ChildLogs
<1>3. QED  BY <1>1, <1>2 DEF Bounded, want

\* A spawn that fails leaves no evidence of its own.
LEMMA NoEvidenceYet ==
  ASSUME SpawnFails
  PROVE  proc'.artifact \in {proc.artifact, {}}
<1>1. PICK result \in {"no process", "rolled back", "leaked"}, rc \in ReturnCodes,
           requested \in BOOLEAN, reaped \in BOOLEAN, admits \in Admissions :
        LET failed == Stop([ses EXCEPT !.marker = TRUE, !.acquisition = result,
                                       !.acquired = result # "no process"],
                           "startup_failure", "SPAWN_FAILURE")
            told   == IF requested THEN [failed EXCEPT !.lc = RecordChildTermination(@)]
                      ELSE failed
            exited == IF result # "no process" /\ reaped
                      THEN [told EXCEPT !.lc = ObserveChildExit(@, rc)] ELSE failed
        IN  /\ result = "rolled back" => reaped
            /\ result = "no process" => ~requested /\ ~reaped
            /\ ~reaped => rc = 0
            /\ Goto(LogDisposal(exited, result # "leaked", admits), "yielded")
            /\ task' = IF result = "leaked" THEN Cancelled({"log"}) ELSE task
            /\ proc' = IF result = "no process" THEN proc
                       ELSE [NoProcess EXCEPT
                               !.state = IF reaped THEN "reaped" ELSE "running",
                               !.rc = rc, !.requested = requested,
                               !.signalled = requested,
                               !.members = result = "leaked"]
  BY Zenon DEF SpawnFails
<1>2. QED  BY <1>1 DEF NoProcess

\* The coordinator only takes from the queue, and starts a child that has
\* published nothing.
LEMMA CoordinatorBounded ==
  ASSUME SessionInv, Bounded, Coordinator
  PROVE  Bounded'
<1>1. queue \in Seq(Observations) /\ proc \in Processes
  BY DEF SessionInv, Watched, Supervised
<1>2. CASE Handle
  <2>1. UNCHANGED <<control, proc, world>> /\ \E kind : Take(kind)
    BY <1>2 DEF Handle, HandleStart, HandleReadiness, HandleEOF, HandleSignal,
         HandleFailure, HandleOutput, HandleLog, HandleLogDeadline, HandleExit,
         HandleCleaned, HandleDrain
  <2>2. QED  BY <1>1, <2>1, TakenBounded DEF Bounded, want
<1>3. CASE \/ Announce \/ CreateEntries \/ CommitReady \/ SettleAttemptStep
           \/ CancelSessionTasks \/ ReleaseWorkspace \/ FreezeSnapshot \/ EmitTerminal
           \/ DrainOutput \/ Exit
  <2>1. UNCHANGED <<queue, control, proc, world>>
    BY <1>3 DEF Announce, CreateEntries, CommitReady, SettleAttemptStep,
         CancelSessionTasks, ReleaseWorkspace, FreezeSnapshot, EmitTerminal,
         DrainOutput, Exit
  <2>2. QED  BY <2>1 DEF Bounded, want
<1>4. CASE SpawnChild \/ SpawnFails \/ CheckReady
  <2>1. UNCHANGED <<queue, control, world>>
    BY <1>4 DEF SpawnChild, SpawnFails, CheckReady
  <2>2. proc'.artifact \in {proc.artifact, {}}
    <3>1. CASE SpawnChild
      BY <3>1 DEF SpawnChild, NoProcess
    <3>2. CASE SpawnFails
      BY <3>2, NoEvidenceYet
    <3>3. CASE CheckReady
      <4>1. proc' = proc \/ proc' = [proc EXCEPT !.observed = TRUE]
        BY <3>3, Zenon DEF CheckReady
      <4>2. QED  BY <1>1, <4>1 DEF Processes
    <3>4. QED  BY <1>4, <3>1, <3>2, <3>3
  <2>3. QED  BY <2>1, <2>2 DEF Bounded, want
<1>5. CASE Coordinate
  <2>1. /\ queue' \in {queue, << >>} /\ UNCHANGED <<control, world>>
        /\ proc' = proc \/ proc' = [proc EXCEPT !.stage = "term"]
    BY <1>5, Zenon DEF Coordinate
  <2>2. proc'.artifact = proc.artifact
    BY <1>1, <2>1 DEF Processes
  <2>3. QED  BY <1>1, <2>1, <2>2, TakenBounded DEF Bounded, want
<1>6. QED  BY <1>2, <1>3, <1>4, <1>5 DEF Coordinator

\* Every variable has its type, and the queue its bound (_session.py's state;
\* asyncio.Queue(MAX_PENDING_OBSERVATIONS)).
THEOREM AlwaysTyped == Spec => []SessionTypeOK
<1>1. Init => Bounded
  <2>1. Len(<< >>) = 0
    OBVIOUS
  <2>2. QED  BY <2>1, SessionConstants DEF Init, NoProcess, Bounded
<1>2. SessionInv /\ Bounded /\ [Next]_vars => Bounded'
  <2>1. CASE UNCHANGED vars
    BY <2>1 DEF vars, Bounded, want
  <2>2. QED
    BY <2>1, ObserveBounded, EnvironmentBounded, CoordinatorBounded
       DEF Next, Environment, Finished
<1>3. SessionInv /\ EventsInv /\ Bounded => SessionTypeOK
  <2>1. SUFFICES ASSUME SessionInv, EventsInv, Bounded  PROVE SessionTypeOK
    OBVIOUS
  <2>2. ses.lc.phase \in Phases /\ ses.finished \subseteq Streams
    BY <2>1 DEF SessionInv, Core, Formed, LcSound, Lifecycles
  <2>3. /\ \A i \in DOMAIN queue : queue[i] \in [src : Tasks, kind : Kinds]
        /\ task \in [Tasks -> {"off", "on", "done"} \cup Kinds]
    <3>1. queue \in Seq(Observations) /\ task \in [Tasks -> TaskStates]
      BY <2>1 DEF SessionInv, Watched
    <3>2. \A i \in DOMAIN queue : queue[i] \in Observations
      BY <3>1
    <3>3. QED  BY <3>1, <3>2, Zenon DEF Observations, TaskStates
  <2>4. proc.state \in {"none", "running", "exited", "reaped"}
    BY <2>1 DEF SessionInv, Supervised, Processes
  <2>5. ses.relay.decision \in Relay!Decisions
    BY <2>1 DEF EventsInv, Followed, RelaySound, Relays
  <2>6. QED  BY <2>1, <2>2, <2>3, <2>4, <2>5 DEF Bounded, SessionTypeOK
<1>4. QED  BY <1>1, <1>2, <1>3, AlwaysSessionInv, AlwaysEventsInv, PTL DEF Spec

=============================================================================

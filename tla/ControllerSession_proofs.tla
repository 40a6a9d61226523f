----------------------- MODULE ControllerSession_proofs -----------------------
(***************************************************************************)
(* Proofs of what ControllerSession.tla states of one operation on the     *)
(* client's side: for any forwards, any programs of steps, any frames from *)
(* the helper, any death of its transport, and a Ctrl-C anywhere.          *)
(*                                                                         *)
(* SessionInv relates the three parties that share the authority: what the *)
(* coordinator does at each place, what the reader has seen, and what they *)
(* have recorded.  Its heart is Sound: the failures are distinct and the   *)
(* transport's comes after the helper's own, a failed or closing authority *)
(* admits nothing, and a reader that is done has left a failure or a clean *)
(* end.  The rest says what each place owes: Worked, Owned and Closed, that *)
(* work left undone, a process left running or a closure left incomplete   *)
(* has its failure on record, which is why success is earned.              *)
(***************************************************************************)
EXTENDS ControllerSession, TLAPS

\* The coordinator's places.
Launching == {"spawning", "connecting", "rollback", "cancelled"}
Waiting   == {"waiting", "polling", "admitting", "client"}
Stopping  == {"release", "half-close", "wait helper", "join", "stop", "join again", "resolve"}
Closing   == {"closing", "sampling", "close forwards", "finishing", "done"} \cup Stopping
Places    == {"connect", "created", "stage", "staging", "start", "writing", "ready", "next",
              "raising"} \cup Launching \cup Waiting \cup Closing

\* Failures that the reader reports, and those of the coordinator's own acts.
Told  == {"TERMINAL_FAILURE", "READER_FAILURE", "CONTROL_ENDED"}
Local == {"CANCELLED", "ENDING", "CLOSED", "EFFECT"}

\* A failure is recorded once, and the transport's after what was told.
Distinct(s) == \A i, j \in DOMAIN s : s[i] = s[j] => i = j
Ordered(s, r) ==
  \A i \in DOMAIN s : s[i] = "CONTROL_PROCESS_FAILURE" =>
    r = "done" /\ \A j \in DOMAIN s : s[j] \in Told => j < i

\* The helper ended the session without a failure.
Clean(a) == a.terminal \in {"exited", "released"}

\* The authority a while the reader is at r.
Sound(a, r) ==
  /\ a \in Authority
  /\ Failed(a) \/ a.closing => a.phase \in {"cancelling", "ended"}
  /\ a.terminal # "none" <=> a.phase = "ended"
  /\ a.terminal = "failed" => Failed(a)
  /\ a.deferred => a.pending
  /\ a.pending <=> r \in {"final", "eof"}
  /\ r \in {"ending", "done"} => Failed(a) \/ Clean(a)
  /\ Distinct(a.failures) /\ Ordered(a.failures, r)
  /\ Failed(a) /\ Primary(a) = "ENDING" => Clean(a) /\ r \in {"ending", "done"}

\* What the variables hold.
HelperStates ==
  [ssh : {"none", "running", "exited"}, status : {0, 1}, open : BOOLEAN,
   said : {"nothing", "created", "ready", "ended", "garbled"},
   started : BOOLEAN, released : BOOLEAN, eof : BOOLEAN]
ForwardStates ==
  [Forwards -> [own : {"none", "pending", "committed"}, runs : BOOLEAN, seen : BOOLEAN]]
Interrupts == [requested : BOOLEAN, closing : BOOLEAN, owned : BOOLEAN]

Typed ==
  /\ at \in Places /\ todo \in Seq(Steps) /\ program \in Programs
  /\ blocked \in {"no", "yes", "write"} /\ expired \in BOOLEAN
  /\ reader \in {"none", "reading", "final", "eof", "ending", "done"}
  /\ stream \in Seq(Frames)
  /\ helper \in HelperStates
  /\ fwd \in ForwardStates
  /\ required \subseteq Forwards
  /\ sigint \in Interrupts
  /\ result \in Codes \cup {"none", "LOG", "success"}

\* The coordinator blocks only where it waits for the helper.
Blocked == blocked # "no" => at \in {"created", "writing", "ready", "waiting"}

\* An error on its way is the first failure, or new; that the session is
\* ending was said after its transport had ended.
Raising ==
  /\ raised \in {"none"} \cup Local \cup Range(auth.failures)
  /\ at = "raising" => raised # "none"
  /\ raised = "ENDING" => reader \in {"final", "eof", "ending", "done"}

\* Without a connection there is no reader, and there will be a failure.
Connected ==
  /\ reader = "none" <=> helper.ssh = "none"
  /\ at = "connect" => reader = "none"
  /\ at \in Stopping => reader # "none"
  /\ reader = "none" => \/ at = "connect"
                        \/ at = "raising" /\ raised \in {"EFFECT", "CANCELLED"}
                        \/ at \in Closing /\ Failed(auth)

\* Work that was left has its reason, recorded or deferred.
Worked ==
  /\ at \in Launching \cup Waiting => todo # << >>
  /\ at \in Closing => todo = << >> \/ Failed(auth) \/ auth.deferred

\* A forward's process that no owner has any more is a failure.
Owned ==
  \A f \in Forwards : fwd[f].runs =>
    /\ fwd[f].own = "none" =>
         Failed(auth) \/ (at = "raising" /\ raised \in {"EFFECT", "CANCELLED"})
    /\ at \in Closing \ {"closing", "sampling", "close forwards"} => Failed(auth)

\* What closure could not do is a failure.
Closed ==
  ~Failed(auth) =>
    /\ at \in {"join again", "resolve", "finishing", "done"} => helper.ssh = "exited"
    /\ at \in {"resolve", "finishing", "done"} => reader = "done"
    /\ at \in {"finishing", "done"} => helper.status = 0

Resulted ==
  /\ result # "none" => at = "done"
  /\ result \in {"success", "LOG"} => ~Failed(auth)
  /\ result = "success" => ~sigint.requested /\ ~auth.log

SessionInv ==
  /\ Typed /\ Sound(auth, reader) /\ Blocked /\ Raising /\ Connected
  /\ Worked /\ Owned /\ Closed /\ Resulted

----------------------------------------------------------------------------
\* What the authority's operators keep.

\* Appending to the failures one that is not among them.
LEMMA Appended ==
  ASSUME NEW s \in Seq(Codes), NEW code \in Codes, code \notin Range(s)
  PROVE  /\ Append(s, code) \in Seq(Codes) /\ Append(s, code) # << >>
         /\ Range(Append(s, code)) = Range(s) \cup {code}
         /\ Head(Append(s, code)) = IF s = << >> THEN code ELSE Head(s)
         /\ Distinct(s) => Distinct(Append(s, code))
<1>1. PICK t : t = Append(s, code)
  OBVIOUS
<1>2. PICK n \in Nat : n = Len(s) /\ DOMAIN s = 1 .. n
  OBVIOUS
<1>3. /\ t \in Seq(Codes) /\ Len(t) = n + 1 /\ DOMAIN t = 1 .. n + 1
      /\ t[n + 1] = code /\ \A i \in 1 .. n : t[i] = s[i]
  BY <1>1, <1>2
<1>4. t # << >> /\ Head(t) = IF s = << >> THEN code ELSE Head(s)
  BY <1>1, <1>2, <1>3
<1>5. Range(t) = Range(s) \cup {code}
  BY <1>2, <1>3 DEF Range
<1>6. Distinct(s) => Distinct(t)
  BY <1>2, <1>3 DEF Distinct, Range
<1>7. QED  BY <1>1, <1>3, <1>4, <1>5, <1>6

\* What the transport's status says comes last if it is said last.
LEMMA AppendedInOrder ==
  ASSUME NEW s \in Seq(Codes), NEW code \in Codes, code \notin Range(s), NEW r, Ordered(s, r),
         code \in Told => r # "done", code = "CONTROL_PROCESS_FAILURE" => r = "done"
  PROVE  Ordered(Append(s, code), r)
<1>1. PICK t : t = Append(s, code)
  OBVIOUS
<1>2. PICK n \in Nat : n = Len(s) /\ DOMAIN s = 1 .. n
  OBVIOUS
<1>3. /\ DOMAIN t = 1 .. n + 1 /\ t[n + 1] = code
      /\ \A i \in 1 .. n : t[i] = s[i]
  BY <1>1, <1>2
<1>4. ASSUME NEW i \in DOMAIN t, t[i] = "CONTROL_PROCESS_FAILURE"
      PROVE  r = "done"
  BY <1>2, <1>3, <1>4 DEF Ordered
<1>5. ASSUME NEW i \in DOMAIN t, t[i] = "CONTROL_PROCESS_FAILURE",
             NEW j \in DOMAIN t, t[j] \in Told
      PROVE  j < i
  <2>1. j \in 1 .. n
    BY <1>3, <1>4, <1>5
  <2>2. i = n + 1 \/ (i \in 1 .. n /\ s[i] = "CONTROL_PROCESS_FAILURE" /\ s[j] \in Told)
    BY <1>3, <1>5, <2>1
  <2>3. QED  BY <1>2, <2>1, <2>2 DEF Ordered
<1>6. QED  BY <1>1, <1>4, <1>5 DEF Ordered

\* record_failure: what becomes of the record.
LEMMA Recorded ==
  ASSUME NEW a \in Authority, NEW code \in Codes
  PROVE  LET b == RecordFailure(a, code) IN
         /\ b \in Authority
         /\ b.terminal = a.terminal /\ b.log = a.log /\ b.closing = a.closing
         /\ b.ended = a.ended /\ b.pending = a.pending
         /\ b.deferred = a.deferred \/ (a.pending /\ b.deferred)
         /\ \/ /\ b.failures = a.failures /\ b.phase = a.phase
               /\ \/ code \in Range(a.failures)
                  \/ code = "ENDING" /\ a.pending /\ b.deferred
            \/ /\ b.failures = Append(a.failures, code) /\ code \notin Range(a.failures)
               /\ code # "ENDING" \/ ~a.pending
               /\ b.phase = IF a.phase = "ended" THEN "ended" ELSE "cancelling"
<1>1. CASE code \in Range(a.failures)
  BY <1>1 DEF RecordFailure
<1>2. CASE code \notin Range(a.failures) /\ a.pending /\ code = "ENDING"
  BY <1>2 DEF RecordFailure, Authority
<1>3. CASE code \notin Range(a.failures) /\ ~(a.pending /\ code = "ENDING")
  <2>1. PICK t \in Seq(Codes) : t = Append(a.failures, code)
    BY <1>3, Appended DEF Authority
  <2>2. PICK p \in {"cancelling", "ended"} :
          p = IF a.phase = "ended" THEN "ended" ELSE "cancelling"
    OBVIOUS
  <2>3. RecordFailure(a, code) = [a EXCEPT !.failures = t, !.phase = p, !.woken = TRUE]
    BY <1>3, <2>1, <2>2 DEF RecordFailure, Notify, Authority
  <2>4. RecordFailure(a, code) \in Authority
    BY <2>3 DEF Authority
  <2>5. QED  BY <1>3, <2>1, <2>2, <2>3, <2>4 DEF Authority
<1>4. QED  BY <1>1, <1>2, <1>3

\* What a step may only add to.
Kept(a, b) ==
  /\ b.terminal = a.terminal /\ b.log = a.log /\ b.pending = a.pending /\ b.ended = a.ended
  /\ Range(a.failures) \subseteq Range(b.failures)
  /\ Failed(a) => Failed(b)
  /\ a.deferred => b.deferred

\* Who may record what, and when.
MayRecord(a, r, code) ==
  /\ code \in Codes
  /\ code \in Told => code \in Range(a.failures) \/ r # "done"
  /\ code = "CONTROL_PROCESS_FAILURE" => code \in Range(a.failures) \/ r = "done"
  /\ code = "ENDING" => Failed(a) \/ a.pending \/ (Clean(a) /\ r \in {"ending", "done"})

LEMMA SoundRecorded ==
  ASSUME NEW a, NEW r, NEW code, Sound(a, r), MayRecord(a, r, code)
  PROVE  LET b == RecordFailure(a, code) IN
         /\ Sound(b, r) /\ Kept(a, b)
         /\ Failed(b) \/ b.deferred
         /\ code # "ENDING" \/ ~a.pending => Failed(b)
<1>1. PICK b : b = RecordFailure(a, code)
  OBVIOUS
<1>2. a \in Authority /\ code \in Codes /\ a.failures \in Seq(Codes)
  BY DEF Sound, MayRecord, Authority
<1>3. /\ b \in Authority
      /\ b.terminal = a.terminal /\ b.log = a.log /\ b.closing = a.closing
      /\ b.ended = a.ended /\ b.pending = a.pending
      /\ b.deferred = a.deferred \/ (a.pending /\ b.deferred)
  BY <1>1, <1>2, Recorded
<1>4. CASE /\ b.failures = a.failures /\ b.phase = a.phase
           /\ code \in Range(a.failures) \/ (code = "ENDING" /\ a.pending /\ b.deferred)
  <2>1. code \in Range(a.failures) => Failed(a)
    BY DEF Range, Failed
  <2>2. Failed(b) = Failed(a) /\ Primary(b) = Primary(a) /\ Clean(b) = Clean(a)
    BY <1>3, <1>4 DEF Failed, Primary, Clean
  <2>3. Sound(b, r)
    BY <1>3, <1>4, <2>2 DEF Sound
  <2>4. QED  BY <1>1, <1>3, <1>4, <2>1, <2>2, <2>3 DEF Kept
<1>5. CASE /\ b.failures = Append(a.failures, code) /\ code \notin Range(a.failures)
           /\ code # "ENDING" \/ ~a.pending
           /\ b.phase = IF a.phase = "ended" THEN "ended" ELSE "cancelling"
  <2>1. /\ b.failures # << >> /\ Range(a.failures) \subseteq Range(b.failures)
        /\ Head(b.failures) = IF a.failures = << >> THEN code ELSE Head(a.failures)
        /\ Distinct(a.failures) => Distinct(b.failures)
    BY <1>2, <1>5, Appended
  <2>2. Ordered(b.failures, r)
    BY <1>2, <1>5, AppendedInOrder DEF Sound, MayRecord
  <2>3. Failed(b) /\ Clean(b) = Clean(a)
    BY <1>3, <2>1 DEF Failed, Clean
  <2>4. Primary(b) = "ENDING" => Clean(b) /\ r \in {"ending", "done"}
    <3>1. Primary(b) = IF Failed(a) THEN Primary(a) ELSE code
      BY <2>1 DEF Primary, Failed
    <3>2. QED  BY <1>5, <2>3, <3>1 DEF Sound, MayRecord
  <2>5. Sound(b, r)
    BY <1>3, <1>5, <2>1, <2>2, <2>3, <2>4 DEF Sound, Authority
  <2>6. Kept(a, b)
    BY <1>3, <1>5, <2>1, <2>3 DEF Kept, Sound
  <2>7. QED  BY <1>1, <2>3, <2>5, <2>6
<1>6. QED  BY <1>1, <1>2, <1>4, <1>5, Recorded

LEMMA KeptTransitive ==
  ASSUME NEW a, NEW b, NEW c, Kept(a, b), Kept(b, c) PROVE Kept(a, c)
BY DEF Kept

\* The wakeup is no part of what the authority knows.
LEMMA SoundWoken ==
  ASSUME NEW a, NEW r, Sound(a, r), NEW woken \in BOOLEAN
  PROVE  Sound([a EXCEPT !.woken = woken], r) /\ Kept(a, [a EXCEPT !.woken = woken])
<1>1. PICK b : b = [a EXCEPT !.woken = woken]
  OBVIOUS
<1>2. b \in Authority /\ b.failures = a.failures /\ b.terminal = a.terminal
      /\ b.phase = a.phase /\ b.closing = a.closing /\ b.deferred = a.deferred
      /\ b.pending = a.pending /\ b.log = a.log /\ b.ended = a.ended
  BY <1>1 DEF Sound, Authority
<1>3. Failed(b) = Failed(a) /\ Primary(b) = Primary(a) /\ Clean(b) = Clean(a)
  BY <1>2 DEF Failed, Primary, Clean
<1>4. QED  BY <1>1, <1>2, <1>3 DEF Sound, Kept

LEMMA SoundReady ==
  ASSUME NEW a, NEW r, Sound(a, r)
  PROVE  Sound(RecordReady(a), r) /\ Kept(a, RecordReady(a))
<1>1. PICK b : b = [a EXCEPT !.ready = TRUE]
  OBVIOUS
<1>2. b \in Authority /\ b.failures = a.failures /\ b.terminal = a.terminal
      /\ b.phase = a.phase /\ b.closing = a.closing /\ b.deferred = a.deferred
      /\ b.pending = a.pending /\ b.log = a.log /\ b.ended = a.ended
  BY <1>1 DEF Sound, Authority
<1>3. Failed(b) = Failed(a) /\ Primary(b) = Primary(a) /\ Clean(b) = Clean(a)
  BY <1>2 DEF Failed, Primary, Clean
<1>4. Sound(b, r) /\ Kept(a, b)
  BY <1>2, <1>3 DEF Sound, Kept
<1>5. RecordReady(a) = [b EXCEPT !.woken = TRUE]
  BY <1>1 DEF RecordReady, Notify
<1>6. QED  BY <1>4, <1>5, SoundWoken, KeptTransitive

LEMMA SoundCancel ==
  ASSUME NEW a, NEW r, Sound(a, r)
  PROVE  Sound(Cancel(a), r) /\ Kept(a, Cancel(a))
<1>1. PICK p \in {"cancelling", "ended"} : p = IF a.phase = "ended" THEN a.phase ELSE "cancelling"
  OBVIOUS
<1>2. PICK b : b = [a EXCEPT !.closing = TRUE, !.phase = p]
  OBVIOUS
<1>3. b \in Authority /\ b.failures = a.failures /\ b.terminal = a.terminal
      /\ b.phase = p /\ b.closing /\ b.deferred = a.deferred
      /\ b.pending = a.pending /\ b.log = a.log /\ b.ended = a.ended
  BY <1>2 DEF Sound, Authority
<1>4. Failed(b) = Failed(a) /\ Primary(b) = Primary(a) /\ Clean(b) = Clean(a)
  BY <1>3 DEF Failed, Primary, Clean
<1>5. Sound(b, r) /\ Kept(a, b)
  BY <1>1, <1>3, <1>4 DEF Sound, Kept
<1>6. Cancel(a) = [b EXCEPT !.woken = TRUE]
  BY <1>1, <1>2 DEF Cancel, Notify, Sound, Authority
<1>7. QED  BY <1>5, <1>6, SoundWoken, KeptTransitive

\* The launch gate opens only where admit_work let it.
LEMMA SoundEnter ==
  ASSUME NEW a, NEW r, Sound(a, r), NEW needed, NEW have, NEW cancelled,
         WorkRefusal(a, needed, have, cancelled) = "none"
  PROVE  /\ Sound(Enter(a), r) /\ Kept(a, Enter(a))
         /\ ~Failed(a) /\ ~Over(a) /\ a.ready /\ needed \subseteq have /\ ~cancelled
<1>1. Failed(a) => Primary(a) # "none"
  BY DEF Sound, Authority, Failed, Primary, Codes
<1>2. /\ ~Failed(a) /\ ~a.closing /\ ~Over(a) /\ a.phase \notin {"cancelling", "ended"}
      /\ a.ready /\ needed \subseteq have /\ ~cancelled
  BY <1>1 DEF WorkRefusal
<1>3. PICK b : b = Enter(a)
  OBVIOUS
<1>4. b \in Authority /\ b.failures = a.failures /\ b.terminal = a.terminal
      /\ b.phase = "active" /\ b.closing = a.closing /\ b.deferred = a.deferred
      /\ b.pending = a.pending /\ b.log = a.log /\ b.ended = a.ended
  BY <1>3 DEF Sound, Authority, Enter
<1>5. Failed(b) = Failed(a) /\ Primary(b) = Primary(a) /\ Clean(b) = Clean(a)
  BY <1>4 DEF Failed, Primary, Clean
<1>6. QED  BY <1>2, <1>3, <1>4, <1>5 DEF Sound, Kept

\* observe_status and _observe_health.
LEMMA SoundObserved ==
  ASSUME NEW a, Sound(a, reader)
  PROVE  /\ Sound(ObserveStatus(a), reader) /\ Kept(a, ObserveStatus(a))
         /\ reader = "done" /\ helper.ssh = "exited" /\ helper.status # 0 =>
              Failed(ObserveStatus(a))
         /\ Sound(ObserveHealth(a), reader) /\ Kept(a, ObserveHealth(a))
<1>1. PICK s : s = ObserveStatus(a)
  OBVIOUS
<1>2. /\ Sound(s, reader) /\ Kept(a, s)
      /\ reader = "done" /\ helper.ssh = "exited" /\ helper.status # 0 => Failed(s)
  <2>1. CASE reader = "done" /\ helper.ssh = "exited" /\ helper.status # 0
    <3>1. MayRecord(a, reader, "CONTROL_PROCESS_FAILURE")
      BY <2>1 DEF MayRecord, Codes, Told
    <3>2. QED  BY <1>1, <2>1, <3>1, SoundRecorded DEF ObserveStatus
  <2>2. CASE ~(reader = "done" /\ helper.ssh = "exited" /\ helper.status # 0)
    BY <1>1, <2>2 DEF ObserveStatus, Kept
  <2>3. QED  BY <2>1, <2>2
<1>3. MayRecord(s, reader, "FORWARD_FAILURE")
  BY DEF MayRecord, Codes, Told
<1>4. /\ Sound(RecordFailure(s, "FORWARD_FAILURE"), reader)
      /\ Kept(s, RecordFailure(s, "FORWARD_FAILURE"))
  BY <1>2, <1>3, SoundRecorded
<1>5. ObserveHealth(a) \in {s, RecordFailure(s, "FORWARD_FAILURE")}
  BY <1>1 DEF ObserveHealth
<1>6. Sound(ObserveHealth(a), reader) /\ Kept(a, ObserveHealth(a))
  BY <1>2, <1>4, <1>5, KeptTransitive
<1>7. QED  BY <1>1, <1>2, <1>6

----------------------------------------------------------------------------
\* The shapes of a step of the coordinator.

\* The forwards after a step: new processes have an owner.
ForwardsKept ==
  /\ fwd' \in ForwardStates
  /\ \A f \in Forwards :
       fwd'[f].runs /\ fwd'[f].own = "none" => fwd[f].runs /\ fwd[f].own = "none"

\* What no step of its work changes.
WorkKeeps ==
  /\ program' = program /\ reader' = reader /\ stream' = stream /\ result' = result
  /\ helper' \in [ssh : {helper.ssh}, status : {helper.status}, open : {helper.open},
       said : {helper.said}, started : BOOLEAN, released : {helper.released},
       eof : {helper.eof}]
  /\ sigint' \in Interrupts
  /\ todo' \in Seq(Steps) /\ required' \subseteq Forwards

AtWork == at \in Places \ ({"connect", "raising"} \cup Closing)

\* Its work goes on.
LEMMA GoesOn ==
  ASSUME SessionInv, AtWork, WorkKeeps, ForwardsKept,
         NEW a, Sound(a, reader), Kept(auth, a),
         NEW p \in Places \ ({"connect", "raising"} \cup Closing), Go(a, p),
         p \in Launching \cup Waiting => todo' # << >>
  PROVE  SessionInv'
<1> USE DEF SessionInv, AtWork, WorkKeeps, Go
<1>1. reader # "none" /\ at # "done" /\ result = "none"
  BY DEF Connected, Resulted, Closing
<1>2. Typed'
  BY DEF Typed, ForwardsKept, HelperStates, ForwardStates, Interrupts
<1>3. Sound(auth', reader') /\ Blocked' /\ Raising'
  BY DEF Blocked, Raising
<1>4. Connected' /\ Worked' /\ Closed' /\ Resulted'
  BY <1>1 DEF Typed, Connected, Worked, Closed, Resulted, Closing, Stopping
<1>5. Owned'
  BY DEF Owned, ForwardsKept, Kept
<1>6. QED  BY <1>2, <1>3, <1>4, <1>5

\* An error leaves it.
LEMMA Raises ==
  ASSUME SessionInv, AtWork, WorkKeeps,
         NEW a, Sound(a, reader), Kept(auth, a),
         NEW code \in Local \cup Range(a.failures), Raise(a, code),
         code = "ENDING" => (Failed(a) /\ code = Primary(a)) \/ a.pending,
         \/ ForwardsKept
         \/ /\ fwd' \in ForwardStates
            /\ code \in {"EFFECT", "CANCELLED"}
  PROVE  SessionInv'
<1> USE DEF SessionInv, AtWork, WorkKeeps, Raise
<1>1. reader # "none" /\ at # "done" /\ result = "none"
  BY DEF Connected, Resulted, Closing
<1>2. Typed'
  BY DEF Typed, ForwardsKept, Places, HelperStates, ForwardStates, Interrupts
<1>3. code # "none"
  <2>1. Range(a.failures) \subseteq Codes
    BY DEF Sound, Authority, Range
  <2>2. QED  BY <2>1 DEF Codes, Local
<1>4. Sound(auth', reader') /\ Blocked' /\ Raising'
  <2>1. code = "ENDING" => reader \in {"final", "eof", "ending", "done"}
    BY DEF Sound
  <2>2. QED  BY <1>3, <2>1 DEF Blocked, Raising
<1>5. Connected' /\ Worked' /\ Closed' /\ Resulted'
  BY <1>1 DEF Typed, Connected, Worked, Closed, Resulted, Launching, Waiting, Closing,
     Stopping
<1>6. Owned'
  BY DEF Owned, ForwardsKept, Kept, Closing, Stopping
<1>7. QED  BY <1>2, <1>4, <1>5, <1>6

\* It waits, or a Ctrl-C that it has not seen yet ends its work.
LEMMA Blocks ==
  ASSUME SessionInv, AtWork, WorkKeeps, ForwardsKept,
         NEW a, Sound(a, reader), Kept(auth, a), todo' = todo,
         NEW kind \in {"no", "yes", "write"}, Block(a, kind),
         kind = "no" \/ at \in {"created", "writing", "ready", "waiting"}
  PROVE  SessionInv'
<1>1. CASE Cancelled
  BY <1>1, Raises DEF Block, Local
<1>2. CASE ~Cancelled
  <2> USE DEF SessionInv, AtWork, WorkKeeps
  <2>1. auth' = a /\ blocked' = kind /\ UNCHANGED <<at, expired, raised>>
    BY <1>2 DEF Block
  <2>2. reader # "none" /\ at # "done" /\ result = "none"
    BY DEF Connected, Resulted, Closing
  <2>3. Typed'
    BY <2>1 DEF Typed, ForwardsKept, HelperStates, ForwardStates, Interrupts
  <2>4. Sound(auth', reader') /\ Blocked' /\ Raising'
    BY <2>1 DEF Blocked, Raising, Kept
  <2>5. Connected' /\ Worked' /\ Closed' /\ Resulted'
    BY <2>1, <2>2 DEF Typed, Connected, Worked, Closed, Resulted, Closing, Stopping
  <2>6. Owned'
    BY <2>1 DEF Owned, ForwardsKept, Kept
  <2>7. QED  BY <2>3, <2>4, <2>5, <2>6
<1>3. QED  BY <1>1, <1>2

\* Closure goes from one step to the next; what it could not do, it records.
LEMMA Closes ==
  ASSUME SessionInv, NEW a, Sound(a, reader), Kept(auth, a),
         at \in ({"next", "raising"} \cup Closing) \ {"done"},
         NEW p \in Closing, Go(a, p),
         UNCHANGED <<program, reader, stream, required, todo>>,
         at \notin Closing => todo = << >> \/ Failed(a) \/ a.deferred,
         helper' \in HelperStates,
         helper'.ssh = "none" <=> helper.ssh = "none",
         reader = "none" => Failed(a) /\ p \notin Stopping,
         sigint' \in Interrupts,
         fwd' \in ForwardStates,
         result' \in Codes \cup {"none", "LOG", "success"},
         Owned', Closed', Resulted'
  PROVE  SessionInv'
<1> USE DEF SessionInv, Go
<1>1. Typed'
  BY DEF Typed, Places
<1>2. Sound(auth', reader') /\ Blocked' /\ Raising'
  BY DEF Blocked, Raising, Closing, Stopping
<1>3. Connected'
  BY DEF Connected, Closing, Stopping
<1>4. Worked'
  BY DEF Worked, Kept, Launching, Waiting, Closing, Stopping
<1>5. QED  BY <1>1, <1>2, <1>3, <1>4

----------------------------------------------------------------------------
\* The operation's work.

LEMMA KeptAsItIs == ASSUME NEW a PROVE Kept(a, a)
BY DEF Kept

LEMMA PrimaryIsRecorded ==
  ASSUME NEW a, NEW r, Sound(a, r), Failed(a)
  PROVE  Primary(a) \in Range(a.failures)
BY DEF Sound, Authority, Failed, Primary, Range

\* The reasons of a refusal: the first failure, or one of the body's own.
LEMMA Refused ==
  ASSUME NEW a, NEW r, Sound(a, r), NEW needed, NEW have, NEW cancelled,
         NEW code \in {EffectRefusal(a, cancelled), WorkRefusal(a, needed, have, cancelled)},
         code # "none"
  PROVE  /\ code \in Local \cup Range(a.failures)
         /\ code = "ENDING" => (Failed(a) /\ code = Primary(a)) \/ a.pending
<1>1. CASE Failed(a)
  BY <1>1, PrimaryIsRecorded DEF EffectRefusal, WorkRefusal
<1>2. CASE ~Failed(a)
  BY <1>2 DEF EffectRefusal, WorkRefusal, Local
<1>3. QED  BY <1>1, <1>2

LEMMA WorkUnmoved ==
  ASSUME SessionInv, UNCHANGED <<program, reader, helper, stream, result>>,
         sigint' \in Interrupts,
         todo' \in Seq(Steps), required' \subseteq Forwards
  PROVE  WorkKeeps
BY DEF SessionInv, Typed, WorkKeeps, HelperStates, ForwardStates, Interrupts

LEMMA Unmoved ==
  ASSUME SessionInv, UNCHANGED <<todo, fwd, required, Outside>>
  PROVE  WorkKeeps /\ ForwardsKept
BY WorkUnmoved DEF SessionInv, Typed, Outside, ForwardsKept

LEMMA Polled == ASSUME SessionInv, ForwardsPolled PROVE ForwardsKept
<1>1. fwd \in ForwardStates
  BY DEF SessionInv, Typed
<1>2. QED  BY <1>1 DEF ForwardsKept, ForwardsPolled, ForwardStates

\* The wait for a state: its possible outcomes.
LEMMA Awaits ==
  ASSUME SessionInv, AtWork, WorkKeeps, ForwardsKept, todo' = todo,
         at \in {"created", "ready"}, NEW p \in {"stage", "next"},
         NEW a, Sound(a, reader), Kept(auth, a),
         NEW b, Sound(b, reader), Kept(auth, b),
         \/ Failed(a) /\ Raise(a, Primary(a))
         \/ Raise(a, "EFFECT")
         \/ Go(b, p)
         \/ Block(a, "yes")
  PROVE  SessionInv'
<1>1. p \in Places \ ({"connect", "raising"} \cup Closing) /\ p \notin Launching \cup Waiting
  BY DEF Places, Launching, Waiting, Closing, Stopping
<1>2. CASE Failed(a) /\ Raise(a, Primary(a))
  BY <1>2, PrimaryIsRecorded, Raises
<1>3. CASE Raise(a, "EFFECT")
  BY <1>3, Raises DEF Local
<1>4. CASE Go(b, p)
  BY <1>1, <1>4, GoesOn
<1>5. CASE Block(a, "yes")
  BY <1>5, Blocks
<1>6. QED  BY <1>2, <1>3, <1>4, <1>5

LEMMA AwaitCreatedKeeps == ASSUME SessionInv, AwaitCreated PROVE SessionInv'
<1>1. PICK a : a = ObserveStatus(auth)
  OBVIOUS
<1>2. /\ at = "created" /\ UNCHANGED <<todo, fwd, required, Outside>>
      /\ \/ Failed(a) /\ Raise(a, Primary(a))
         \/ Raise(a, "EFFECT")
         \/ Go(a, "stage")
         \/ Block(a, "yes")
  BY <1>1 DEF AwaitCreated, Await
<1>3. AtWork /\ WorkKeeps /\ ForwardsKept
  BY <1>2, Unmoved DEF AtWork, Places, Closing, Stopping
<1>4. Sound(a, reader) /\ Kept(auth, a)
  BY <1>1, SoundObserved DEF SessionInv
<1>5. QED  BY <1>2, <1>3, <1>4, Awaits

LEMMA AwaitReadyKeeps == ASSUME SessionInv, AwaitReady PROVE SessionInv'
<1>1. PICK a : a = ObserveStatus(auth)
  OBVIOUS
<1>2. /\ at = "ready" /\ UNCHANGED <<todo, fwd, required, Outside>>
      /\ \/ Failed(a) /\ Raise(a, Primary(a))
         \/ Raise(a, "EFFECT")
         \/ Go(RecordReady(a), "next")
         \/ Block(a, "yes")
  BY <1>1 DEF AwaitReady, Await
<1>3. AtWork /\ WorkKeeps /\ ForwardsKept
  BY <1>2, Unmoved DEF AtWork, Places, Closing, Stopping
<1>4. Sound(a, reader) /\ Kept(auth, a)
  BY <1>1, SoundObserved DEF SessionInv
<1>5. Sound(RecordReady(a), reader) /\ Kept(auth, RecordReady(a))
  BY <1>4, SoundReady, KeptTransitive
<1>6. QED  BY <1>2, <1>3, <1>4, <1>5, Awaits

LEMMA WakeKeeps == ASSUME SessionInv, Wake PROVE SessionInv'
<1>1. PICK a : a = [auth EXCEPT !.woken = FALSE]
  OBVIOUS
<1>2. /\ at \in {"created", "writing", "ready", "waiting"} /\ Block(a, "no")
      /\ UNCHANGED <<todo, fwd, required, Outside>>
  BY <1>1 DEF Wake, Block, SessionInv, Blocked
<1>3. AtWork /\ WorkKeeps /\ ForwardsKept
  BY <1>2, Unmoved DEF AtWork, Places, Waiting, Closing, Stopping
<1>4. Sound(a, reader) /\ Kept(auth, a)
  BY <1>1, SoundWoken DEF SessionInv
<1>5. QED  BY <1>2, <1>3, <1>4, Blocks

LEMMA ExpireKeeps == ASSUME SessionInv, Expire PROVE SessionInv'
<1>1. at = "created" /\ UNCHANGED <<todo, fwd, required, Outside>>
  BY DEF Expire
<1>2. AtWork /\ WorkKeeps /\ ForwardsKept
  BY <1>1, Unmoved DEF AtWork, Places, Closing, Stopping
<1>3. CASE Raise(auth, "CANCELLED")
  BY <1>2, <1>3, KeptAsItIs, Raises DEF SessionInv, Local
<1>4. CASE blocked' = "no" /\ expired' = TRUE /\ UNCHANGED <<auth, at, raised>>
  BY <1>1, <1>4 DEF SessionInv, Typed, Outside, Blocked, Raising, Connected, Worked, Owned,
     Closed,
     Resulted
<1>5. QED  BY <1>3, <1>4 DEF Expire

LEMMA ConnectKeeps == ASSUME SessionInv, Connect PROVE SessionInv'
<1> USE DEF SessionInv, Connect
<1>1. /\ at = "connect" /\ reader = "none" /\ result = "none" /\ auth' = auth
      /\ UNCHANGED <<program, todo, fwd, required, stream, sigint, result>>
      /\ at' \in {"created", "raising"} /\ blocked' = "no" /\ expired' = FALSE
  BY DEF Connected, Resulted, Closing, Go, Raise
<1>2. /\ at' = "raising" => /\ reader' = reader /\ helper' = helper
                            /\ raised' \in {"EFFECT", "CANCELLED"}
      /\ at' = "created" => /\ reader' = "reading" /\ raised' = "none"
                            /\ helper' = [helper EXCEPT !.ssh = "running", !.open = TRUE]
  BY DEF Go, Raise
<1>3. Typed'
  BY <1>1, <1>2 DEF Typed, Places, HelperStates, ForwardStates, Interrupts
<1>4. Sound(auth', reader')
  BY <1>1, <1>2 DEF Sound, Ordered
<1>5. Blocked' /\ Raising'
  BY <1>1, <1>2 DEF Blocked, Raising, Local
<1>6. Connected' /\ Worked' /\ Owned' /\ Closed' /\ Resulted'
  BY <1>1, <1>2 DEF Typed, Connected, Worked, Owned, Closed, Resulted, Launching, Waiting,
     Closing, Stopping, HelperStates, ForwardStates, Interrupts
<1>7. QED  BY <1>3, <1>4, <1>5, <1>6

LEMMA AdmitEffectKeeps ==
  ASSUME SessionInv, NEW here \in {"stage", "start"}, NEW next \in {"staging", "writing"},
         AdmitEffect(here, next)
  PROVE  SessionInv'
<1>1. PICK code : code = EffectRefusal(auth, Cancelled)
  OBVIOUS
<1>2. /\ at = here /\ UNCHANGED <<todo, fwd, required, Outside>>
      /\ IF code = "none" THEN Go(auth, next) ELSE Raise(auth, code)
  BY <1>1 DEF AdmitEffect
<1>3. AtWork /\ WorkKeeps /\ ForwardsKept
  BY <1>2, Unmoved DEF AtWork, Places, Closing, Stopping
<1>4. Sound(auth, reader) /\ Kept(auth, auth)
  BY KeptAsItIs DEF SessionInv
<1>5. CASE code = "none"
  BY <1>2, <1>3, <1>4, <1>5, GoesOn DEF Places, Launching, Waiting, Closing, Stopping
<1>6. CASE code # "none"
  <2>1. /\ code \in Local \cup Range(auth.failures)
        /\ code = "ENDING" => (Failed(auth) /\ code = Primary(auth)) \/ auth.pending
    BY <1>1, <1>4, <1>6, Refused
  <2>2. QED  BY <1>2, <1>3, <1>4, <1>6, <2>1, Raises
<1>7. QED  BY <1>5, <1>6

LEMMA StepDone == ASSUME SessionInv, todo # << >> PROVE Tail(todo) \in Seq(Steps)
BY DEF SessionInv, Typed

\* Where a launch or a wait is, a step of the program is left.
LEMMA StepIsLeft ==
  ASSUME SessionInv, at \in Launching \cup Waiting PROVE AtWork /\ todo # << >>
BY DEF SessionInv, Worked, AtWork, Places, Launching, Waiting, Closing, Stopping

LEMMA RunStageKeeps == ASSUME SessionInv, RunStage PROVE SessionInv'
<1>1. /\ at = "staging" /\ UNCHANGED <<todo, fwd, required, Outside>>
      /\ Go(auth, "start") \/ Raise(auth, "EFFECT") \/ Raise(auth, "CANCELLED")
  BY DEF RunStage
<1>2. AtWork /\ WorkKeeps /\ ForwardsKept
  BY <1>1, Unmoved DEF AtWork, Places, Closing, Stopping
<1>3. Sound(auth, reader) /\ Kept(auth, auth)
  BY KeptAsItIs DEF SessionInv
<1>4. CASE Go(auth, "start")
  BY <1>2, <1>3, <1>4, GoesOn DEF Places, Launching, Waiting, Closing, Stopping
<1>5. CASE Raise(auth, "EFFECT") \/ Raise(auth, "CANCELLED")
  BY <1>2, <1>3, <1>5, Raises DEF Local
<1>6. QED  BY <1>1, <1>4, <1>5

LEMMA WriteStartKeeps == ASSUME SessionInv, WriteStart PROVE SessionInv'
<1>1. PICK a : a = ObserveStatus(auth)
  OBVIOUS
<1>2. /\ at = "writing"
      /\ UNCHANGED <<program, todo, fwd, required, reader, stream, sigint, result>>
      /\ \/ Failed(a) /\ Raise(a, Primary(a)) /\ UNCHANGED helper
         \/ Block(a, "yes") /\ UNCHANGED helper
         \/ Block(a, "write") /\ UNCHANGED helper
         \/ Raise(a, "EFFECT") /\ UNCHANGED helper
         \/ /\ helper' = [helper EXCEPT !.started = TRUE]
            /\ Go(a, IF program.live THEN "ready" ELSE "next")
  BY <1>1 DEF WriteStart
<1>3. AtWork /\ WorkKeeps /\ ForwardsKept
  BY <1>2 DEF SessionInv, Typed, AtWork, WorkKeeps, ForwardsKept, Places, Closing, Stopping,
     HelperStates, ForwardStates, Interrupts
<1>4. Sound(a, reader) /\ Kept(auth, a)
  BY <1>1, SoundObserved DEF SessionInv
<1>5. CASE Failed(a) /\ Raise(a, Primary(a))
  BY <1>3, <1>4, <1>5, PrimaryIsRecorded, Raises
<1>6. CASE Block(a, "yes") \/ Block(a, "write")
  BY <1>2, <1>3, <1>4, <1>6, Blocks
<1>7. CASE Raise(a, "EFFECT")
  BY <1>3, <1>4, <1>7, Raises DEF Local
<1>8. CASE Go(a, IF program.live THEN "ready" ELSE "next")
  BY <1>3, <1>4, <1>8, GoesOn DEF Places, Launching, Waiting, Closing, Stopping
<1>9. QED  BY <1>2, <1>5, <1>6, <1>7, <1>8

LEMMA AdmitForwardsKeeps == ASSUME SessionInv, AdmitForwards PROVE SessionInv'
<1>1. PICK code : code = WorkRefusal(auth, required, Committed, Cancelled)
  OBVIOUS
<1>2. /\ at = "next" /\ todo # << >> /\ UNCHANGED <<todo, fwd, required, Outside>>
      /\ IF code = "none" THEN Go(Enter(auth), "spawning") ELSE Raise(auth, code)
  BY <1>1 DEF AdmitForwards, Doing
<1>3. AtWork /\ WorkKeeps /\ ForwardsKept
  BY <1>2, Unmoved DEF AtWork, Places, Closing, Stopping
<1>4. Sound(auth, reader) /\ Kept(auth, auth)
  BY KeptAsItIs DEF SessionInv
<1>5. CASE code = "none"
  <2>1. Sound(Enter(auth), reader) /\ Kept(auth, Enter(auth))
    BY <1>1, <1>4, <1>5, SoundEnter
  <2>2. "spawning" \in Places \ ({"connect", "raising"} \cup Closing)
    BY DEF Places, Launching, Closing, Stopping
  <2>3. QED  BY <1>2, <1>3, <1>5, <2>1, <2>2, GoesOn
<1>6. CASE code # "none"
  <2>1. /\ code \in Local \cup Range(auth.failures)
        /\ code = "ENDING" => (Failed(auth) /\ code = Primary(auth)) \/ auth.pending
    BY <1>1, <1>4, <1>6, Refused
  <2>2. QED  BY <1>2, <1>3, <1>4, <1>6, <2>1, Raises
<1>7. QED  BY <1>5, <1>6

LEMMA SpawnForwardKeeps == ASSUME SessionInv, SpawnForward PROVE SessionInv'
<1>1. /\ at = "spawning" /\ UNCHANGED <<todo, required, Outside>>
      /\ Go(auth, "connecting") \/ Go(auth, "rollback") \/ Go(auth, "cancelled")
      /\ \/ fwd' = fwd
         \/ \E f : fwd' = [fwd EXCEPT ![f] = [own |-> "pending", runs |-> TRUE, seen |-> FALSE]]
  BY DEF SpawnForward
<1>2. AtWork /\ todo # << >>
  BY <1>1, StepIsLeft DEF Launching
<1>3. WorkKeeps
  BY <1>1, WorkUnmoved DEF SessionInv, Typed, Outside
<1>4. ForwardsKept
  <2>1. CASE fwd' = fwd
    BY <2>1 DEF SessionInv, Typed, ForwardsKept
  <2>2. ASSUME NEW f, fwd' = [fwd EXCEPT ![f] = [own |-> "pending", runs |-> TRUE, seen |-> FALSE]]
        PROVE  ForwardsKept
    BY <2>2 DEF SessionInv, Typed, ForwardsKept, HelperStates, ForwardStates, Interrupts
  <2>3. QED  BY <1>1, <2>1, <2>2
<1>5. Sound(auth, reader) /\ Kept(auth, auth)
  BY KeptAsItIs DEF SessionInv
<1>6. Launching \subseteq Places \ ({"connect", "raising"} \cup Closing)
  BY DEF Places, Launching, Closing, Stopping
<1>7. PICK p \in Launching : Go(auth, p)
  BY <1>1 DEF Launching
<1>8. QED  BY <1>1, <1>2, <1>3, <1>4, <1>5, <1>6, <1>7, GoesOn

LEMMA ForwardConnectsKeeps == ASSUME SessionInv, ForwardConnects PROVE SessionInv'
<1>1. /\ at = "connecting" /\ UNCHANGED <<todo, fwd, required, Outside>>
      /\ Go(auth, "spawning") \/ Go(auth, "rollback") \/ Go(auth, "cancelled")
  BY DEF ForwardConnects
<1>2. AtWork /\ todo # << >>
  BY <1>1, StepIsLeft DEF Launching
<1>3. WorkKeeps /\ ForwardsKept
  BY <1>1, Unmoved
<1>4. Sound(auth, reader) /\ Kept(auth, auth)
  BY KeptAsItIs DEF SessionInv
<1>5. Launching \subseteq Places \ ({"connect", "raising"} \cup Closing)
  BY DEF Places, Launching, Closing, Stopping
<1>6. PICK p \in Launching : Go(auth, p)
  BY <1>1 DEF Launching
<1>7. QED  BY <1>1, <1>2, <1>3, <1>4, <1>5, <1>6, GoesOn

\* A step of the program is done.
LEMMA StepEnds ==
  ASSUME SessionInv, AtWork, todo # << >>, Done(auth) \/ Done(ObserveHealth(auth)),
         UNCHANGED <<program, reader, helper, stream, result>>, ForwardsKept,
         required' \subseteq Forwards,
         sigint' \in Interrupts
  PROVE  SessionInv'
<1>1. PICK a : a \in {auth, ObserveHealth(auth)} /\ Go(a, "next") /\ todo' = Tail(todo)
  BY DEF Done
<1>2. todo' \in Seq(Steps)
  BY <1>1, StepDone
<1>3. WorkKeeps
  BY <1>2, WorkUnmoved
<1>4. Sound(a, reader) /\ Kept(auth, a)
  BY <1>1, SoundObserved, KeptAsItIs DEF SessionInv
<1>5. "next" \in Places \ ({"connect", "raising"} \cup Closing \cup Launching \cup Waiting)
  BY DEF Places, Launching, Waiting, Closing, Stopping
<1>6. QED  BY <1>1, <1>3, <1>4, <1>5, GoesOn

LEMMA CommitForwardsKeeps == ASSUME SessionInv, CommitForwards PROVE SessionInv'
<1>1. at = "spawning" /\ Done(auth) /\ UNCHANGED Outside
  BY DEF CommitForwards
<1>2. AtWork /\ todo # << >>
  BY <1>1, StepIsLeft DEF Launching
<1>3. ForwardsKept /\ required' \subseteq Forwards
  <2>1. Pending \subseteq Forwards
    BY DEF Pending
  <2>2. QED  BY <2>1 DEF CommitForwards, SessionInv, Typed, ForwardsKept, HelperStates,
        ForwardStates, Interrupts
<1>4. sigint' \in Interrupts
  BY <1>1 DEF SessionInv, Typed, Outside
<1>5. QED  BY <1>1, <1>2, <1>3, <1>4, StepEnds DEF Outside

LEMMA RollbackForwardsKeeps == ASSUME SessionInv, RollbackForwards PROVE SessionInv'
<1>1. /\ at \in {"rollback", "cancelled"} /\ UNCHANGED <<required, Outside>>
      /\ \/ Done(auth) /\ \A f \in Pending : ~fwd'[f].runs
         \/ (Raise(auth, "EFFECT") \/ Raise(auth, "CANCELLED")) /\ UNCHANGED todo
  <2>1. PICK left : /\ fwd' = Stopped(Pending, left)
                    /\ \/ Done(auth) /\ \A f \in left : ~fwd[f].runs
                       \/ (Raise(auth, "EFFECT") \/ Raise(auth, "CANCELLED")) /\ UNCHANGED todo
    BY DEF RollbackForwards
  <2>2. (\A f \in left : ~fwd[f].runs) => \A f \in Pending : ~fwd'[f].runs
    BY <2>1 DEF Stopped, Pending
  <2>3. QED  BY <2>1, <2>2 DEF RollbackForwards
<1>2. /\ fwd' \in ForwardStates
      /\ \A f \in Forwards \ Pending : fwd'[f] = fwd[f]
  BY DEF RollbackForwards, Stopped, SessionInv, Typed, HelperStates, ForwardStates,
     Interrupts
<1>3. AtWork /\ todo # << >>
  BY <1>1, StepIsLeft DEF Launching
<1>4. CASE Done(auth) /\ \A f \in Pending : ~fwd'[f].runs
  <2>1. ForwardsKept
    BY <1>2, <1>4 DEF ForwardsKept
  <2>2. QED  BY <1>1, <1>3, <1>4, <2>1, StepEnds DEF SessionInv, Typed, Outside
<1>5. CASE (Raise(auth, "EFFECT") \/ Raise(auth, "CANCELLED")) /\ UNCHANGED todo
  <2>1. WorkKeeps
    BY <1>1, <1>5, WorkUnmoved DEF SessionInv, Typed, Outside
  <2>2. Sound(auth, reader) /\ Kept(auth, auth)
    BY KeptAsItIs DEF SessionInv
  <2>3. QED  BY <1>2, <1>3, <1>5, <2>1, <2>2, Raises DEF Local
<1>6. QED  BY <1>1, <1>4, <1>5

\* poll_operation and the wait for OpenOCD's exit.
LEMMA CheckKeeps == ASSUME SessionInv, Check PROVE SessionInv'
<1>1. PICK a : a = ObserveHealth(auth)
  OBVIOUS
<1>2. /\ at = "next" /\ todo # << >> /\ ForwardsPolled /\ UNCHANGED <<required, Outside>>
      /\ \/ Failed(a) /\ Raise(a, Primary(a)) /\ UNCHANGED todo
         \/ Raise(a, "EFFECT") /\ UNCHANGED todo
         \/ Done(a)
  BY <1>1 DEF Check, Doing
<1>3. AtWork /\ ForwardsKept
  BY <1>2, Polled DEF AtWork, Places, Closing, Stopping
<1>4. Sound(a, reader) /\ Kept(auth, a)
  BY <1>1, SoundObserved DEF SessionInv
<1>5. CASE ((Failed(a) /\ Raise(a, Primary(a))) \/ Raise(a, "EFFECT")) /\ UNCHANGED todo
  <2>1. WorkKeeps
    BY <1>2, <1>5, WorkUnmoved DEF SessionInv, Typed, Outside
  <2>2. CASE Failed(a) /\ Raise(a, Primary(a))
    BY <1>3, <1>4, <2>1, <2>2, PrimaryIsRecorded, Raises
  <2>3. CASE Raise(a, "EFFECT")
    BY <1>3, <1>4, <2>1, <2>3, Raises DEF Local
  <2>4. QED  BY <1>5, <2>2, <2>3
<1>6. CASE Done(a)
  BY <1>1, <1>2, <1>3, <1>6, StepEnds DEF SessionInv, Typed, Outside
<1>7. QED  BY <1>2, <1>5, <1>6

LEMMA AwaitExitKeeps == ASSUME SessionInv, AwaitExit PROVE SessionInv'
<1>1. PICK a : a = ObserveHealth(auth)
  OBVIOUS
<1>2. /\ at = "waiting" /\ ForwardsPolled /\ UNCHANGED <<required, Outside>>
      /\ \/ Failed(a) /\ Raise(a, Primary(a)) /\ UNCHANGED todo
         \/ Block(a, "yes") /\ UNCHANGED todo
         \/ Done(a)
  BY <1>1 DEF AwaitExit
<1>3. AtWork /\ todo # << >> /\ ForwardsKept
  BY <1>2, Polled, StepIsLeft DEF Waiting
<1>4. Sound(a, reader) /\ Kept(auth, a)
  BY <1>1, SoundObserved DEF SessionInv
<1>5. CASE ((Failed(a) /\ Raise(a, Primary(a))) \/ Block(a, "yes")) /\ UNCHANGED todo
  <2>1. WorkKeeps
    BY <1>2, <1>5, WorkUnmoved DEF SessionInv, Typed, Outside
  <2>2. CASE Failed(a) /\ Raise(a, Primary(a))
    BY <1>3, <1>4, <2>1, <2>2, PrimaryIsRecorded, Raises
  <2>3. CASE Block(a, "yes")
    BY <1>2, <1>3, <1>4, <1>5, <2>1, <2>3, Blocks
  <2>4. QED  BY <1>5, <2>2, <2>3
<1>6. CASE Done(a)
  BY <1>1, <1>2, <1>3, <1>6, StepEnds DEF SessionInv, Typed, Outside
<1>7. QED  BY <1>2, <1>5, <1>6

LEMMA BeginWaitKeeps == ASSUME SessionInv, BeginWait PROVE SessionInv'
<1>1. /\ at = "next" /\ todo # << >> /\ Go(auth, "waiting")
      /\ UNCHANGED <<todo, fwd, required, Outside>>
  BY DEF BeginWait, Doing
<1>2. AtWork /\ WorkKeeps /\ ForwardsKept
  BY <1>1, Unmoved DEF AtWork, Places, Closing, Stopping
<1>3. "waiting" \in Places \ ({"connect", "raising"} \cup Closing)
  BY DEF Places, Waiting, Closing, Stopping
<1>4. QED  BY <1>1, <1>2, <1>3, KeptAsItIs, GoesOn DEF SessionInv

LEMMA RelaxKeeps == ASSUME SessionInv, Relax PROVE SessionInv'
<1>1. /\ at = "next" /\ todo # << >> /\ Done(auth) /\ UNCHANGED <<fwd, Outside>>
      /\ required' \subseteq required
  BY DEF Relax, Doing
<1>2. AtWork /\ ForwardsKept
  BY <1>1 DEF SessionInv, Typed, ForwardsKept, AtWork, Places, Closing, Stopping
<1>3. QED  BY <1>1, <1>2, StepEnds DEF SessionInv, Typed, Outside

\* interactive_client and run_batch_client.
LEMMA BeginClientKeeps == ASSUME SessionInv, BeginClient PROVE SessionInv'
<1>1. /\ at = "next" /\ todo # << >>
      /\ Go(auth, "polling") \/ Raise(auth, "CANCELLED")
      /\ UNCHANGED <<program, todo, fwd, required, reader, helper, stream, result>>
      /\ sigint' \in {sigint, [sigint EXCEPT !.owned = TRUE]}
  BY DEF BeginClient, Doing
<1>2. AtWork /\ ForwardsKept
  BY <1>1 DEF SessionInv, Typed, ForwardsKept, AtWork, Places, Closing, Stopping
<1>3. WorkKeeps
  BY <1>1, WorkUnmoved DEF SessionInv, Typed, HelperStates, ForwardStates, Interrupts
<1>4. Sound(auth, reader) /\ Kept(auth, auth)
  BY KeptAsItIs DEF SessionInv
<1>5. "polling" \in Places \ ({"connect", "raising"} \cup Closing)
  BY DEF Places, Waiting, Closing, Stopping
<1>6. CASE Go(auth, "polling")
  BY <1>1, <1>2, <1>3, <1>4, <1>5, <1>6, GoesOn
<1>7. CASE Raise(auth, "CANCELLED")
  BY <1>2, <1>3, <1>4, <1>7, Raises DEF Local
<1>8. QED  BY <1>1, <1>6, <1>7

LEMMA PollBeforeClientKeeps == ASSUME SessionInv, PollBeforeClient PROVE SessionInv'
<1>1. PICK a : a = ObserveHealth(auth)
  OBVIOUS
<1>2. /\ at = "polling" /\ ForwardsPolled
      /\ UNCHANGED <<program, todo, required, reader, helper, stream, result>>
      /\ sigint' \in {sigint, [sigint EXCEPT !.owned = FALSE]}
      /\ \/ Failed(a) /\ Raise(a, Primary(a))
         \/ Raise(a, "EFFECT")
         \/ Go(a, "admitting")
  BY <1>1 DEF PollBeforeClient, RaiseFromClient
<1>3. AtWork /\ todo # << >> /\ ForwardsKept
  BY <1>2, Polled, StepIsLeft DEF Waiting
<1>4. WorkKeeps
  BY <1>2, WorkUnmoved DEF SessionInv, Typed, HelperStates, ForwardStates, Interrupts
<1>5. Sound(a, reader) /\ Kept(auth, a)
  BY <1>1, SoundObserved DEF SessionInv
<1>6. CASE Failed(a) /\ Raise(a, Primary(a))
  BY <1>3, <1>4, <1>5, <1>6, PrimaryIsRecorded, Raises
<1>7. CASE Raise(a, "EFFECT")
  BY <1>3, <1>4, <1>5, <1>7, Raises DEF Local
<1>8. CASE Go(a, "admitting")
  <2>1. "admitting" \in Places \ ({"connect", "raising"} \cup Closing)
    BY DEF Places, Waiting, Closing, Stopping
  <2>2. QED  BY <1>2, <1>3, <1>4, <1>5, <1>8, <2>1, GoesOn
<1>9. QED  BY <1>2, <1>6, <1>7, <1>8

LEMMA EnterClientKeeps == ASSUME SessionInv, EnterClient PROVE SessionInv'
<1>1. PICK code : code = WorkRefusal(auth, required, Committed, Cancelled)
  OBVIOUS
<1>2. /\ at = "admitting"
      /\ UNCHANGED <<program, todo, fwd, required, reader, helper, stream, result>>
      /\ sigint' \in {sigint, [sigint EXCEPT !.owned = FALSE]}
      /\ IF code = "none" THEN Go(Enter(auth), "client") ELSE Raise(auth, code)
  BY <1>1 DEF EnterClient, RaiseFromClient
<1>3. AtWork /\ todo # << >> /\ ForwardsKept
  BY <1>2, StepIsLeft DEF Waiting, SessionInv, Typed, ForwardsKept
<1>4. WorkKeeps
  BY <1>2, WorkUnmoved DEF SessionInv, Typed, HelperStates, ForwardStates, Interrupts
<1>5. Sound(auth, reader) /\ Kept(auth, auth)
  BY KeptAsItIs DEF SessionInv
<1>6. CASE code = "none"
  <2>1. Sound(Enter(auth), reader) /\ Kept(auth, Enter(auth))
    BY <1>1, <1>5, <1>6, SoundEnter
  <2>2. "client" \in Places \ ({"connect", "raising"} \cup Closing)
    BY DEF Places, Waiting, Closing, Stopping
  <2>3. QED  BY <1>2, <1>3, <1>4, <1>6, <2>1, <2>2, GoesOn
<1>7. CASE code # "none"
  <2>1. /\ code \in Local \cup Range(auth.failures)
        /\ code = "ENDING" => (Failed(auth) /\ code = Primary(auth)) \/ auth.pending
    BY <1>1, <1>5, <1>7, Refused
  <2>2. QED  BY <1>2, <1>3, <1>4, <1>5, <1>7, <2>1, Raises
<1>8. QED  BY <1>6, <1>7

LEMMA ClientEndsKeeps == ASSUME SessionInv, ClientEnds PROVE SessionInv'
<1>1. /\ at = "client" /\ UNCHANGED <<program, fwd, required, reader, helper, stream, result>>
      /\ sigint' = [sigint EXCEPT !.owned = FALSE]
      /\ \/ Done(auth)
         \/ (Raise(auth, "EFFECT") \/ Raise(auth, "CANCELLED")) /\ UNCHANGED todo
  BY DEF ClientEnds, RaiseFromClient
<1>2. AtWork /\ todo # << >> /\ ForwardsKept
  BY <1>1, StepIsLeft DEF Waiting, SessionInv, Typed, ForwardsKept
<1>3. sigint' \in Interrupts
  BY <1>1 DEF SessionInv, Typed, HelperStates, ForwardStates, Interrupts
<1>4. CASE Done(auth)
  BY <1>1, <1>2, <1>3, <1>4, StepEnds DEF SessionInv, Typed
<1>5. CASE (Raise(auth, "EFFECT") \/ Raise(auth, "CANCELLED")) /\ UNCHANGED todo
  <2>1. WorkKeeps
    BY <1>1, <1>3, <1>5, WorkUnmoved DEF SessionInv, Typed
  <2>2. QED  BY <1>2, <1>5, <2>1, KeptAsItIs, Raises DEF SessionInv, Local
<1>6. QED  BY <1>1, <1>4, <1>5

----------------------------------------------------------------------------
\* Closure.

\* Steps that touch neither the forwards nor what a later step relies on.
LEMMA ClosesOn ==
  ASSUME SessionInv, NEW a, Sound(a, reader), Kept(auth, a),
         at \in Closing \ {"finishing", "done"}, NEW p \in Closing \ {"finishing", "done"},
         Go(a, p), UNCHANGED <<program, todo, reader, stream, required, result>>,
         fwd' \in ForwardStates,
         \A f \in Forwards : fwd'[f].runs = fwd[f].runs /\ fwd'[f].own = fwd[f].own,
         p \in {"closing", "sampling", "close forwards"}
           \/ at \notin {"closing", "sampling", "close forwards"},
         helper' \in HelperStates,
         helper'.ssh = "none" <=> helper.ssh = "none",
         p \in Stopping => reader # "none",
         ~Failed(a) /\ p \in {"join again", "resolve"} => helper'.ssh = "exited",
         ~Failed(a) /\ p = "resolve" => reader = "done",
         sigint' \in Interrupts
  PROVE  SessionInv'
<1>1. auth' = a /\ at' = p /\ p # "finishing" /\ p # "done" /\ result = "none"
  BY DEF Go, SessionInv, Resulted
<1>2. Owned'
  BY <1>1 DEF SessionInv, Owned, Kept, Closing
<1>3. Closed' /\ Resulted'
  BY <1>1 DEF Closed, Resulted
<1>4. reader = "none" => Failed(a) /\ p \notin Stopping
  BY DEF SessionInv, Connected, Kept, Closing, Stopping
<1>5. /\ result' \in Codes \cup {"none", "LOG", "success"}
      /\ at \in ({"next", "raising"} \cup Closing) \ {"done"}
  BY <1>1
<1>6. QED  BY <1>1, <1>2, <1>3, <1>4, <1>5, Closes

LEMMA FinishedKeeps == ASSUME SessionInv, Finished PROVE SessionInv'
<1>1. /\ at = "next" /\ todo = << >> /\ Go(auth, "closing")
      /\ UNCHANGED <<todo, fwd, required, Outside>>
  BY DEF Finished
<1>2. auth' = auth /\ at' = "closing" /\ result = "none" /\ reader # "none"
  BY <1>1 DEF Go, SessionInv, Resulted, Connected, Closing, Stopping
<1>3. Owned' /\ Closed' /\ Resulted'
  BY <1>1, <1>2 DEF SessionInv, Owned, Closed, Resulted, Outside
<1>4. "closing" \in Closing
  BY DEF Closing
<1>5. QED  BY <1>1, <1>2, <1>3, <1>4, KeptAsItIs, Closes DEF SessionInv, Typed, Outside

LEMMA RecordRaisedKeeps == ASSUME SessionInv, RecordRaised PROVE SessionInv'
<1>1. PICK a : a = RecordFailure(auth, raised)
  OBVIOUS
<1>2. /\ at = "raising" /\ raised # "none" /\ Go(a, "closing")
      /\ UNCHANGED <<todo, fwd, required, Outside>>
  BY <1>1 DEF RecordRaised, SessionInv, Raising
<1>3. MayRecord(auth, reader, raised)
  <2>1. raised \in Local \cup Range(auth.failures) /\ Range(auth.failures) \subseteq Codes
    BY <1>2 DEF SessionInv, Raising, Sound, Authority, Range
  <2>2. raised = "ENDING" => Failed(auth) \/ auth.pending \/
          (Clean(auth) /\ reader \in {"ending", "done"})
    BY DEF SessionInv, Raising, Sound
  <2>3. QED  BY <2>1, <2>2 DEF MayRecord, Local, Codes, Told
<1>4. /\ Sound(a, reader) /\ Kept(auth, a)
      /\ Failed(a) \/ a.deferred
      /\ raised # "ENDING" \/ ~auth.pending => Failed(a)
  BY <1>1, <1>3, SoundRecorded DEF SessionInv
<1>5. raised \in {"EFFECT", "CANCELLED"} => Failed(a)
  BY <1>4
<1>6. auth' = a /\ at' = "closing" /\ result = "none"
  BY <1>2 DEF Go, SessionInv, Resulted
<1>7. Owned' /\ Closed' /\ Resulted'
  <2>1. Owned'
    <3>1. fwd' = fwd /\ (Failed(auth) => Failed(a)) /\ Owned
      BY <1>2, <1>4 DEF SessionInv, Kept
    <3>2. QED  BY <1>2, <1>5, <1>6, <3>1 DEF Owned
  <2>2. Closed' /\ Resulted'
    BY <1>2, <1>6 DEF Closed, Resulted, Outside
  <2>3. QED  BY <2>1, <2>2
<1>8. reader = "none" => Failed(a)
  BY <1>2, <1>5 DEF SessionInv, Connected, Closing, Stopping
<1>9. "closing" \in Closing \ Stopping
  BY DEF Closing, Stopping
<1>10. /\ UNCHANGED <<program, reader, stream, required, todo>>
       /\ helper' \in HelperStates /\ helper' = helper /\ sigint' \in Interrupts
       /\ fwd' \in ForwardStates /\ result' \in Codes \cup {"none", "LOG", "success"}
  BY <1>2 DEF SessionInv, Typed, Outside
<1>11. QED  BY <1>2, <1>4, <1>7, <1>8, <1>9, <1>10, Closes

\* A failure of the coordinator's own, recorded or not.
OwnCodes == {"CANCELLED", "SESSION_CLEANUP_FAILURE", "HELPER_WAIT_FAILURE",
             "HELPER_CLEANUP_FAILURE", "MISSING_TERMINAL"}

LEMMA SoundOwn ==
  ASSUME NEW a, Sound(a, reader), NEW code \in OwnCodes
  PROVE  /\ Sound(RecordFailure(a, code), reader) /\ Kept(a, RecordFailure(a, code))
         /\ Failed(RecordFailure(a, code))
<1>1. MayRecord(a, reader, code) /\ code # "ENDING"
  BY DEF MayRecord, OwnCodes, Codes, Told
<1>2. QED  BY <1>1, SoundRecorded

LEMMA BeginClosureKeeps == ASSUME SessionInv, BeginClosure PROVE SessionInv'
<1>1. PICK b : b = IF sigint.requested THEN RecordFailure(auth, "CANCELLED") ELSE auth
  OBVIOUS
<1>2. Sound(b, reader) /\ Kept(auth, b)
  BY <1>1, SoundOwn, KeptAsItIs DEF SessionInv, OwnCodes
<1>3. Sound(Cancel(b), reader) /\ Kept(auth, Cancel(b))
  BY <1>2, SoundCancel, KeptTransitive
<1>4. /\ at = "closing" /\ Go(Cancel(b), "sampling")
      /\ sigint' = [sigint EXCEPT !.closing = TRUE]
      /\ UNCHANGED <<program, todo, fwd, required, reader, helper, stream, result>>
  BY <1>1 DEF BeginClosure
<1>5. "closing" \in Closing /\ "sampling" \in Closing \ Stopping
  BY DEF Closing, Stopping
<1>6. helper' \in HelperStates /\ sigint' \in Interrupts /\ fwd' \in ForwardStates
  BY <1>4 DEF SessionInv, Typed, Interrupts
<1>7. QED  BY <1>3, <1>4, <1>5, <1>6, ClosesOn

LEMMA SampleHealthKeeps == ASSUME SessionInv, SampleHealth PROVE SessionInv'
<1>1. PICK a : a = ObserveHealth(auth)
  OBVIOUS
<1>2. Sound(a, reader) /\ Kept(auth, a)
  BY <1>1, SoundObserved DEF SessionInv
<1>3. /\ at = "sampling" /\ Go(a, "close forwards")
      /\ UNCHANGED <<todo, required, Outside>>
  BY <1>1 DEF SampleHealth
<1>4. /\ fwd' \in ForwardStates
      /\ \A f \in Forwards : fwd'[f].runs = fwd[f].runs /\ fwd'[f].own = fwd[f].own
  <2>1. fwd \in ForwardStates
    BY DEF SessionInv, Typed
  <2>2. QED  BY <2>1 DEF SampleHealth, ForwardsPolled, ForwardStates
<1>5. "sampling" \in Closing /\ "close forwards" \in Closing \ Stopping
  BY DEF Closing, Stopping
<1>6. QED  BY <1>2, <1>3, <1>4, <1>5, ClosesOn DEF SessionInv, Typed, Outside

LEMMA CloseForwardsKeeps == ASSUME SessionInv, CloseForwards PROVE SessionInv'
<1>1. PICK left : /\ at = "close forwards" /\ fwd' = Stopped(Committed \cup Pending, left)
                  /\ Go(IF \E f \in left : fwd[f].runs
                        THEN RecordFailure(auth, "SESSION_CLEANUP_FAILURE") ELSE auth,
                        IF helper.ssh = "none" THEN "finishing" ELSE "release")
                  /\ UNCHANGED <<todo, required, Outside>>
  BY DEF CloseForwards
<1>2. PICK a : a = IF \E f \in left : fwd[f].runs
                   THEN RecordFailure(auth, "SESSION_CLEANUP_FAILURE") ELSE auth
  OBVIOUS
<1>3. /\ Sound(a, reader) /\ Kept(auth, a)
      /\ (\E f \in left : fwd[f].runs) => Failed(a)
  BY <1>2, SoundOwn, KeptAsItIs DEF SessionInv, OwnCodes
<1>4. PICK p : p = IF helper.ssh = "none" THEN "finishing" ELSE "release"
  OBVIOUS
<1>5. auth' = a /\ at' = p /\ p \in {"finishing", "release"} /\ result = "none"
  BY <1>1, <1>2, <1>4 DEF Go, SessionInv, Resulted
<1>6. fwd' \in ForwardStates
  BY <1>1 DEF SessionInv, Typed, Stopped, ForwardStates
<1>7. Owned'
  <2>1. ASSUME NEW f \in Forwards, fwd'[f].runs PROVE Failed(a)
    <3>1. CASE f \in Committed \cup Pending
      BY <1>1, <1>3, <2>1, <3>1 DEF Stopped
    <3>2. CASE f \notin Committed \cup Pending
      <4>1. fwd[f].runs /\ fwd[f].own = "none"
        BY <1>1, <2>1, <3>2 DEF Stopped, SessionInv, Typed, ForwardStates, Committed,
           Pending
      <4>2. QED  BY <1>1, <1>3, <4>1 DEF SessionInv, Owned, Kept
    <3>3. QED  BY <3>1, <3>2
  <2>2. QED  BY <1>5, <2>1 DEF Owned
<1>8. reader = "none" => Failed(a) /\ p = "finishing"
  BY <1>1, <1>3, <1>4 DEF SessionInv, Connected, Kept
<1>9. reader # "none" => p = "release"
  BY <1>4 DEF SessionInv, Connected
<1>10. Closed' /\ Resulted'
  BY <1>1, <1>5, <1>8, <1>9 DEF Closed, Resulted, Outside
<1>11. /\ UNCHANGED <<program, reader, stream, required, todo>>
       /\ helper' \in HelperStates /\ helper' = helper /\ sigint' \in Interrupts
       /\ result' \in Codes \cup {"none", "LOG", "success"}
  BY <1>1 DEF SessionInv, Typed, Outside
<1>12. p \in Closing /\ "close forwards" \in Closing /\ "finishing" \notin Stopping
  BY <1>5 DEF Closing, Stopping
<1>13. QED
  BY <1>1, <1>2, <1>3, <1>4, <1>5, <1>6, <1>7, <1>8, <1>10, <1>11, <1>12, Closes

\* The steps that wait for the helper and its reader, and stop it.
LEMMA ShutsDown ==
  ASSUME SessionInv, at \in Stopping,
         NEW a \in {auth, Cancel(auth), ObserveStatus(auth)}
           \cup {RecordFailure(auth, code) : code \in OwnCodes},
         NEW p \in Stopping, Go(a, p),
         UNCHANGED <<program, todo, fwd, required, reader, stream, sigint, result>>,
         helper' \in HelperStates, helper'.ssh # "none",
         ~Failed(a) /\ p \in {"join again", "resolve"} => helper'.ssh = "exited",
         ~Failed(a) /\ p = "resolve" => reader = "done"
  PROVE  SessionInv'
<1>1. Sound(a, reader) /\ Kept(auth, a)
  BY SoundOwn, SoundCancel, SoundObserved, KeptAsItIs DEF SessionInv
<1>2. Stopping \subseteq Closing \ {"finishing", "done", "closing", "sampling", "close forwards"}
  BY DEF Closing, Stopping
<1>3. helper.ssh # "none" /\ reader # "none"
  BY DEF SessionInv, Connected
<1>4. fwd' \in ForwardStates /\ sigint' \in Interrupts
  BY DEF SessionInv, Typed
<1>5. QED  BY <1>1, <1>2, <1>3, <1>4, ClosesOn

LEMMA ReleaseLeaseKeeps == ASSUME SessionInv, ReleaseLease PROVE SessionInv'
<1>1. /\ at = "release" /\ Go(Cancel(auth), "half-close")
      /\ UNCHANGED <<program, todo, fwd, required, reader, stream, sigint, result>>
      /\ helper' \in {helper, [helper EXCEPT !.released = TRUE]}
  BY DEF ReleaseLease
<1>2. helper' \in HelperStates /\ helper'.ssh # "none"
  BY <1>1 DEF SessionInv, Typed, HelperStates, Connected, Stopping
<1>3. QED  BY <1>1, <1>2, ShutsDown DEF Stopping

LEMMA HalfCloseKeeps == ASSUME SessionInv, HalfClose PROVE SessionInv'
<1>1. /\ at = "half-close" /\ Go(ObserveStatus(auth), "wait helper")
      /\ UNCHANGED <<program, todo, fwd, required, reader, stream, sigint, result>>
      /\ helper' = [helper EXCEPT !.eof = TRUE]
  BY DEF HalfClose
<1>2. helper' \in HelperStates /\ helper'.ssh # "none"
  BY <1>1 DEF SessionInv, Typed, HelperStates, Connected, Stopping
<1>3. QED  BY <1>1, <1>2, ShutsDown DEF Stopping

LEMMA WaitHelperKeeps == ASSUME SessionInv, WaitHelper PROVE SessionInv'
<1>1. /\ at = "wait helper" /\ UNCHANGED <<todo, fwd, required, Outside>>
      /\ Go(auth, "join") \/ Go(RecordFailure(auth, "HELPER_WAIT_FAILURE"), "join")
  BY DEF WaitHelper
<1>2. helper' \in HelperStates /\ helper'.ssh # "none"
  BY <1>1 DEF SessionInv, Typed, Connected, Stopping, Outside
<1>3. PICK a \in {auth, RecordFailure(auth, "HELPER_WAIT_FAILURE")} : Go(a, "join")
  BY <1>1
<1>4. QED  BY <1>1, <1>2, <1>3, ShutsDown DEF Stopping, OwnCodes, Outside

LEMMA JoinReaderKeeps == ASSUME SessionInv, JoinReader PROVE SessionInv'
<1>1. at = "join" /\ Go(auth, "stop") /\ UNCHANGED <<todo, fwd, required, Outside>>
  BY DEF JoinReader
<1>2. helper' \in HelperStates /\ helper'.ssh # "none"
  BY <1>1 DEF SessionInv, Typed, Connected, Stopping, Outside
<1>3. QED  BY <1>1, <1>2, ShutsDown DEF Stopping, Outside

LEMMA StopHelperKeeps == ASSUME SessionInv, StopHelper PROVE SessionInv'
<1>1. /\ at = "stop"
      /\ UNCHANGED <<program, todo, fwd, required, reader, stream, sigint, result>>
      /\ \/ /\ Go(auth, "join again")
            /\ helper' = [helper EXCEPT !.ssh = "exited",
                                 !.status = IF helper.ssh = "exited" THEN @ ELSE 1]
         \/ Go(RecordFailure(auth, "HELPER_CLEANUP_FAILURE"), "join again") /\ helper' = helper
  BY DEF StopHelper
<1>2. helper' \in HelperStates /\ helper'.ssh # "none"
  BY <1>1 DEF SessionInv, Typed, HelperStates, Connected, Stopping
<1>3. CASE Go(auth, "join again") /\ helper'.ssh = "exited"
  BY <1>1, <1>2, <1>3, ShutsDown DEF Stopping
<1>4. CASE Go(RecordFailure(auth, "HELPER_CLEANUP_FAILURE"), "join again")
  <2>1. Failed(RecordFailure(auth, "HELPER_CLEANUP_FAILURE"))
    BY SoundOwn DEF SessionInv, OwnCodes
  <2>2. QED  BY <1>1, <1>2, <1>4, <2>1, ShutsDown DEF Stopping, OwnCodes
<1>5. QED  BY <1>1, <1>3, <1>4 DEF SessionInv, Typed, HelperStates

LEMMA JoinReaderAgainKeeps == ASSUME SessionInv, JoinReaderAgain PROVE SessionInv'
<1>1. /\ at = "join again" /\ UNCHANGED <<todo, fwd, required, Outside>>
      /\ \/ reader = "done" /\ Go(auth, "resolve")
         \/ Go(RecordFailure(auth, "HELPER_CLEANUP_FAILURE"), "resolve")
  BY DEF JoinReaderAgain
<1>2. helper' = helper /\ helper' \in HelperStates /\ helper'.ssh # "none"
  BY <1>1 DEF SessionInv, Typed, Connected, Stopping, Outside
<1>3. ~Failed(auth) => helper.ssh = "exited"
  BY <1>1 DEF SessionInv, Closed
<1>4. CASE reader = "done" /\ Go(auth, "resolve")
  <2>1. UNCHANGED <<program, todo, fwd, required, reader, stream, sigint, result>>
    BY <1>1 DEF Outside
  <2>2. at \in Stopping /\ "resolve" \in Stopping
    BY <1>1 DEF Stopping
  <2>3. QED  BY <1>2, <1>3, <1>4, <2>1, <2>2, ShutsDown
<1>5. CASE Go(RecordFailure(auth, "HELPER_CLEANUP_FAILURE"), "resolve")
  <2>1. Failed(RecordFailure(auth, "HELPER_CLEANUP_FAILURE"))
    BY SoundOwn DEF SessionInv, OwnCodes
  <2>2. QED  BY <1>1, <1>2, <1>5, <2>1, ShutsDown DEF Stopping, OwnCodes, Outside
<1>6. QED  BY <1>1, <1>4, <1>5

LEMMA ResolveShutdownKeeps == ASSUME SessionInv, ResolveShutdown PROVE SessionInv'
<1>1. PICK b : b = IF auth.terminal = "none"
                   THEN RecordFailure(auth, "MISSING_TERMINAL") ELSE auth
  OBVIOUS
<1>2. PICK a : a = ObserveStatus(b)
  OBVIOUS
<1>3. Sound(b, reader) /\ Kept(auth, b)
  BY <1>1, SoundOwn, KeptAsItIs DEF SessionInv, OwnCodes
<1>4. /\ Sound(a, reader) /\ Kept(auth, a)
      /\ reader = "done" /\ helper.ssh = "exited" /\ helper.status # 0 => Failed(a)
  BY <1>2, <1>3, SoundObserved, KeptTransitive
<1>5. /\ at = "resolve" /\ Go(a, "finishing") /\ UNCHANGED <<todo, fwd, required, Outside>>
  BY <1>1, <1>2 DEF ResolveShutdown
<1>6. auth' = a /\ at' = "finishing" /\ result = "none" /\ reader # "none"
  BY <1>5 DEF Go, SessionInv, Resulted, Connected, Stopping
<1>7. Owned'
  BY <1>4, <1>5, <1>6 DEF SessionInv, Owned, Kept, Closing, Stopping
<1>8. Closed' /\ Resulted'
  BY <1>4, <1>5, <1>6 DEF SessionInv, Closed, Resulted, Kept, Outside
<1>9. /\ UNCHANGED <<program, reader, stream, required, todo>>
      /\ helper' \in HelperStates /\ helper' = helper /\ sigint' \in Interrupts
      /\ fwd' \in ForwardStates /\ result' \in Codes \cup {"none", "LOG", "success"}
  BY <1>5 DEF SessionInv, Typed, Outside
<1>10. "finishing" \in Closing /\ "resolve" \in Closing
  BY DEF Closing, Stopping
<1>11. QED  BY <1>4, <1>5, <1>6, <1>7, <1>8, <1>9, <1>10, Closes

LEMMA FinishKeeps == ASSUME SessionInv, Finish PROVE SessionInv'
<1>1. /\ at = "finishing" /\ Go(auth, "done")
      /\ UNCHANGED <<program, todo, fwd, required, reader, helper, stream, sigint>>
      /\ result' = IF ProjectResult(auth) = "success" /\ sigint.requested THEN "CANCELLED"
                   ELSE ProjectResult(auth)
  BY DEF Finish
<1>2. auth' = auth /\ at' = "done"
  BY <1>1 DEF Go
<1>3. Failed(auth) => Primary(auth) \in Codes
  BY DEF SessionInv, Sound, Authority, Failed, Primary
<1>4. result' \in Codes \cup {"none", "LOG", "success"}
  BY <1>1, <1>3 DEF ProjectResult, Codes
<1>5. Owned'
  BY <1>1, <1>2 DEF SessionInv, Owned, Closing, Stopping
<1>6. Closed'
  BY <1>1, <1>2 DEF SessionInv, Closed
<1>7. Resulted'
  BY <1>1, <1>2, <1>3 DEF Resulted, ProjectResult, Codes
<1>8. helper' \in HelperStates /\ sigint' \in Interrupts /\ fwd' \in ForwardStates
  BY <1>1 DEF SessionInv, Typed
<1>9. "done" \in Closing \ Stopping /\ "finishing" \in Closing
  BY DEF Closing, Stopping
<1>10. reader = "none" => Failed(auth)
  BY <1>1 DEF SessionInv, Connected, Closing, Stopping
<1>11. QED
  BY <1>1, <1>4, <1>5, <1>6, <1>7, <1>8, <1>9, <1>10, KeptAsItIs, Closes DEF SessionInv

----------------------------------------------------------------------------
\* The reader thread.

\* Before its end nobody has looked at the transport's status.
LEMMA OrderedBefore ==
  ASSUME NEW s, NEW r, NEW q, Ordered(s, r), r # "done" PROVE Ordered(s, q)
BY DEF Ordered

\* What the reader's steps add.
Reported(a, b) ==
  /\ Range(a.failures) \subseteq Range(b.failures)
  /\ Failed(a) => Failed(b)
  /\ a.deferred => b.deferred \/ Failed(b)

LEMMA SoundCreated ==
  ASSUME NEW a, NEW r, Sound(a, r)
  PROVE  Sound(RecordCreated(a), r) /\ Reported(a, RecordCreated(a))
<1>1. PICK b : b = RecordCreated(a)
  OBVIOUS
<1>2. b \in Authority /\ b.failures = a.failures /\ b.terminal = a.terminal
      /\ b.phase = a.phase /\ b.closing = a.closing /\ b.deferred = a.deferred
      /\ b.pending = a.pending
  BY <1>1 DEF Sound, Authority, RecordCreated, Notify
<1>3. Failed(b) = Failed(a) /\ Primary(b) = Primary(a) /\ Clean(b) = Clean(a)
  BY <1>2 DEF Failed, Primary, Clean
<1>4. QED  BY <1>1, <1>2, <1>3 DEF Sound, Reported

LEMMA SoundTerminal ==
  ASSUME NEW a, NEW r \in {"reading", "final"}, Sound(a, r),
         NEW outcome \in Outcomes, NEW log \in BOOLEAN
  PROVE  LET b == RecordTerminal(a, outcome, log) IN Sound(b, r) /\ Reported(a, b)
<1>1. PICK seen : seen = [a EXCEPT !.terminal = outcome, !.log = a.log \/ log]
  OBVIOUS
<1>2. /\ seen \in Authority /\ seen.failures = a.failures /\ seen.terminal = outcome
      /\ seen.closing = a.closing /\ seen.deferred = a.deferred /\ seen.pending = a.pending
  BY <1>1 DEF Sound, Authority
<1>3. PICK told : told = IF outcome = "failed" THEN RecordFailure(seen, "TERMINAL_FAILURE")
                         ELSE seen
  OBVIOUS
<1>4. /\ told \in Authority /\ told.terminal = outcome /\ told.closing = a.closing
      /\ told.deferred = a.deferred \/ (a.pending /\ told.deferred)
      /\ told.pending = a.pending
      /\ \/ /\ told.failures = a.failures
            /\ outcome = "failed" => "TERMINAL_FAILURE" \in Range(a.failures)
         \/ /\ told.failures = Append(a.failures, "TERMINAL_FAILURE")
            /\ "TERMINAL_FAILURE" \notin Range(a.failures)
  <2>1. "TERMINAL_FAILURE" \in Codes
    BY DEF Codes
  <2>2. CASE outcome = "failed"
    BY <1>2, <1>3, <2>1, <2>2, Recorded
  <2>3. CASE outcome # "failed"
    BY <1>2, <1>3, <2>3
  <2>4. QED  BY <2>2, <2>3
<1>5. PICK b : b = [told EXCEPT !.phase = "ended", !.woken = TRUE]
  OBVIOUS
<1>6. /\ b \in Authority /\ b.failures = told.failures /\ b.terminal = outcome
      /\ b.phase = "ended" /\ b.pending = a.pending /\ b.deferred = told.deferred
  BY <1>4, <1>5 DEF Authority
<1>7. b = RecordTerminal(a, outcome, log)
  BY <1>1, <1>2, <1>3, <1>4, <1>5 DEF RecordTerminal, Notify, Authority, Sound
<1>8. a.failures \in Seq(Codes) /\ "TERMINAL_FAILURE" \in Codes
  BY DEF Sound, Authority, Codes
<1>9. CASE /\ told.failures = a.failures
           /\ outcome = "failed" => "TERMINAL_FAILURE" \in Range(a.failures)
  <2>1. Failed(b) = Failed(a) /\ (Failed(a) => Primary(b) = Primary(a))
    BY <1>6, <1>9 DEF Failed, Primary
  <2>2. outcome = "failed" => Failed(b)
    BY <1>9, <2>1 DEF Failed, Range
  <2>3. Sound(b, r)
    BY <1>4, <1>6, <1>9, <2>1, <2>2 DEF Sound, Outcomes
  <2>4. QED  BY <1>4, <1>6, <1>7, <1>9, <2>1, <2>3 DEF Reported
<1>10. CASE /\ told.failures = Append(a.failures, "TERMINAL_FAILURE")
            /\ "TERMINAL_FAILURE" \notin Range(a.failures)
  <2>1. /\ b.failures # << >> /\ Range(a.failures) \subseteq Range(b.failures)
        /\ Head(b.failures) = IF a.failures = << >> THEN "TERMINAL_FAILURE" ELSE Head(a.failures)
        /\ Distinct(a.failures) => Distinct(b.failures)
    BY <1>6, <1>8, <1>10, Appended
  <2>2. Ordered(b.failures, r)
    BY <1>6, <1>8, <1>10, AppendedInOrder DEF Sound
  <2>3. Failed(b) /\ Primary(b) # "ENDING"
    BY <2>1 DEF Sound, Failed, Primary
  <2>4. Sound(b, r)
    BY <1>4, <1>6, <2>1, <2>2, <2>3 DEF Sound, Outcomes
  <2>5. QED  BY <1>7, <2>1, <2>3, <2>4 DEF Reported
<1>11. QED  BY <1>4, <1>9, <1>10

LEMMA SoundExit ==
  ASSUME NEW a, Sound(a, "reading"), NEW r \in {"final", "eof"}
  PROVE  Sound(BeginControlExit(a), r) /\ Reported(a, BeginControlExit(a))
<1>1. PICK b : b = BeginControlExit(a)
  OBVIOUS
<1>2. b \in Authority /\ b.failures = a.failures /\ b.terminal = a.terminal
      /\ b.phase = a.phase /\ b.closing = a.closing /\ b.deferred = a.deferred /\ b.pending
  BY <1>1 DEF Sound, Authority, BeginControlExit, Notify
<1>3. Failed(b) = Failed(a) /\ Primary(b) = Primary(a) /\ Clean(b) = Clean(a)
  BY <1>2 DEF Failed, Primary, Clean
<1>4. Ordered(b.failures, r)
  BY <1>2, OrderedBefore DEF Sound
<1>5. QED  BY <1>1, <1>2, <1>3, <1>4 DEF Sound, Reported

\* The reader stops where a failure or the end of the session is known.
LEMMA SoundEnding ==
  ASSUME NEW a, NEW r, Sound(a, r), ~a.pending, NEW q \in {"ending", "done"},
         r \in {"reading", "ending"}, Failed(a) \/ Clean(a)
  PROVE  Sound(a, q)
<1>1. Ordered(a.failures, q)
  BY OrderedBefore DEF Sound
<1>2. QED  BY <1>1 DEF Sound

LEMMA SoundEnd ==
  ASSUME NEW a, NEW r \in {"final", "eof"}, Sound(a, r)
  PROVE  Sound(FinishControlExit(a), "ending") /\ Reported(a, FinishControlExit(a))
<1>1. PICK told : told = IF a.terminal = "none" THEN RecordFailure(a, "CONTROL_ENDED") ELSE a
  OBVIOUS
<1>2. /\ Sound(told, r) /\ Kept(a, told)
      /\ a.terminal = "none" => Failed(told)
  <2>1. MayRecord(a, r, "CONTROL_ENDED")
    BY DEF MayRecord, Codes, Told
  <2>2. QED  BY <1>1, <2>1, SoundRecorded, KeptAsItIs
<1>3. Failed(told) \/ Clean(told)
  BY <1>2 DEF Sound, Kept, Clean, Authority, Outcomes
<1>4. PICK known : known = [told EXCEPT !.pending = FALSE, !.deferred = FALSE]
  OBVIOUS
<1>5. /\ known \in Authority /\ known.failures = told.failures /\ known.terminal = told.terminal
      /\ known.phase = told.phase /\ known.closing = told.closing
      /\ ~known.deferred /\ ~known.pending
  BY <1>2, <1>4 DEF Sound, Authority
<1>6. Failed(known) = Failed(told) /\ Primary(known) = Primary(told) /\ Clean(known) = Clean(told)
  BY <1>5 DEF Failed, Primary, Clean
<1>7. Sound(known, "ending")
  <2>1. Ordered(known.failures, "ending")
    BY <1>2, <1>5, OrderedBefore DEF Sound
  <2>2. QED  BY <1>2, <1>3, <1>5, <1>6, <2>1 DEF Sound
<1>8. PICK b : b = IF a.deferred THEN RecordFailure(known, "ENDING") ELSE known
  OBVIOUS
<1>9. /\ Sound(b, "ending") /\ Kept(known, b)
      /\ a.deferred => Failed(b)
  <2>1. MayRecord(known, "ending", "ENDING")
    BY <1>3, <1>6 DEF MayRecord, Codes, Told
  <2>2. QED  BY <1>5, <1>7, <1>8, <2>1, SoundRecorded, KeptAsItIs
<1>10. Sound(Notify(b), "ending") /\ Kept(b, Notify(b))
  BY <1>9, SoundWoken DEF Notify
<1>11. FinishControlExit(a) = Notify(b)
  BY <1>1, <1>4, <1>8 DEF FinishControlExit
<1>12. QED  BY <1>2, <1>5, <1>6, <1>9, <1>10, <1>11 DEF Reported, Kept

\* The shape of a step of the reader.
LEMMA Reads ==
  ASSUME SessionInv, reader \notin {"none", "done"},
         NEW a, auth' = a, NEW r \in {"reading", "final", "eof", "ending", "done"}, reader' = r,
         Sound(a, r), Reported(auth, a), stream' \in Seq(Frames),
         UNCHANGED <<helper, Coordinator>>,
         reader # "reading" => r # "reading"
  PROVE  SessionInv'
<1> USE DEF SessionInv, Coordinator
<1>1. Typed' /\ Sound(auth', reader') /\ Blocked'
  BY DEF Typed, Blocked
<1>2. Raising' /\ Connected'
  BY DEF Raising, Connected, Typed, Reported
<1>3. Worked' /\ Owned' /\ Closed' /\ Resulted'
  BY DEF Worked, Owned, Closed, Resulted, Reported
<1>4. QED  BY <1>1, <1>2, <1>3

LEMMA FramesKeep ==
  ASSUME SessionInv, ReadFrame \/ FinalFrame PROVE SessionInv'
<1>1. PICK frame \in Frames : /\ frame = Head(stream) /\ auth' = Dispatch(auth, frame)
                              /\ Tail(stream) \in Seq(Frames) /\ << >> \in Seq(Frames)
  BY DEF ReadFrame, FinalFrame, SessionInv, Typed
<1>2. /\ reader \in {"reading", "final"} /\ Sound(auth, reader)
      /\ stream' \in Seq(Frames) /\ UNCHANGED <<helper, Coordinator>>
      /\ reader' = IF reader = "reading" /\ frame.type = "garbled" THEN "ending" ELSE reader
  BY <1>1 DEF ReadFrame, FinalFrame, SessionInv
<1>3. CASE frame.type = "SESSION_CREATED"
  <2>1. auth' = RecordCreated(auth) /\ reader' = reader
    BY <1>1, <1>2, <1>3 DEF Dispatch
  <2>2. QED  BY <1>2, <2>1, SoundCreated, Reads
<1>4. CASE frame.type = "READY"
  <2>1. auth' = RecordReady(auth) /\ reader' = reader
    BY <1>1, <1>2, <1>4 DEF Dispatch
  <2>2. Sound(auth', reader') /\ Reported(auth, auth')
    BY <1>2, <2>1, SoundReady DEF Reported, Kept
  <2>3. QED  BY <1>2, <2>1, <2>2, Reads
<1>5. CASE frame.type = "SESSION_ENDED"
  <2>1. frame.outcome \in Outcomes /\ frame.log \in BOOLEAN
    BY <1>5 DEF Frames
  <2>2. auth' = RecordTerminal(auth, frame.outcome, frame.log) /\ reader' = reader
    BY <1>1, <1>2, <1>5 DEF Dispatch
  <2>3. QED  BY <1>2, <2>1, <2>2, SoundTerminal, Reads
<1>6. CASE frame.type = "garbled"
  <2>1. auth' = RecordFailure(auth, "READER_FAILURE")
    BY <1>1, <1>6 DEF Dispatch
  <2>2. MayRecord(auth, reader, "READER_FAILURE")
    BY <1>2 DEF MayRecord, Codes, Told
  <2>3. Sound(auth', reader) /\ Kept(auth, auth') /\ Failed(auth')
    BY <1>2, <2>1, <2>2, SoundRecorded
  <2>4. Sound(auth', reader')
    BY <1>2, <1>6, <2>3, SoundEnding DEF Sound
  <2>5. QED  BY <1>2, <2>3, <2>4, Reads DEF Reported, Kept
<1>7. QED  BY <1>1, <1>3, <1>4, <1>5, <1>6 DEF Frames

LEMMA ExitSeenKeeps == ASSUME SessionInv, SeeExit \/ SeeEOF PROVE SessionInv'
<1>1. /\ reader = "reading" /\ reader' \in {"final", "eof"} /\ auth' = BeginControlExit(auth)
      /\ UNCHANGED <<helper, stream, Coordinator>>
  BY DEF SeeExit, SeeEOF
<1>2. Sound(auth', reader') /\ Reported(auth, auth')
  BY <1>1, SoundExit DEF SessionInv
<1>3. QED  BY <1>1, <1>2, Reads DEF SessionInv, Typed

LEMMA FinalEndKeeps == ASSUME SessionInv, FinalEnd PROVE SessionInv'
<1>1. /\ reader = "final" /\ reader' = "ending" /\ auth' = FinishControlExit(auth)
      /\ UNCHANGED <<helper, stream, Coordinator>>
  BY DEF FinalEnd
<1>2. Sound(auth', reader') /\ Reported(auth, auth')
  BY <1>1, SoundEnd DEF SessionInv
<1>3. QED  BY <1>1, <1>2, Reads DEF SessionInv, Typed

LEMMA EOFEndKeeps == ASSUME SessionInv, EOFEnd PROVE SessionInv'
<1>1. PICK b : b = IF auth.terminal = "none" THEN RecordFailure(auth, "READER_FAILURE") ELSE auth
  OBVIOUS
<1>2. /\ reader = "eof" /\ reader' = "ending" /\ auth' = FinishControlExit(b)
      /\ UNCHANGED <<helper, stream, Coordinator>>
  BY <1>1 DEF EOFEnd
<1>3. Sound(b, "eof") /\ Kept(auth, b)
  <2>1. MayRecord(auth, "eof", "READER_FAILURE")
    BY DEF MayRecord, Codes, Told
  <2>2. QED  BY <1>1, <1>2, <2>1, SoundRecorded, KeptAsItIs DEF SessionInv
<1>4. Sound(auth', reader') /\ Reported(b, auth')
  BY <1>2, <1>3, SoundEnd
<1>5. Reported(auth, auth')
  BY <1>3, <1>4 DEF Reported, Kept
<1>6. QED  BY <1>2, <1>4, <1>5, Reads DEF SessionInv, Typed

LEMMA ReaderEndsKeeps == ASSUME SessionInv, ReaderEnds PROVE SessionInv'
<1>1. /\ reader = "ending" /\ reader' = "done" /\ auth' = Notify(auth)
      /\ UNCHANGED <<helper, stream, Coordinator>>
  BY DEF ReaderEnds
<1>2. Sound(auth, "done")
  BY <1>1, SoundEnding DEF SessionInv, Sound
<1>3. Sound(auth', "done") /\ Kept(auth, auth')
  BY <1>1, <1>2, SoundWoken DEF Notify
<1>4. QED  BY <1>1, <1>3, Reads DEF SessionInv, Typed, Reported, Kept

----------------------------------------------------------------------------
\* The helper, the network and the user.

LEMMA HelperKeeps ==
  ASSUME SessionInv, Helper PROVE SessionInv'
<1>1. /\ helper.ssh = "running" /\ UNCHANGED <<auth, reader, Coordinator>>
      /\ helper' \in HelperStates /\ helper'.ssh \in {"running", "exited"}
  BY DEF Helper, HelperCreates, HelperGarbles, HelperClosesOutput, HelperAnswers,
     HelperIsReady,
     HelperEnds, SshExits, Says, SessionInv, Typed, HelperStates
<1>2. stream' \in Seq(Frames)
  <2>1. stream' = stream \/ \E frame \in Frames : stream' = Append(stream, frame)
    <3>1. CASE HelperCreates \/ HelperIsReady \/ HelperGarbles
      BY <3>1 DEF HelperCreates, HelperIsReady, HelperGarbles, Says, Frames
    <3>2. CASE HelperEnds
      <4>1. PICK outcome \in Outcomes, log \in {FALSE, program.log} : stream' =
              Append(stream, [type |-> "SESSION_ENDED", outcome |-> outcome, log |-> log])
        BY <3>2 DEF HelperEnds, Says
      <4>2. log \in BOOLEAN
        BY ControllerConstants DEF SessionInv, Typed
      <4>3. QED  BY <4>1, <4>2 DEF Frames
    <3>3. CASE HelperClosesOutput \/ SshExits
      BY <3>3 DEF HelperClosesOutput, SshExits
    <3>4. QED  BY <3>1, <3>2, <3>3 DEF Helper, HelperAnswers
  <2>2. QED  BY <2>1 DEF SessionInv, Typed
<1>3. Typed' /\ Sound(auth', reader')
  BY <1>1, <1>2 DEF SessionInv, Typed, Coordinator
<1>4. Blocked' /\ Raising' /\ Connected' /\ Worked' /\ Owned'
  BY <1>1 DEF SessionInv, Blocked, Raising, Connected, Worked, Owned, Coordinator
<1>5. Closed' /\ Resulted'
  BY <1>1 DEF SessionInv, Closed, Resulted, Coordinator
<1>6. QED  BY <1>3, <1>4, <1>5 DEF SessionInv

LEMMA ForwardDiesKeeps == ASSUME SessionInv, ForwardDies PROVE SessionInv'
<1>1. /\ UNCHANGED <<auth, at, todo, blocked, expired, raised, required, Outside>>
      /\ \E f \in Forwards : fwd' = [fwd EXCEPT ![f].runs = FALSE]
  BY DEF ForwardDies, Committed, Pending
<1>2. /\ fwd' \in ForwardStates
      /\ \A f \in Forwards : fwd'[f].own = fwd[f].own /\ (fwd'[f].runs => fwd[f].runs)
  <2>1. PICK g \in Forwards : fwd' = [fwd EXCEPT ![g].runs = FALSE]
    BY <1>1
  <2>2. fwd' = [f \in Forwards |-> IF f = g THEN [fwd[g] EXCEPT !.runs = FALSE] ELSE fwd[f]]
    BY <2>1 DEF SessionInv, Typed, ForwardStates
  <2>3. QED  BY <2>2 DEF SessionInv, Typed, ForwardStates
<1>3. Owned'
  BY <1>1, <1>2 DEF SessionInv, Owned
<1>4. Typed' /\ Sound(auth', reader')
  BY <1>1, <1>2 DEF SessionInv, Typed, Outside
<1>5. Blocked' /\ Raising' /\ Connected' /\ Worked'
  BY <1>1 DEF SessionInv, Blocked, Raising, Connected, Worked, Outside
<1>6. Closed' /\ Resulted'
  BY <1>1 DEF SessionInv, Closed, Resulted, Outside
<1>7. QED  BY <1>3, <1>4, <1>5, <1>6 DEF SessionInv

LEMMA CtrlCKeeps == ASSUME SessionInv, CtrlC PROVE SessionInv'
<1>1. /\ result = "none" /\ sigint' = [sigint EXCEPT !.requested = TRUE]
      /\ UNCHANGED <<program, auth, at, todo, blocked, expired, raised, fwd, required, reader,
                     helper, stream, result>>
  BY DEF CtrlC
<1>2. Typed' /\ Sound(auth', reader')
  BY <1>1 DEF SessionInv, Typed, Interrupts
<1>3. Blocked' /\ Raising' /\ Connected' /\ Worked' /\ Owned'
  BY <1>1 DEF SessionInv, Blocked, Raising, Connected, Worked, Owned
<1>4. Closed' /\ Resulted'
  BY <1>1 DEF SessionInv, Closed, Resulted
<1>5. QED  BY <1>2, <1>3, <1>4 DEF SessionInv

----------------------------------------------------------------------------
\* The theorems.

LEMMA InitSession == Init => SessionInv
<1> SUFFICES ASSUME Init PROVE SessionInv
  OBVIOUS
<1>1. todo \in Seq(Steps) /\ << >> \in Seq(Frames) /\ << >> \in Seq(Codes)
  BY ControllerConstants DEF Init
<1>2. Typed
  BY <1>1 DEF Init, Typed, Places, HelperStates, ForwardStates, Interrupts
<1>3. Sound(auth, reader)
  BY <1>1 DEF Init, NewAuthority, Sound, Authority, Failed, Distinct, Ordered
<1>4. Blocked /\ Raising /\ Connected /\ Worked /\ Owned /\ Closed /\ Resulted
  BY DEF Init, Blocked, Raising, Connected, Worked, Owned, Closed, Resulted, Launching,
     Waiting, Closing, Stopping
<1>5. QED  BY <1>2, <1>3, <1>4 DEF SessionInv

LEMMA CoordinateKeeps == ASSUME SessionInv, Coordinate PROVE SessionInv'
<1>1. CASE Wake \/ Connect \/ AwaitCreated \/ RunStage \/ WriteStart \/ AwaitReady
  BY <1>1, WakeKeeps, ConnectKeeps, AwaitCreatedKeeps, RunStageKeeps, WriteStartKeeps,
     AwaitReadyKeeps
<1>2. CASE AdmitEffect("stage", "staging") \/ AdmitEffect("start", "writing")
  BY <1>2, AdmitEffectKeeps
<1>3. CASE Finished \/ AdmitForwards \/ SpawnForward \/ ForwardConnects \/ CommitForwards
             \/ RollbackForwards
  BY <1>3, FinishedKeeps, AdmitForwardsKeeps, SpawnForwardKeeps, ForwardConnectsKeeps,
     CommitForwardsKeeps, RollbackForwardsKeeps
<1>4. CASE Check \/ BeginWait \/ AwaitExit \/ Relax
  BY <1>4, CheckKeeps, BeginWaitKeeps, AwaitExitKeeps, RelaxKeeps
<1>5. CASE BeginClient \/ PollBeforeClient \/ EnterClient \/ ClientEnds
  BY <1>5, BeginClientKeeps, PollBeforeClientKeeps, EnterClientKeeps, ClientEndsKeeps
<1>6. CASE RecordRaised \/ BeginClosure \/ SampleHealth \/ CloseForwards \/ ReleaseLease
             \/ HalfClose
  BY <1>6, RecordRaisedKeeps, BeginClosureKeeps, SampleHealthKeeps, CloseForwardsKeeps,
     ReleaseLeaseKeeps, HalfCloseKeeps
<1>7. CASE WaitHelper \/ JoinReader \/ StopHelper \/ JoinReaderAgain \/ ResolveShutdown \/ Finish
  BY <1>7, WaitHelperKeeps, JoinReaderKeeps, StopHelperKeeps, JoinReaderAgainKeeps,
     ResolveShutdownKeeps, FinishKeeps
<1>8. QED  BY <1>1, <1>2, <1>3, <1>4, <1>5, <1>6, <1>7 DEF Coordinate

LEMMA StepSession == SessionInv /\ [Next]_vars => SessionInv'
<1> SUFFICES ASSUME SessionInv, [Next]_vars PROVE SessionInv'
  OBVIOUS
<1>1. CASE Coordinate \/ Expire
  BY <1>1, CoordinateKeeps, ExpireKeeps
<1>2. CASE Read
  BY <1>2, FramesKeep, ExitSeenKeeps, FinalEndKeeps, EOFEndKeeps, ReaderEndsKeeps DEF Read
<1>3. CASE Helper \/ ForwardDies \/ CtrlC
  BY <1>3, HelperKeeps, ForwardDiesKeeps, CtrlCKeeps
<1>4. CASE Stays \/ UNCHANGED vars
  <2>1. /\ UNCHANGED <<program, auth, at, todo, blocked, expired, raised, reader, helper>>
        /\ UNCHANGED <<stream, fwd, required, sigint, result>>
    BY <1>4 DEF Stays, vars
  <2>2. Typed' /\ Sound(auth', reader')
    BY <2>1 DEF SessionInv, Typed
  <2>3. Blocked' /\ Raising' /\ Connected' /\ Worked'
    BY <2>1 DEF SessionInv, Blocked, Raising, Connected, Worked
  <2>4. Owned' /\ Closed' /\ Resulted'
    BY <2>1 DEF SessionInv, Owned, Closed, Resulted
  <2>5. QED  BY <2>2, <2>3, <2>4 DEF SessionInv
<1>5. QED  BY <1>1, <1>2, <1>3, <1>4 DEF Next

\* Every action keeps the invariant: the coordinator's steps, the reader's, the
\* helper's frames and exits, a forward's death and Ctrl-C.
THEOREM AlwaysSession == Spec => []SessionInv
BY InitSession, StepSession, PTL DEF Spec

\* The variables keep their types, and the launch gate is closed to an operation
\* that failed, was closed or whose session ended (authority.py).
THEOREM SessionsAreTyped == Spec => []ControllerTypeOK
<1>1. SessionInv => ControllerTypeOK
  <2> SUFFICES ASSUME SessionInv PROVE ControllerTypeOK
    OBVIOUS
  <2>1. raised \in Codes \cup {"none"}
    <3>1. Range(auth.failures) \subseteq Codes
      BY DEF SessionInv, Sound, Authority, Range
    <3>2. QED  BY <3>1 DEF SessionInv, Raising, Local, Codes
  <2>2. /\ auth \in Authority
        /\ Failed(auth) \/ auth.closing => auth.phase \in {"cancelling", "ended"}
        /\ auth.terminal # "none" <=> auth.phase = "ended"
    BY DEF SessionInv, Sound
  <2>3. QED
    BY <2>1, <2>2 DEF SessionInv, Typed, ControllerTypeOK, HelperStates, ForwardStates,
       Interrupts
<1>2. QED  BY <1>1, AlwaysSession, PTL

\* An operation that reports success ran its program to the end in a session
\* that its helper ended without failure, over a transport that succeeded, and
\* left neither a reader nor a forward (project_result, close).
THEOREM SuccessesAreEarned == Spec => []SuccessIsEarned
<1>1. SessionInv => SuccessIsEarned
  <2> SUFFICES ASSUME SessionInv, result \in {"success", "LOG"}
               PROVE  /\ todo = << >> /\ Clean(auth)
                      /\ reader = "done" /\ helper.ssh = "exited" /\ helper.status = 0
                      /\ \A f \in Forwards : ~fwd[f].runs
                      /\ result = "success" => ~sigint.requested /\ ~auth.log
    BY DEF SuccessIsEarned, Clean
  <2>1. at = "done" /\ ~Failed(auth) /\ (result = "success" => ~sigint.requested /\ ~auth.log)
    BY DEF SessionInv, Resulted
  <2>2. reader = "done" /\ helper.ssh = "exited" /\ helper.status = 0
    BY <2>1 DEF SessionInv, Closed
  <2>3. Clean(auth) /\ ~auth.deferred
    BY <2>1, <2>2 DEF SessionInv, Sound
  <2>4. todo = << >>
    BY <2>1, <2>3 DEF SessionInv, Worked, Closing
  <2>5. \A f \in Forwards : ~fwd[f].runs
    BY <2>1 DEF SessionInv, Owned, Closing
  <2>6. QED  BY <2>1, <2>2, <2>3, <2>4, <2>5
<1>2. QED  BY <1>1, AlwaysSession, PTL

\* The refusal of work in an ending session is the operation's reason only if
\* the helper then reported an end without failure (finish_control_exit).
THEOREM RefusalsComeLast == Spec => []RefusalIsTheLastReason
<1>1. SessionInv => RefusalIsTheLastReason
  BY DEF SessionInv, Sound, Clean, RefusalIsTheLastReason
<1>2. QED  BY <1>1, AlwaysSession, PTL

\* What the transport's exit status says stands after what the helper said
\* (observe_status, record_failure).
THEOREM ProtocolComesFirst == Spec => []ProtocolSpeaksFirst
<1>1. SessionInv => ProtocolSpeaksFirst
  <2> SUFFICES ASSUME SessionInv, "CONTROL_PROCESS_FAILURE" \in Range(auth.failures)
               PROVE  /\ reader = "done"
                      /\ \A code \in Told \cap Range(auth.failures) :
                           Position(code) < Position("CONTROL_PROCESS_FAILURE")
    BY DEF ProtocolSpeaksFirst, Told
  <2>1. ASSUME NEW code \in Range(auth.failures)
        PROVE  Position(code) \in DOMAIN auth.failures /\ auth.failures[Position(code)] = code
    BY <2>1 DEF Position, Range
  <2>2. Ordered(auth.failures, reader)
    BY DEF SessionInv, Sound
  <2>3. QED  BY <2>1, <2>2 DEF Ordered
<1>2. QED  BY <1>1, AlwaysSession, PTL

\* Work that depends on the helper begins only in a live session, with the
\* forwards it requires (admit_work).
THEOREM WorkIsAdmitted == Spec => WorkMeetsALiveSession
<1>1. SessionInv /\ [Next]_vars =>
        [at' \in {"spawning", "client"} /\ at \in {"next", "admitting"} =>
           /\ required \subseteq Committed
           /\ auth.ready /\ ~Over(auth) /\ ~Failed(auth)]_vars
  <2> SUFFICES ASSUME SessionInv, Next,
                      at' \in {"spawning", "client"}, at \in {"next", "admitting"}
               PROVE  /\ required \subseteq Committed
                      /\ auth.ready /\ ~Over(auth) /\ ~Failed(auth)
    OBVIOUS
  <2>1. Sound(auth, reader)
    BY DEF SessionInv
  <2>2. CASE AdmitForwards \/ EnterClient
    <3>1. WorkRefusal(auth, required, Committed, Cancelled) = "none"
      BY <2>2 DEF AdmitForwards, EnterClient, RaiseFromClient, Raise
    <3>2. QED  BY <2>1, <3>1, SoundEnter
  <2>3. CASE Coordinate /\ ~AdmitForwards /\ ~EnterClient
    BY <2>3 DEF Coordinate, Wake, Connect, AwaitCreated, Await, AdmitEffect, RunStage,
       WriteStart, AwaitReady, Finished, SpawnForward, ForwardConnects, CommitForwards,
       RollbackForwards, Check, BeginWait, AwaitExit, Relax, BeginClient, PollBeforeClient,
       ClientEnds, RecordRaised, BeginClosure, SampleHealth, CloseForwards, ReleaseLease,
       HalfClose, WaitHelper, JoinReader, StopHelper, JoinReaderAgain, ResolveShutdown,
       Finish, Go, Raise, Block, Done, RaiseFromClient
  <2>4. CASE Expire \/ Read \/ Helper \/ ForwardDies \/ CtrlC \/ Stays
    BY <2>4 DEF Expire, Raise, Read, ReadFrame, SeeExit, FinalFrame, FinalEnd, SeeEOF,
       EOFEnd, ReaderEnds,
       Helper, HelperCreates, HelperGarbles, HelperClosesOutput, HelperAnswers, HelperIsReady,
       HelperEnds, SshExits, Says, ForwardDies, CtrlC, Stays, vars, Coordinator
  <2>5. QED  BY <2>2, <2>3, <2>4 DEF Next
<1>2. QED  BY <1>1, AlwaysSession, PTL DEF Spec, WorkMeetsALiveSession

\* After a Ctrl-C nothing new begins, wherever it falls (dispatch, popen).
THEOREM CtrlCStopsWork == Spec => CtrlCStopsEffects
<1>1. SessionInv /\ [Next]_vars =>
        [Cancelled =>
           /\ at' \in {"staging", "writing", "client"} => at' = at
           /\ {f \in Forwards : fwd'[f].runs} \subseteq {f \in Forwards : fwd[f].runs}
           /\ helper'.ssh = "running" => helper.ssh = "running"]_vars
  <2> SUFFICES ASSUME SessionInv, Next, Cancelled
               PROVE  /\ at' \in {"staging", "writing", "client"} => at' = at
                      /\ \A f \in Forwards : fwd'[f].runs => fwd[f].runs
                      /\ helper'.ssh = "running" => helper.ssh = "running"
    OBVIOUS
  <2>1. fwd \in ForwardStates /\ helper \in HelperStates
    BY DEF SessionInv, Typed
  <2>2. CASE \/ Wake \/ Connect \/ AwaitCreated \/ RunStage
             \/ WriteStart \/ AwaitReady \/ Finished \/ Expire
    BY <2>1, <2>2 DEF Wake, Connect, AwaitCreated, Await, RunStage, WriteStart, AwaitReady,
       Finished, Expire,
       Go, Raise, Block, Outside, HelperStates
  <2>3. CASE AdmitEffect("stage", "staging") \/ AdmitEffect("start", "writing")
    <3>1. EffectRefusal(auth, Cancelled) # "none"
      <4>1. Failed(auth) => Primary(auth) # "none"
        BY DEF SessionInv, Sound, Authority, Failed, Primary, Codes
      <4>2. QED  BY <4>1 DEF EffectRefusal
    <3>2. QED  BY <2>3, <3>1 DEF AdmitEffect, Raise, Outside
  <2>4. CASE AdmitForwards \/ EnterClient
    <3>1. WorkRefusal(auth, required, Committed, Cancelled) # "none"
      BY SoundEnter DEF SessionInv
    <3>2. QED  BY <2>4, <3>1 DEF AdmitForwards, EnterClient, RaiseFromClient, Raise, Outside
  <2>5. CASE SpawnForward \/ ForwardConnects
    BY <2>5 DEF SpawnForward, ForwardConnects, Go, Outside
  <2>6. CASE CommitForwards \/ RollbackForwards \/ CloseForwards
    <3>1. \A f \in Forwards : fwd'[f].runs => fwd[f].runs
      <4>1. CASE CommitForwards
        BY <2>1, <4>1 DEF CommitForwards, ForwardStates
      <4>2. ASSUME NEW group, NEW left, fwd' = Stopped(group, left), NEW f \in Forwards,
                   fwd'[f].runs
            PROVE  fwd[f].runs
        <5>1. fwd'[f] = IF f \in group
                        THEN [own |-> "none", runs |-> fwd[f].runs /\ f \in left, seen |-> FALSE]
                        ELSE fwd[f]
          BY <4>2 DEF Stopped
        <5>2. QED  BY <2>1, <4>2, <5>1 DEF ForwardStates
      <4>3. QED  BY <2>6, <4>1, <4>2 DEF RollbackForwards, CloseForwards
    <3>2. helper' = helper /\ at' \in {"next", "raising", "finishing", "release"}
      BY <2>6 DEF CommitForwards, RollbackForwards, CloseForwards, Go, Raise, Done, Outside
    <3>3. QED  BY <3>1, <3>2
  <2>7. CASE Check \/ AwaitExit \/ PollBeforeClient \/ SampleHealth
    <3>1. \A f \in Forwards : fwd'[f].runs => fwd[f].runs
      BY <2>1, <2>7 DEF Check, AwaitExit, PollBeforeClient, SampleHealth, ForwardsPolled,
         ForwardStates
    <3>2. /\ helper' = helper
          /\ at' = at \/ at' \in {"next", "raising", "admitting", "close forwards"}
      BY <2>7 DEF Check, AwaitExit, PollBeforeClient, SampleHealth, RaiseFromClient, Go,
         Raise, Block, Done, Outside
    <3>3. QED  BY <3>1, <3>2
  <2>8. CASE BeginWait \/ Relax \/ BeginClient \/ ClientEnds \/ RecordRaised \/ BeginClosure
    BY <2>8 DEF BeginWait, Relax, BeginClient, ClientEnds, RaiseFromClient, RecordRaised,
       BeginClosure,
       Go, Raise, Done, Outside
  <2>9. CASE ReleaseLease \/ HalfClose \/ WaitHelper \/ JoinReader \/ StopHelper \/ JoinReaderAgain
               \/ ResolveShutdown \/ Finish
    BY <2>1, <2>9 DEF ReleaseLease, HalfClose, WaitHelper, JoinReader, StopHelper,
       JoinReaderAgain,
       ResolveShutdown, Finish, Go, Outside, HelperStates
  <2>10. CASE Read
    BY <2>10 DEF Read, ReadFrame, SeeExit, FinalFrame, FinalEnd, SeeEOF, EOFEnd, ReaderEnds,
       Coordinator
  <2>11. CASE Helper
    BY <2>11 DEF Helper, HelperCreates, HelperGarbles, HelperClosesOutput, HelperAnswers,
       HelperIsReady, HelperEnds, SshExits, Says, Coordinator
  <2>12. CASE ForwardDies \/ CtrlC \/ Stays
    BY <2>1, <2>12 DEF ForwardDies, CtrlC, Stays, vars, Outside, ForwardStates
  <2>13. QED
    BY <2>2, <2>3, <2>4, <2>5, <2>6, <2>7, <2>8, <2>9, <2>10, <2>11, <2>12 DEF Next,
       Coordinate
<1>2. QED  BY <1>1, AlwaysSession, PTL DEF Spec, CtrlCStopsEffects
=============================================================================

------------------------- MODULE LocalProcess_proofs -------------------------
(***************************************************************************)
(* Proofs of what FiniteCommand.tla and ManagedProcess.tla state, for any  *)
(* worlds: any program as the child, any pipe capacity and any input, with *)
(* or without a deadline, and any failures of the calls of the system.     *)
(*                                                                         *)
(* Each kind of child has its own invariant, what is known at each step of *)
(* its owner.  The two share the ledger of terminate_process: once it is   *)
(* done, the child was reaped or a failure was reported (Ledger).          *)
(***************************************************************************)
EXTENDS MCLocalProcess, TLAPS

\* terminate_process runs at one step of each owner.
Endings == {"idle", "poll", "TERM", "wait TERM", "KILL", "wait KILL", "done"}

LocalTypeOK ==
  /\ proc \in {"none", "live", "dead", "reaped"} /\ ending \in Endings
  /\ signals \subseteq {"TERM", "KILL"} /\ reported \in BOOLEAN

Ledger == ending = "done" => reported \/ proc = "reaped"

----------------------------------------------------------------------------
FiniteSteps == {"launch", "wait", "handle", "settle", "returned", "raised"}

FiniteTypeOK ==
  /\ step \in FiniteSteps /\ open \subseteq Outputs \cup {"in"}
  /\ pc \in Nat /\ holder \in {"none", "writes", "lingers", "gone"}
  /\ pipe \in [Outputs \cup {"in"} -> 0 .. Room]
  /\ wrote \in [Outputs -> Nat] /\ got \in [Outputs -> Nat]
  /\ sent \in 0 .. Input /\ reading \subseteq Outputs /\ exited \in BOOLEAN
  /\ todo \in [read : SUBSET Outputs, write : BOOLEAN, exit : BOOLEAN, expired : BOOLEAN]

\* The steps at which no signal was sent, those with a child to wait for, and
\* what holds when the work is over.
Unsignalled == step \in {"launch", "wait", "handle", "returned"} => signals = {}
Working     == step \in {"wait", "handle"} => ending = "idle" /\ proc # "none"
Unborn      == step = "launch" => proc = "none" /\ ending = "idle" /\ open = {}

Observed ==
  /\ exited => proc = "reaped"
  /\ step = "handle" /\ todo.exit => Gone

Finished ==
  /\ step = "returned" => exited /\ reading = {} /\ open = {} /\ ending = "idle"
  /\ step = "raised" => open = {} /\ (reported \/ proc \in {"none", "reaped"})
                          /\ ending \in {"idle", "done"}

\* Every byte written is captured or in the pipe; a capture ends, and is found
\* empty by a read, only at the end of its pipe, where nobody can write to it.
Conserved == \A p \in Outputs : wrote[p] = got[p] + pipe[p]

Captured == step \in {"wait", "handle", "returned"} => \A p \in Outputs :
  /\ step = "handle" /\ p \in todo.read => p \in reading /\ (pipe[p] > 0 \/ Eof)
  /\ p \notin reading => pipe[p] = 0 /\ Eof

FiniteInv ==
  /\ LocalTypeOK /\ Ledger /\ FiniteTypeOK
  /\ Unsignalled /\ Working /\ Unborn /\ Observed /\ Finished
  /\ Conserved /\ Captured

----------------------------------------------------------------------------
ManagedSteps == {"spawn", "start drain", "adopt", "roll back", "start reader", "use",
  "close", "wait", "join", "stop", "close err", "stop drain", "close streams",
  "join again", "returned", "raised"}

ManagedTypeOK ==
  /\ step \in ManagedSteps /\ open \subseteq Streams \cup {"completion"}
  /\ drain \in {"none", "waiting", "reading", "finished"}
  /\ reader \in {"none", "waiting", "handling", "final", "finished"}
  /\ {stopping, noise, outsider, adopted, closing} \subseteq BOOLEAN

\* What acquisition has made at each of its steps.
Acquiring ==
  /\ step = "spawn" => proc = "none" /\ open = {}
  /\ step \in {"spawn", "start drain"} => drain = "none"
  /\ step \in {"spawn", "start drain", "adopt", "roll back", "start reader"} =>
       reader = "none" /\ ~closing
  /\ step \in {"start drain", "adopt"} => open = Streams
  /\ step = "start reader" => open = Streams \cup {"completion"} /\ adopted
  /\ step \in {"spawn", "start drain", "adopt"} => ~adopted
  /\ "completion" \in open \/ reader # "none" => adopted

\* The connection's own close, after a use or after a rollback that closed the
\* data streams.
Closing ==
  /\ step = "use" => reader # "none" /\ ~closing
  /\ step = "close" => adopted /\ (IF closing THEN "out" \notin open ELSE reader # "none")
  /\ step \in {"wait", "join", "join again"} => reader # "none"
  /\ step \in {"stop", "close err", "stop drain", "close streams"} =>
       reader # "none" \/ closing

\* A stream is closed when its reader has stopped, or that is reported.
Streaming ==
  /\ StreamOutlivesReader
  /\ closing => ~ReaderRuns
  /\ step = "join again" /\ closing => open \cap {"in", "out"} = {}
  /\ step \in {"close streams", "join again"} => reported \/ "err" \notin open

Settled ==
  /\ step # "stop" => ending = "idle"
  /\ step \in {"close err", "stop drain", "close streams", "join again"} =>
       reported \/ proc = "reaped"
  /\ Over => reported \/ (open = {} /\ proc \in {"none", "reaped"})

ManagedInv ==
  /\ LocalTypeOK /\ Ledger /\ ManagedTypeOK
  /\ Acquiring /\ Closing /\ Streaming /\ Settled

Idle == ~DrainRuns /\ ~ReaderRuns

ProcessInv == IF Finite THEN FiniteInv /\ Idle ELSE ManagedInv

----------------------------------------------------------------------------
LEMMA TerminateLocal ==
  ASSUME LocalTypeOK, Ledger, TerminateProcess
  PROVE  /\ LocalTypeOK' /\ Ledger'
         /\ ending \notin {"idle", "done"} /\ ending' # "idle"
         /\ world' = world /\ step' = step /\ open' = open
         /\ (Gone => Gone') /\ (proc = "reaped" => proc' = "reaped")
         /\ proc' # proc => proc' = "reaped" /\ proc = "dead"
         /\ (reported => reported')
<1>1. CASE PollChild
  BY <1>1 DEF TerminateProcess, PollChild, LocalTypeOK, Ledger, Endings, Gone, Reaped
<1>2. CASE Terminate
  BY <1>2 DEF TerminateProcess, Terminate, LocalTypeOK, Ledger, Endings, Gone, Reaped
<1>3. CASE AwaitTerm
  BY <1>3 DEF TerminateProcess, AwaitTerm, LocalTypeOK, Ledger, Endings, Gone
<1>4. CASE Kill
  BY <1>4 DEF TerminateProcess, Kill, LocalTypeOK, Ledger, Endings, Gone, Reaped
<1>5. CASE AwaitKill
  BY <1>5 DEF TerminateProcess, AwaitKill, LocalTypeOK, Ledger, Endings, Gone, Reaped
<1>6. QED  BY <1>1, <1>2, <1>3, <1>4, <1>5 DEF TerminateProcess

LEMMA LaunchKeeps ==
  ASSUME FiniteInv, Launch
  PROVE  FiniteInv'
<1> USE FiniteConstants DEF FiniteInv, Launch, finiteVars, localVars
<1>1. LocalTypeOK'
  BY DEF LocalTypeOK
<1>2. Ledger'
  BY DEF Ledger, Unborn
<1>3. FiniteTypeOK'
  BY DEF FiniteTypeOK, FiniteSteps
<1>4. Unsignalled'
  BY DEF Unsignalled
<1>5. Working'
  BY DEF Working, Unborn
<1>6. Unborn'
  BY DEF Unborn
<1>7. Observed'
  BY DEF Observed, Unborn
<1>8. Finished'
  BY DEF Finished, Unborn
<1>9. Conserved'
  BY DEF Conserved
<1>10. Captured'
  BY DEF Captured
<1>11. QED  BY <1>1, <1>2, <1>3, <1>4, <1>5, <1>6, <1>7, <1>8, <1>9, <1>10

LEMMA WaitKeeps ==
  ASSUME FiniteInv, Wait
  PROVE  FiniteInv'
<1> USE FiniteConstants DEF FiniteInv, Wait, finiteVars, localVars
<1>1. LocalTypeOK'
  BY DEF LocalTypeOK
<1>2. Ledger'
  BY DEF Ledger
<1>3. FiniteTypeOK'
  <2>1. Readable \in SUBSET Outputs /\ Writable \in BOOLEAN /\ (~exited /\ Gone) \in BOOLEAN
    BY DEF FiniteTypeOK, Readable, Writable
  <2>2. PICK expired \in BOOLEAN :
          todo' = [read |-> Readable, write |-> Writable,
                   exit |-> ~exited /\ Gone, expired |-> expired]
    OBVIOUS
  <2>3. todo' \in [read : SUBSET Outputs, write : BOOLEAN, exit : BOOLEAN, expired : BOOLEAN]
    BY <2>1, <2>2
  <2>4. QED  BY <2>3 DEF FiniteTypeOK, FiniteSteps
<1>4. Unsignalled'
  BY DEF Unsignalled
<1>5. Working'
  BY DEF Working
<1>6. Unborn'
  BY DEF Unborn
<1>7. Observed'
  BY DEF Observed, FiniteTypeOK, Gone
<1>8. Finished'
  BY DEF Finished
<1>9. Conserved'
  BY DEF Conserved
<1>10. Captured'
  BY DEF Captured, Eof, Gone, Readable
<1>11. QED  BY <1>1, <1>2, <1>3, <1>4, <1>5, <1>6, <1>7, <1>8, <1>9, <1>10

LEMMA InterruptKeeps ==
  ASSUME FiniteInv, Interrupt
  PROVE  FiniteInv'
<1> USE FiniteConstants DEF FiniteInv, Interrupt, finiteVars, localVars
<1>1. LocalTypeOK'
  BY DEF LocalTypeOK
<1>2. Ledger'
  BY DEF Ledger
<1>3. FiniteTypeOK'
  BY DEF FiniteTypeOK, FiniteSteps
<1>4. Unsignalled'
  BY DEF Unsignalled
<1>5. Working'
  BY DEF Working
<1>6. Unborn'
  BY DEF Unborn
<1>7. Observed'
  BY DEF Observed
<1>8. Finished'
  BY DEF Finished
<1>9. Conserved'
  BY DEF Conserved
<1>10. Captured'
  BY DEF Captured
<1>11. QED  BY <1>1, <1>2, <1>3, <1>4, <1>5, <1>6, <1>7, <1>8, <1>9, <1>10

LEMMA ReadKeeps ==
  ASSUME FiniteInv, NEW p \in Outputs, Read(p)
  PROVE  FiniteInv'
<1> USE FiniteConstants DEF FiniteInv, Read, finiteVars, localVars
<1>1. LocalTypeOK'
  BY DEF LocalTypeOK
<1>2. Ledger'
  BY DEF Ledger
<1>3. FiniteTypeOK'
  BY DEF FiniteTypeOK
<1>4. Unsignalled'
  BY DEF Unsignalled
<1>5. Working'
  BY DEF Working
<1>6. Unborn'
  BY DEF Unborn
<1>7. Observed'
  BY DEF Observed, Gone
<1>8. Finished'
  BY DEF Finished
<1>9. Conserved'
  BY DEF Conserved, FiniteTypeOK
<1>10. Captured'
  BY DEF Captured, Eof, Gone
<1>11. QED  BY <1>1, <1>2, <1>3, <1>4, <1>5, <1>6, <1>7, <1>8, <1>9, <1>10

LEMMA WriteKeeps ==
  ASSUME FiniteInv, Write
  PROVE  FiniteInv'
<1> USE FiniteConstants DEF FiniteInv, Write, finiteVars, localVars
<1>1. LocalTypeOK'
  BY DEF LocalTypeOK
<1>2. Ledger'
  BY DEF Ledger
<1>3. FiniteTypeOK'
  <2>1. pipe["in"] \in 0 .. Room /\ sent \in 0 .. Input
    BY DEF FiniteTypeOK
  <2>2. /\ pipe' \in [Outputs \cup {"in"} -> 0 .. Room]
        /\ sent' \in 0 .. Input
    BY <2>1 DEF FiniteTypeOK
  <2>3. QED  BY <2>2 DEF FiniteTypeOK, FiniteSteps
<1>4. Unsignalled'
  BY DEF Unsignalled
<1>5. Working'
  BY DEF Working
<1>6. Unborn'
  BY DEF Unborn
<1>7. Observed'
  BY DEF Observed, Gone
<1>8. Finished'
  BY DEF Finished
<1>9. Conserved'
  BY DEF Conserved, FiniteTypeOK, Outputs
<1>10. Captured'
  BY DEF Captured, Eof, Gone
<1>11. QED  BY <1>1, <1>2, <1>3, <1>4, <1>5, <1>6, <1>7, <1>8, <1>9, <1>10

LEMMA ObserveKeeps ==
  ASSUME FiniteInv, Observe
  PROVE  FiniteInv'
<1> USE FiniteConstants DEF FiniteInv, Observe, finiteVars, localVars
<1>1. LocalTypeOK'
  BY DEF LocalTypeOK
<1>2. Ledger'
  BY DEF Ledger
<1>3. FiniteTypeOK'
  BY DEF FiniteTypeOK, FiniteSteps, Nothing
<1>4. Unsignalled'
  BY DEF Unsignalled
<1>5. Working'
  BY DEF Working
<1>6. Unborn'
  BY DEF Unborn
<1>7. Observed'
  BY DEF Observed
<1>8. Finished'
  BY DEF Finished
<1>9. Conserved'
  BY DEF Conserved
<1>10. Captured'
  BY DEF Captured, Eof, Gone
<1>11. QED  BY <1>1, <1>2, <1>3, <1>4, <1>5, <1>6, <1>7, <1>8, <1>9, <1>10

LEMMA ReturnKeeps ==
  ASSUME FiniteInv, Return
  PROVE  FiniteInv'
<1> USE FiniteConstants DEF FiniteInv, Return, finiteVars, localVars
<1>1. LocalTypeOK'
  BY DEF LocalTypeOK
<1>2. Ledger'
  BY DEF Ledger
<1>3. FiniteTypeOK'
  BY DEF FiniteTypeOK, FiniteSteps
<1>4. Unsignalled'
  BY DEF Unsignalled
<1>5. Working'
  BY DEF Working
<1>6. Unborn'
  BY DEF Unborn
<1>7. Observed'
  BY DEF Observed
<1>8. Finished'
  BY DEF Finished, Working, Pending
<1>9. Conserved'
  BY DEF Conserved
<1>10. Captured'
  BY DEF Captured, Eof, Gone
<1>11. QED  BY <1>1, <1>2, <1>3, <1>4, <1>5, <1>6, <1>7, <1>8, <1>9, <1>10

LEMMA SettleKeeps ==
  ASSUME FiniteInv, Settle
  PROVE  FiniteInv'
<1> USE FiniteConstants DEF FiniteInv, Settle, finiteVars, localVars
<1>1. LocalTypeOK'
  BY DEF LocalTypeOK, Endings
<1>2. Ledger'
  BY DEF Ledger
<1>3. FiniteTypeOK'
  BY DEF FiniteTypeOK, FiniteSteps
<1>4. Unsignalled'
  BY DEF Unsignalled
<1>5. Working'
  BY DEF Working
<1>6. Unborn'
  BY DEF Unborn
<1>7. Observed'
  BY DEF Observed
<1>8. Finished'
  BY DEF Finished, Ledger
<1>9. Conserved'
  BY DEF Conserved
<1>10. Captured'
  BY DEF Captured
<1>11. QED  BY <1>1, <1>2, <1>3, <1>4, <1>5, <1>6, <1>7, <1>8, <1>9, <1>10

LEMMA ChildStepKeeps ==
  ASSUME FiniteInv, ChildStep
  PROVE  FiniteInv'
<1> USE FiniteConstants DEF FiniteInv, ChildStep, finiteVars, localVars
<1>1. LocalTypeOK'
  BY DEF LocalTypeOK
<1>2. Ledger'
  BY DEF Ledger
<1>3. FiniteTypeOK'
  BY DEF FiniteTypeOK
<1>4. Unsignalled'
  BY DEF Unsignalled
<1>5. Working'
  BY DEF Working
<1>6. Unborn'
  BY DEF Unborn
<1>7. Observed'
  BY DEF Observed, Gone
<1>8. Finished'
  BY DEF Finished
<1>9. Conserved'
  BY DEF Conserved, FiniteTypeOK, Outputs
<1>10. Captured'
  BY DEF Captured, FiniteTypeOK, Eof, Gone, Outputs
<1>11. QED  BY <1>1, <1>2, <1>3, <1>4, <1>5, <1>6, <1>7, <1>8, <1>9, <1>10

LEMMA HolderStepKeeps ==
  ASSUME FiniteInv, HolderStep
  PROVE  FiniteInv'
<1> USE FiniteConstants DEF FiniteInv, HolderStep, finiteVars, localVars
<1>1. LocalTypeOK'
  BY DEF LocalTypeOK
<1>2. Ledger'
  BY DEF Ledger
<1>3. FiniteTypeOK'
  BY DEF FiniteTypeOK
<1>4. Unsignalled'
  BY DEF Unsignalled
<1>5. Working'
  BY DEF Working
<1>6. Unborn'
  BY DEF Unborn
<1>7. Observed'
  BY DEF Observed, Gone
<1>8. Finished'
  BY DEF Finished
<1>9. Conserved'
  BY DEF Conserved, FiniteTypeOK
<1>10. Captured'
  BY DEF Captured, FiniteTypeOK, Eof
<1>11. QED  BY <1>1, <1>2, <1>3, <1>4, <1>5, <1>6, <1>7, <1>8, <1>9, <1>10

LEMMA DieOfSignalKeeps ==
  ASSUME FiniteInv, DieOfSignal, UNCHANGED finiteVars
  PROVE  FiniteInv'
<1> USE FiniteConstants DEF FiniteInv, DieOfSignal, finiteVars, localVars
<1>1. LocalTypeOK'
  BY DEF LocalTypeOK
<1>2. Ledger'
  BY DEF Ledger
<1>3. FiniteTypeOK'
  BY DEF FiniteTypeOK
<1>4. Unsignalled'
  BY DEF Unsignalled
<1>5. Working'
  BY DEF Working
<1>6. Unborn'
  BY DEF Unborn
<1>7. Observed'
  BY DEF Observed, Gone
<1>8. Finished'
  BY DEF Finished
<1>9. Conserved'
  BY DEF Conserved
<1>10. Captured'
  BY DEF Captured, Eof, Gone
<1>11. QED  BY <1>1, <1>2, <1>3, <1>4, <1>5, <1>6, <1>7, <1>8, <1>9, <1>10

LEMMA FiniteTerminateKeeps ==
  ASSUME FiniteInv, TerminateProcess, UNCHANGED finiteVars
  PROVE  FiniteInv'
<1>1. /\ LocalTypeOK' /\ Ledger'
      /\ ending \notin {"idle", "done"} /\ ending' # "idle"
      /\ step' = step /\ open' = open
      /\ (Gone => Gone') /\ (proc = "reaped" => proc' = "reaped")
      /\ (proc' # proc => proc' = "reaped" /\ proc = "dead")
      /\ (reported => reported')
  BY TerminateLocal DEF FiniteInv
<1>2. step = "settle"
  BY <1>1 DEF FiniteInv, FiniteTypeOK, FiniteSteps, Working, Unborn, Finished
<1>3. FiniteTypeOK'
  BY <1>1 DEF FiniteInv, FiniteTypeOK, finiteVars
<1>4. Unsignalled' /\ Working' /\ Unborn' /\ Finished'
  BY <1>1, <1>2 DEF Unsignalled, Working, Unborn, Finished
<1>5. Observed' /\ Conserved' /\ Captured'
  BY <1>1, <1>2 DEF FiniteInv, Observed, Conserved, Captured, finiteVars
<1>6. QED  BY <1>1, <1>3, <1>4, <1>5 DEF FiniteInv

LEMMA SpawnKeeps ==
  ASSUME ManagedInv, Spawn
  PROVE  ManagedInv'
<1> USE DEF ManagedInv, Spawn
<1>1. LocalTypeOK'
  BY DEF LocalTypeOK
<1>2. Ledger'
  BY DEF Ledger, Settled
<1>3. ManagedTypeOK'
  BY DEF ManagedTypeOK, ManagedSteps
<1>4. Acquiring'
  BY DEF Acquiring, Streams
<1>5. Closing'
  BY DEF Closing
<1>6. Streaming'
  BY DEF Streaming, StreamOutlivesReader, DrainRuns, ReaderRuns, Acquiring
<1>7. Settled'
  BY DEF Settled, Over, Acquiring
<1>8. QED  BY <1>1, <1>2, <1>3, <1>4, <1>5, <1>6, <1>7

LEMMA StartDrainKeeps ==
  ASSUME ManagedInv, StartDrain
  PROVE  ManagedInv'
<1> USE DEF ManagedInv, StartDrain
<1>1. LocalTypeOK'
  BY DEF LocalTypeOK
<1>2. Ledger'
  BY DEF Ledger
<1>3. ManagedTypeOK'
  BY DEF ManagedTypeOK, ManagedSteps
<1>4. Acquiring'
  BY DEF Acquiring
<1>5. Closing'
  BY DEF Closing
<1>6. Streaming'
  BY DEF Streaming, StreamOutlivesReader, Acquiring, Streams
<1>7. Settled'
  BY DEF Settled, Over
<1>8. QED  BY <1>1, <1>2, <1>3, <1>4, <1>5, <1>6, <1>7

LEMMA AdoptKeeps ==
  ASSUME ManagedInv, Adopt
  PROVE  ManagedInv'
<1> USE DEF ManagedInv, Adopt, threadVars
<1>1. LocalTypeOK'
  BY DEF LocalTypeOK
<1>2. Ledger'
  BY DEF Ledger
<1>3. ManagedTypeOK'
  BY DEF ManagedTypeOK, ManagedSteps
<1>4. Acquiring'
  BY DEF Acquiring
<1>5. Closing'
  BY DEF Closing
<1>6. Streaming'
  BY DEF Streaming, StreamOutlivesReader, DrainRuns, ReaderRuns, Acquiring
<1>7. Settled'
  BY DEF Settled, Over
<1>8. QED  BY <1>1, <1>2, <1>3, <1>4, <1>5, <1>6, <1>7

LEMMA RollBackKeeps ==
  ASSUME ManagedInv, RollBack
  PROVE  ManagedInv'
<1> USE DEF ManagedInv, RollBack, threadVars
<1>1. LocalTypeOK'
  BY DEF LocalTypeOK, Endings
<1>2. Ledger'
  BY DEF Ledger
<1>3. ManagedTypeOK'
  BY DEF ManagedTypeOK, ManagedSteps
<1>4. Acquiring'
  BY DEF Acquiring
<1>5. Closing'
  BY DEF Closing
<1>6. Streaming'
  BY DEF Streaming, StreamOutlivesReader, DrainRuns, ReaderRuns, Acquiring
<1>7. Settled'
  BY DEF Settled, Over
<1>8. QED  BY <1>1, <1>2, <1>3, <1>4, <1>5, <1>6, <1>7

LEMMA StartReaderKeeps ==
  ASSUME ManagedInv, StartReader
  PROVE  ManagedInv'
<1> USE DEF ManagedInv, StartReader
<1>1. LocalTypeOK'
  BY DEF LocalTypeOK
<1>2. Ledger'
  BY DEF Ledger
<1>3. ManagedTypeOK'
  BY DEF ManagedTypeOK, ManagedSteps
<1>4. Acquiring'
  BY DEF Acquiring
<1>5. Closing'
  BY DEF Closing, Acquiring
<1>6. Streaming'
  BY DEF Streaming, StreamOutlivesReader, Acquiring, Streams
<1>7. Settled'
  BY DEF Settled, Over
<1>8. QED  BY <1>1, <1>2, <1>3, <1>4, <1>5, <1>6, <1>7

LEMMA UseKeeps ==
  ASSUME ManagedInv, Use
  PROVE  ManagedInv'
<1> USE DEF ManagedInv, Use, managedVars, threadVars
<1>1. LocalTypeOK'
  BY DEF LocalTypeOK
<1>2. Ledger'
  BY DEF Ledger
<1>3. ManagedTypeOK'
  BY DEF ManagedTypeOK, ManagedSteps
<1>4. Acquiring'
  BY DEF Acquiring
<1>5. Closing'
  BY DEF Closing, Acquiring
<1>6. Streaming'
  BY DEF Streaming, StreamOutlivesReader, DrainRuns, ReaderRuns
<1>7. Settled'
  BY DEF Settled, Over
<1>8. QED  BY <1>1, <1>2, <1>3, <1>4, <1>5, <1>6, <1>7

LEMMA RequestShutdownKeeps ==
  ASSUME ManagedInv, RequestShutdown
  PROVE  ManagedInv'
<1> USE DEF ManagedInv, RequestShutdown
<1>1. LocalTypeOK'
  BY DEF LocalTypeOK
<1>2. Ledger'
  BY DEF Ledger
<1>3. ManagedTypeOK'
  BY DEF ManagedTypeOK, ManagedSteps
<1>4. Acquiring'
  BY DEF Acquiring, Closing
<1>5. Closing'
  BY DEF Closing
<1>6. Streaming'
  BY DEF Streaming, StreamOutlivesReader, DrainRuns, ReaderRuns, Closing
<1>7. Settled'
  BY DEF Settled, Over
<1>8. QED  BY <1>1, <1>2, <1>3, <1>4, <1>5, <1>6, <1>7

LEMMA AwaitHelperKeeps ==
  ASSUME ManagedInv, AwaitHelper
  PROVE  ManagedInv'
<1> USE DEF ManagedInv, AwaitHelper, managedVars, threadVars
<1>1. LocalTypeOK'
  BY DEF LocalTypeOK
<1>2. Ledger'
  BY DEF Ledger
<1>3. ManagedTypeOK'
  BY DEF ManagedTypeOK, ManagedSteps
<1>4. Acquiring'
  BY DEF Acquiring
<1>5. Closing'
  BY DEF Closing
<1>6. Streaming'
  BY DEF Streaming, StreamOutlivesReader, DrainRuns, ReaderRuns
<1>7. Settled'
  BY DEF Settled, Over
<1>8. QED  BY <1>1, <1>2, <1>3, <1>4, <1>5, <1>6, <1>7

LEMMA JoinReaderKeeps ==
  ASSUME ManagedInv, JoinReader
  PROVE  ManagedInv'
<1> USE DEF ManagedInv, JoinReader, threadVars
<1>1. LocalTypeOK'
  BY DEF LocalTypeOK, Endings
<1>2. Ledger'
  BY DEF Ledger
<1>3. ManagedTypeOK'
  BY DEF ManagedTypeOK, ManagedSteps
<1>4. Acquiring'
  BY DEF Acquiring
<1>5. Closing'
  BY DEF Closing
<1>6. Streaming'
  BY DEF Streaming, StreamOutlivesReader, DrainRuns, ReaderRuns
<1>7. Settled'
  BY DEF Settled, Over
<1>8. QED  BY <1>1, <1>2, <1>3, <1>4, <1>5, <1>6, <1>7

LEMMA StoppedKeeps ==
  ASSUME ManagedInv, Stopped
  PROVE  ManagedInv'
<1> USE DEF ManagedInv, Stopped, managedVars, threadVars
<1>1. LocalTypeOK'
  BY DEF LocalTypeOK, Endings
<1>2. Ledger'
  BY DEF Ledger
<1>3. ManagedTypeOK'
  BY DEF ManagedTypeOK, ManagedSteps
<1>4. Acquiring'
  BY DEF Acquiring
<1>5. Closing'
  BY DEF Closing
<1>6. Streaming'
  BY DEF Streaming, StreamOutlivesReader, DrainRuns, ReaderRuns
<1>7. Settled'
  BY DEF Settled, Over, Ledger
<1>8. QED  BY <1>1, <1>2, <1>3, <1>4, <1>5, <1>6, <1>7

LEMMA CloseErrKeeps ==
  ASSUME ManagedInv, CloseErr
  PROVE  ManagedInv'
<1> USE DEF ManagedInv, CloseErr
<1>1. LocalTypeOK'
  BY DEF LocalTypeOK
<1>2. Ledger'
  BY DEF Ledger
<1>3. ManagedTypeOK'
  BY DEF ManagedTypeOK, ManagedSteps
<1>4. Acquiring'
  BY DEF Acquiring
<1>5. Closing'
  BY DEF Closing
<1>6. Streaming'
  BY DEF Streaming, StreamOutlivesReader, DrainRuns, ReaderRuns
<1>7. Settled'
  BY DEF Settled, Over
<1>8. QED  BY <1>1, <1>2, <1>3, <1>4, <1>5, <1>6, <1>7

LEMMA StopDrainKeeps ==
  ASSUME ManagedInv, StopDrain
  PROVE  ManagedInv'
<1> USE DEF ManagedInv, StopDrain, managedVars, threadVars
<1>1. LocalTypeOK'
  BY DEF LocalTypeOK
<1>2. Ledger'
  BY DEF Ledger
<1>3. ManagedTypeOK'
  BY DEF ManagedTypeOK, ManagedSteps
<1>4. Acquiring'
  BY DEF Acquiring
<1>5. Closing'
  BY DEF Closing
<1>6. Streaming'
  BY DEF Streaming, StreamOutlivesReader, DrainRuns, ReaderRuns
<1>7. Settled'
  BY DEF Settled, Over
<1>8. QED  BY <1>1, <1>2, <1>3, <1>4, <1>5, <1>6, <1>7

LEMMA CloseStreamsKeeps ==
  ASSUME ManagedInv, CloseStreams
  PROVE  ManagedInv'
<1> USE DEF ManagedInv, CloseStreams, RollingBack, managedVars, threadVars
<1>1. LocalTypeOK'
  BY DEF LocalTypeOK
<1>2. Ledger'
  BY DEF Ledger
<1>3. ManagedTypeOK'
  BY DEF ManagedTypeOK, ManagedSteps
<1>4. Acquiring'
  BY DEF Acquiring
<1>5. Closing'
  BY DEF Closing
<1>6. Streaming'
  BY DEF Streaming, StreamOutlivesReader, DrainRuns, ReaderRuns
<1>7. Settled'
  BY DEF Settled, Over, Streaming, Acquiring, Closing, ManagedTypeOK, Streams
<1>8. QED  BY <1>1, <1>2, <1>3, <1>4, <1>5, <1>6, <1>7

LEMMA JoinAgainKeeps ==
  ASSUME ManagedInv, JoinAgain
  PROVE  ManagedInv'
<1> USE DEF ManagedInv, JoinAgain, ReaderRuns, threadVars
<1>1. LocalTypeOK'
  BY DEF LocalTypeOK, Endings
<1>2. Ledger'
  BY DEF Ledger
<1>3. ManagedTypeOK'
  BY DEF ManagedTypeOK, ManagedSteps
<1>4. Acquiring'
  BY DEF Acquiring
<1>5. Closing'
  BY DEF Closing
<1>6. Streaming'
  <2>1. CASE closing
    <3>1. open' = open \ {"completion"} /\ step' = "returned" /\ closing' = closing
      BY <2>1
    <3>2. ~ReaderRuns /\ ~ReaderRuns'
      BY <2>1 DEF Streaming
    <3>3. DrainRuns' = DrainRuns
      BY DEF DrainRuns
    <3>4. QED  BY <3>1, <3>2, <3>3 DEF Streaming, StreamOutlivesReader
  <2>2. CASE ~closing
    <3>1. open' = open /\ step' \in {"stop", "returned"}
      BY <2>2
    <3>2. closing' => ~ReaderRuns'
      BY <2>2
    <3>3. DrainRuns' = DrainRuns /\ ReaderRuns' = ReaderRuns
      BY DEF DrainRuns
    <3>4. StreamOutlivesReader'
      BY <3>1, <3>3 DEF Streaming, StreamOutlivesReader
    <3>5. QED  BY <2>2, <3>1, <3>2, <3>3, <3>4 DEF Streaming
  <2>3. QED  BY <2>1, <2>2
<1>7. Settled'
  BY DEF Settled, Over, Streaming, ManagedTypeOK, Streams
<1>8. QED  BY <1>1, <1>2, <1>3, <1>4, <1>5, <1>6, <1>7

LEMMA DrainStepKeeps ==
  ASSUME ManagedInv, DrainStep
  PROVE  ManagedInv'
<1> USE DEF ManagedInv, DrainStep, localVars
<1>1. LocalTypeOK'
  BY DEF LocalTypeOK
<1>2. Ledger'
  BY DEF Ledger
<1>3. ManagedTypeOK'
  BY DEF ManagedTypeOK
<1>4. Acquiring'
  BY DEF Acquiring
<1>5. Closing'
  BY DEF Closing
<1>6. Streaming'
  BY DEF Streaming, StreamOutlivesReader, DrainRuns, ReaderRuns
<1>7. Settled'
  BY DEF Settled, Over
<1>8. QED  BY <1>1, <1>2, <1>3, <1>4, <1>5, <1>6, <1>7

LEMMA DrainFailsKeeps ==
  ASSUME ManagedInv, DrainFails
  PROVE  ManagedInv'
<1> USE DEF ManagedInv, DrainFails, localVars
<1>1. LocalTypeOK'
  BY DEF LocalTypeOK
<1>2. Ledger'
  BY DEF Ledger
<1>3. ManagedTypeOK'
  BY DEF ManagedTypeOK
<1>4. Acquiring'
  BY DEF Acquiring
<1>5. Closing'
  BY DEF Closing
<1>6. Streaming'
  BY DEF Streaming, StreamOutlivesReader, DrainRuns, ReaderRuns
<1>7. Settled'
  BY DEF Settled, Over
<1>8. QED  BY <1>1, <1>2, <1>3, <1>4, <1>5, <1>6, <1>7

LEMMA ReaderStepKeeps ==
  ASSUME ManagedInv, ReaderStep
  PROVE  ManagedInv'
<1> USE DEF ManagedInv, ReaderStep, localVars
<1>1. LocalTypeOK'
  BY DEF LocalTypeOK
<1>2. Ledger'
  BY DEF Ledger
<1>3. ManagedTypeOK'
  BY DEF ManagedTypeOK
<1>4. Acquiring'
  BY DEF Acquiring
<1>5. Closing'
  BY DEF Closing
<1>6. Streaming'
  BY DEF Streaming, StreamOutlivesReader, DrainRuns, ReaderRuns
<1>7. Settled'
  BY DEF Settled, Over
<1>8. QED  BY <1>1, <1>2, <1>3, <1>4, <1>5, <1>6, <1>7

LEMMA HandlerRecoversKeeps ==
  ASSUME ManagedInv, HandlerRecovers
  PROVE  ManagedInv'
<1> USE DEF ManagedInv, HandlerRecovers, localVars
<1>1. LocalTypeOK'
  BY DEF LocalTypeOK
<1>2. Ledger'
  BY DEF Ledger
<1>3. ManagedTypeOK'
  BY DEF ManagedTypeOK
<1>4. Acquiring'
  BY DEF Acquiring
<1>5. Closing'
  BY DEF Closing
<1>6. Streaming'
  BY DEF Streaming, StreamOutlivesReader, DrainRuns, ReaderRuns
<1>7. Settled'
  BY DEF Settled, Over
<1>8. QED  BY <1>1, <1>2, <1>3, <1>4, <1>5, <1>6, <1>7

LEMMA EnvironmentKeeps ==
  ASSUME ManagedInv, Environment
  PROVE  ManagedInv'
<1>1. /\ drain' = drain /\ reader' = reader /\ adopted' = adopted /\ closing' = closing
      /\ step' = step /\ open' = open /\ ending' = ending /\ signals' = signals
      /\ reported' = reported /\ {stopping', noise', outsider'} \subseteq BOOLEAN
      /\ proc' = proc \/ (proc = "live" /\ proc' = "dead")
  BY DEF Environment, ManagedInv, ManagedTypeOK, localVars, managedVars, threadVars
<1>2. LocalTypeOK' /\ Ledger' /\ ManagedTypeOK'
  BY <1>1 DEF ManagedInv, LocalTypeOK, Ledger, ManagedTypeOK
<1>3. Acquiring' /\ Closing' /\ Settled'
  BY <1>1 DEF ManagedInv, Acquiring, Closing, Settled, Over
<1>4. Streaming'
  BY <1>1 DEF ManagedInv, Streaming, StreamOutlivesReader, DrainRuns, ReaderRuns
<1>5. QED  BY <1>2, <1>3, <1>4 DEF ManagedInv

LEMMA ManagedDieOfSignalKeeps ==
  ASSUME ManagedInv, DieOfSignal, UNCHANGED managedVars
  PROVE  ManagedInv'
<1> USE DEF ManagedInv, DieOfSignal, managedVars, threadVars
<1>1. LocalTypeOK'
  BY DEF LocalTypeOK
<1>2. Ledger'
  BY DEF Ledger
<1>3. ManagedTypeOK'
  BY DEF ManagedTypeOK
<1>4. Acquiring'
  BY DEF Acquiring
<1>5. Closing'
  BY DEF Closing
<1>6. Streaming'
  BY DEF Streaming, StreamOutlivesReader, DrainRuns, ReaderRuns
<1>7. Settled'
  BY DEF Settled, Over
<1>8. QED  BY <1>1, <1>2, <1>3, <1>4, <1>5, <1>6, <1>7

LEMMA ManagedTerminateKeeps ==
  ASSUME ManagedInv, TerminateProcess, UNCHANGED managedVars
  PROVE  ManagedInv'
<1>1. /\ LocalTypeOK' /\ Ledger'
      /\ ending \notin {"idle", "done"}
      /\ step' = step /\ open' = open
      /\ (proc = "reaped" => proc' = "reaped")
      /\ (proc' # proc => proc' = "reaped" /\ proc = "dead")
      /\ (reported => reported')
  BY TerminateLocal DEF ManagedInv
<1>2. step = "stop"
  BY <1>1 DEF ManagedInv, Settled
<1>3. ManagedTypeOK' /\ Acquiring' /\ Closing'
  BY <1>1 DEF ManagedInv, ManagedTypeOK, Acquiring, Closing, managedVars, threadVars
<1>4. Streaming'
  BY <1>1, <1>2 DEF ManagedInv, Streaming, StreamOutlivesReader, DrainRuns, ReaderRuns,
     managedVars, threadVars
<1>5. Settled'
  BY <1>1, <1>2 DEF Settled, Over
<1>6. QED  BY <1>1, <1>3, <1>4, <1>5 DEF ManagedInv

----------------------------------------------------------------------------
LEMMA InitProcess == Init => ProcessInv
<1> SUFFICES ASSUME Init PROVE ProcessInv
  OBVIOUS
<1>1. LocalTypeOK /\ Ledger
  BY DEF Init, LocalInit, LocalTypeOK, Ledger, Endings
<1>2. CASE Finite
  <2>1. FiniteTypeOK
    <3>1. /\ pipe \in [Outputs \cup {"in"} -> 0 .. Room]
          /\ wrote \in [Outputs -> Nat] /\ got \in [Outputs -> Nat]
          /\ sent \in 0 .. Input
      BY FiniteConstants DEF Init, FiniteInit
    <3>2. todo \in [read : SUBSET Outputs, write : BOOLEAN, exit : BOOLEAN, expired : BOOLEAN]
      BY DEF Init, FiniteInit, Nothing
    <3>3. QED
      BY <1>2, <3>1, <3>2 DEF Init, Finite, LocalInit, FiniteInit, FiniteTypeOK, FiniteSteps
  <2>2. Unsignalled /\ Working /\ Unborn /\ Observed /\ Finished
    BY <1>2 DEF Init, LocalInit, FiniteInit, Unsignalled, Working, Unborn, Observed,
       Finished
  <2>3. Conserved /\ Captured
    BY <1>2 DEF Init, FiniteInit, Conserved, Captured
  <2>4. Idle
    BY DEF Init, ManagedInit, Idle, DrainRuns, ReaderRuns
  <2>5. QED  BY <1>1, <1>2, <2>1, <2>2, <2>3, <2>4 DEF ProcessInv, FiniteInv
<1>3. CASE ~Finite
  <2>1. ManagedTypeOK /\ Acquiring /\ Closing
    BY <1>3 DEF Init, Finite, LocalInit, ManagedInit, ManagedTypeOK, ManagedSteps,
       Acquiring, Closing
  <2>2. Streaming /\ Settled
    BY <1>3 DEF Init, LocalInit, ManagedInit, Streaming, StreamOutlivesReader, DrainRuns,
       ReaderRuns, Settled
  <2>3. QED  BY <1>1, <1>3, <2>1, <2>2 DEF ProcessInv, ManagedInv
<1>4. QED  BY <1>2, <1>3

LEMMA StepProcess == ProcessInv /\ [Next]_vars => ProcessInv'
<1> SUFFICES ASSUME ProcessInv, [Next]_vars PROVE ProcessInv'
  OBVIOUS
<1>1. CASE UNCHANGED vars \/ Done
  <2>1. UNCHANGED <<localVars, finiteVars, managedVars>>
    BY <1>1 DEF vars, Done
  <2>2. LocalTypeOK' = LocalTypeOK /\ Ledger' = Ledger /\ Finite' = Finite /\ Idle' = Idle
    BY <2>1 DEF localVars, managedVars, threadVars, LocalTypeOK, Ledger, Finite, Idle,
       DrainRuns, ReaderRuns
  <2>3. FiniteInv => FiniteInv'
    BY <2>1, <2>2 DEF localVars, finiteVars, FiniteInv, FiniteTypeOK, Unsignalled, Working,
       Unborn, Observed, Finished, Conserved, Captured, Eof, Gone
  <2>4. ManagedInv => ManagedInv'
    <3>1. /\ ManagedTypeOK' = ManagedTypeOK /\ Acquiring' = Acquiring
          /\ Closing' = Closing
      BY <2>1, <2>2 DEF localVars, managedVars, threadVars, ManagedTypeOK, Acquiring,
         Closing, DrainRuns, ReaderRuns
    <3>2. Streaming' = Streaming /\ Settled' = Settled
      BY <2>1, <2>2 DEF localVars, managedVars, threadVars, Streaming,
         StreamOutlivesReader, Settled, Over, DrainRuns, ReaderRuns
    <3>3. QED  BY <2>2, <3>1, <3>2 DEF ManagedInv
  <2>5. QED  BY <2>2, <2>3, <2>4 DEF ProcessInv
<1>2. CASE Finite /\ FiniteNext /\ UNCHANGED managedVars
  <2>1. world' = world
    BY <1>2 DEF FiniteNext, Owner, TerminateProcess, Launch, Wait, Interrupt, Read, Write,
       Observe, Return, Settle, ChildStep, HolderStep, DieOfSignal, localVars
  <2>2. FiniteInv'
    BY <1>2, LaunchKeeps, WaitKeeps, InterruptKeeps, ReadKeeps, WriteKeeps, ObserveKeeps,
       ReturnKeeps, SettleKeeps, ChildStepKeeps, HolderStepKeeps, DieOfSignalKeeps,
       FiniteTerminateKeeps DEF ProcessInv, FiniteNext, Owner
  <2>3. Idle'
    BY <1>2 DEF ProcessInv, Idle, DrainRuns, ReaderRuns, managedVars, threadVars
  <2>4. QED  BY <1>2, <2>1, <2>2, <2>3 DEF ProcessInv, Finite
<1>3. CASE ~Finite /\ ManagedNext /\ UNCHANGED finiteVars
  <2>1. world' = world
    BY <1>3 DEF ManagedNext, Coordinator, TerminateProcess, Spawn, StartDrain, Adopt,
       RollBack, StartReader, Use, RequestShutdown, AwaitHelper, JoinReader, Stopped,
       CloseErr, StopDrain, CloseStreams, JoinAgain, DrainStep, DrainFails, ReaderStep,
       HandlerRecovers, Environment, DieOfSignal, localVars
  <2>2. ManagedInv'
    BY <1>3, SpawnKeeps, StartDrainKeeps, AdoptKeeps, RollBackKeeps, StartReaderKeeps,
       UseKeeps, RequestShutdownKeeps, AwaitHelperKeeps, JoinReaderKeeps, StoppedKeeps,
       CloseErrKeeps, StopDrainKeeps, CloseStreamsKeeps, JoinAgainKeeps, DrainStepKeeps,
       DrainFailsKeeps, ReaderStepKeeps, HandlerRecoversKeeps, EnvironmentKeeps,
       ManagedDieOfSignalKeeps, ManagedTerminateKeeps DEF ProcessInv, ManagedNext,
       Coordinator
  <2>3. QED  BY <1>3, <2>1, <2>2 DEF ProcessInv, Finite
<1>4. QED  BY <1>1, <1>2, <1>3 DEF Next

LEMMA AlwaysProcess == Spec => []ProcessInv
BY InitProcess, StepProcess, PTL DEF Spec

\* However the launch, the acquisition, its rollback, the work, the escalation
\* or the cleanup goes (run_finite, SshCommand.popen, HelperConnection.close):
\* when it is over no child runs or waits to be reaped and no descriptor is
\* open, or the user was told.
THEOREM ChildrenAreAccountedFor == Spec => []NothingRunsUnseen
<1>1. ProcessInv => NothingRunsUnseen
  BY DEF ProcessInv, FiniteInv, ManagedInv, Finished, Settled, NothingRunsUnseen, Over,
     Observed
<1>2. QED  BY <1>1, AlwaysProcess, PTL

\* A command that run_finite returns has the whole of both outputs, whatever
\* the child reads and writes and leaves behind, in whatever order the ends of
\* the pipes and of the child are observed.
THEOREM CapturesAreComplete == Spec => []CapturesAreWhole
<1>1. ProcessInv => CapturesAreWhole
  <2> SUFFICES ASSUME ProcessInv, world.kind = "finite", step = "returned"
               PROVE  got = wrote /\ holder # "writes" /\ signals = {}
    BY DEF CapturesAreWhole
  <2>1. FiniteInv /\ reading = {}
    BY DEF ProcessInv, Finite, FiniteInv, Finished
  <2>2. \A p \in Outputs : pipe[p] = 0 /\ Eof /\ wrote[p] = got[p] + pipe[p]
    BY <2>1 DEF FiniteInv, Captured, Conserved
  <2>3. \A p \in Outputs : wrote[p] = got[p]
    BY <2>1, <2>2 DEF FiniteInv, FiniteTypeOK
  <2>4. got = wrote
    BY <2>1, <2>3 DEF FiniteInv, FiniteTypeOK
  <2>5. QED  BY <2>1, <2>2, <2>4 DEF FiniteInv, Unsignalled, Eof, Outputs
<1>2. QED  BY <1>1, AlwaysProcess, PTL

\* No stream of an SSH transport is closed under the thread that waits on it or
\* reads it, whatever timed out before (StderrDrain.close, stop_process, the
\* two joins of HelperConnection.close).
THEOREM ReadersKeepTheirStreams == Spec => []StreamOutlivesReader
<1>1. ProcessInv => StreamOutlivesReader
  BY DEF ProcessInv, ManagedInv, Streaming, Idle, StreamOutlivesReader
<1>2. QED  BY <1>1, AlwaysProcess, PTL
=============================================================================

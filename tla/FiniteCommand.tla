--------------------------- MODULE FiniteCommand ---------------------------
(***************************************************************************)
(* A finite local command, run_finite (controller/_processes.py): one      *)
(* thread feeds the input pipe, drains the two output pipes and observes   *)
(* the exit, under a deadline and cancellation.  The child is a program    *)
(* that reads, writes, may leave a process behind, and exits.              *)
(***************************************************************************)
EXTENDS LocalProcess

CONSTANTS
  Room,   \* the capacity of a pipe
  Input   \* the length of the input

ASSUME FiniteConstants == Room \in Nat \ {0} /\ Input \in Nat

VARIABLES
  pc,       \* the child's next instruction
  holder,   \* a process it left behind: none, writes, lingers, gone
  pipe,     \* what each pipe holds
  wrote,    \* what was written to each output, ever
  sent,     \* the part of the input that was delivered
  got,      \* what was captured of each output
  reading,  \* open_reads
  exited,   \* the exit was observed
  todo      \* what the last wait reported, as far as it is not handled

finiteVars == <<pc, holder, pipe, wrote, sent, got, reading, exited, todo>>

Outputs == {"out", "err"}
Nothing == [read |-> {}, write |-> FALSE, exit |-> FALSE, expired |-> FALSE]

FiniteInit ==
  /\ pc = 1 /\ holder = "none"
  /\ pipe = [p \in Outputs \cup {"in"} |-> 0]
  /\ wrote = [p \in Outputs |-> 0] /\ got = [p \in Outputs |-> 0]
  /\ sent = 0 /\ reading = {} /\ exited = FALSE /\ todo = Nothing

----------------------------------------------------------------------------
\* run_finite and _FiniteProcess

\* Mutant: the child is registered only when its constructor has returned.
LaunchUnregistered ==
  /\ step = "launch"
  /\ \/ step' = "raised" /\ UNCHANGED <<proc, open, reading>>
     \/ /\ world.faulty
        /\ step' = "raised" /\ proc' = "live"
        /\ open' = Outputs \cup {"in"} /\ UNCHANGED reading
     \/ /\ step' = "wait" /\ proc' = "live" /\ reading' = Outputs
        /\ open' = IF Input = 0 THEN Outputs ELSE Outputs \cup {"in"}
  /\ UNCHANGED <<world, signals, ending, reported,
                 pc, holder, pipe, wrote, sent, got, exited, todo>>

\* A latched cancellation admits no effect.  A launch that fails before there
\* is a child, or with one that could not execute the command, leaves nothing;
\* any later failure finds the child registered with its driver.
Launch ==
  /\ step = "launch"
  /\ \/ step' = "raised" /\ UNCHANGED <<proc, open, reading>>
     \/ step' = "raised" /\ proc' = "reaped" /\ UNCHANGED <<open, reading>>
     \/ /\ world.faulty
        /\ step' = "settle" /\ proc' = "live"
        /\ open' = Outputs \cup {"in"} /\ UNCHANGED reading
     \/ /\ step' = "wait" /\ proc' = "live" /\ reading' = Outputs
        /\ open' = IF Input = 0 THEN Outputs ELSE Outputs \cup {"in"}
  /\ UNCHANGED <<world, signals, ending, reported,
                 pc, holder, pipe, wrote, sent, got, exited, todo>>

\* Mutant: the command is over when its child is.
PendingExit == ~exited

\* The command is over at the end of both captures, of the input, and of the
\* child, each of which is observed for itself.
Pending == reading # {} \/ "in" \in open \/ ~exited

Eof == Gone /\ holder \in {"none", "gone"}

\* Mutant: the input is delivered before the outputs are read.
ReadableLater == IF "in" \in open THEN {} ELSE {p \in reading : pipe[p] > 0 \/ Eof}

Readable == {p \in reading : pipe[p] > 0 \/ Eof}

\* A process left behind holds the outputs only: the input's other end is the
\* child's.  One that kept the input, too, would refuse it only with its own
\* end, before which the captures do not end either.
Writable == "in" \in open /\ (pipe["in"] < Room \/ Gone)

Wait ==
  /\ step = "wait" /\ Pending
  /\ \E expired \in IF world.bounded THEN BOOLEAN ELSE {FALSE} :
       /\ todo' = [read |-> Readable, write |-> Writable,
                   exit |-> ~exited /\ Gone, expired |-> expired]
       /\ todo' # Nothing
  /\ step' = "handle"
  /\ UNCHANGED <<world, proc, signals, ending, open, reported,
                 pc, holder, pipe, wrote, sent, got, reading, exited>>

\* A wait dispatches a cancellation instead of returning readiness.
Interrupt ==
  /\ step = "wait" /\ Pending /\ world.faulty
  /\ step' = "settle"
  /\ UNCHANGED <<world, proc, signals, ending, open, reported, finiteVars>>

Read(p) ==
  /\ step = "handle" /\ p \in todo.read
  /\ todo' = [todo EXCEPT !.read = @ \ {p}]
  /\ reading' = IF pipe[p] = 0 THEN reading \ {p} ELSE reading
  /\ got' = [got EXCEPT ![p] = @ + pipe[p]]
  /\ pipe' = [pipe EXCEPT ![p] = 0]
  /\ UNCHANGED <<localVars, pc, holder, wrote, sent, exited>>

\* As much as fits; a child that has gone ends the delivery.
Write ==
  /\ step = "handle" /\ todo.read = {} /\ todo.write
  /\ LET room == Room - pipe["in"]
         n    == IF Input - sent < room THEN Input - sent ELSE room
     IN  IF Gone
         THEN sent' = Input /\ UNCHANGED pipe
         ELSE sent' = sent + n /\ pipe' = [pipe EXCEPT !["in"] = @ + n]
  /\ open' = IF sent' = Input THEN open \ {"in"} ELSE open
  /\ todo' = [todo EXCEPT !.write = FALSE]
  /\ UNCHANGED <<world, step, proc, signals, ending, reported,
                 pc, holder, wrote, got, reading, exited>>

\* The exit, and the deadline if there is still something to wait for.
Observe ==
  /\ step = "handle" /\ todo.read = {} /\ ~todo.write
  /\ exited' = (exited \/ todo.exit)
  /\ proc' = IF todo.exit THEN "reaped" ELSE proc
  /\ step' = IF todo.expired /\ (reading # {} \/ "in" \in open \/ ~exited')
             THEN "settle" ELSE "wait"
  /\ todo' = Nothing
  /\ UNCHANGED <<world, signals, ending, open, reported,
                 pc, holder, pipe, wrote, sent, got, reading>>

Return ==
  /\ step = "wait" /\ ~Pending
  /\ step' = "returned" /\ open' = {}
  /\ UNCHANGED <<world, proc, signals, ending, reported, finiteVars>>

Settle ==
  /\ step = "settle"
  /\ \/ /\ ending = "idle" /\ ending' = "poll" /\ UNCHANGED <<step, open>>
     \/ /\ ending = "done" /\ step' = "raised" /\ open' = {} /\ UNCHANGED ending
  /\ UNCHANGED <<world, proc, signals, reported, finiteVars>>

----------------------------------------------------------------------------
\* The child, and the process it may leave behind.

Instruction == IF pc \in DOMAIN world.script THEN world.script[pc] ELSE "exit"

ChildStep ==
  /\ proc = "live" /\ pc' = pc + 1
  /\ \/ /\ Instruction = "read"
        /\ \/ pipe["in"] > 0 /\ pipe' = [pipe EXCEPT !["in"] = @ - 1]
           \/ pipe["in"] = 0 /\ "in" \notin open /\ UNCHANGED pipe
        /\ UNCHANGED <<proc, wrote, holder>>
     \/ /\ Instruction \in Outputs /\ Instruction \in open
        /\ pipe[Instruction] < Room
        /\ pipe' = [pipe EXCEPT ![Instruction] = @ + 1]
        /\ wrote' = [wrote EXCEPT ![Instruction] = @ + 1]
        /\ UNCHANGED <<proc, holder>>
     \/ Instruction = "fork" /\ holder' = "writes" /\ UNCHANGED <<proc, pipe, wrote>>
     \/ Instruction = "exit" /\ proc' = "dead" /\ UNCHANGED <<pipe, wrote, holder>>
  /\ UNCHANGED <<world, step, signals, ending, open, reported,
                 sent, got, reading, exited, todo>>

HolderStep ==
  /\ \/ /\ holder = "writes" /\ "out" \in open /\ pipe["out"] < Room
        /\ pipe' = [pipe EXCEPT !["out"] = @ + 1]
        /\ wrote' = [wrote EXCEPT !["out"] = @ + 1]
        /\ holder' = "lingers"
     \/ /\ holder = "lingers" /\ ~world.lingers
        /\ holder' = "gone" /\ UNCHANGED <<pipe, wrote>>
  /\ UNCHANGED <<localVars, pc, sent, got, reading, exited, todo>>

----------------------------------------------------------------------------
Owner ==
  \/ Launch \/ Wait \/ Write \/ Observe \/ Return \/ Settle
  \/ \E p \in Outputs : Read(p)
  \/ TerminateProcess /\ UNCHANGED finiteVars

FiniteNext ==
  \/ Owner \/ Interrupt \/ ChildStep \/ HolderStep
  \/ DieOfSignal /\ UNCHANGED finiteVars

----------------------------------------------------------------------------
\* A command that returns has all its child and the processes it left behind
\* ever wrote to either capture, though the exit, the ends of the two captures
\* and of the input come in any order, and the exit status is the child's own.
CapturesAreWhole ==
  world.kind = "finite" /\ step = "returned" =>
    got = wrote /\ holder # "writes" /\ signals = {}
=============================================================================

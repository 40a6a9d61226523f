---------------------------- MODULE LocalProcess ----------------------------
(***************************************************************************)
(* A child process of the controller and the escalation that stops it,     *)
(* terminate_process (controller/_processes.py): what a finite command     *)
(* (FiniteCommand) and a long-lived SSH transport (ManagedProcess) share.  *)
(***************************************************************************)
EXTENDS Naturals, Sequences, FiniteSets

CONSTANT Worlds    \* what the environment may do, a set of World records

VARIABLES
  world,     \* constant in a behaviour
  step,      \* the next step of the thread that owns the child
  proc,      \* the child: none, live, dead (not reaped) or reaped
  signals,   \* the signals sent to it
  ending,    \* the next step of terminate_process, "idle", or "done"
  open,      \* the descriptors the owner has open
  reported   \* a failure of the cleanup was retained for the user

localVars == <<world, step, proc, signals, ending, open, reported>>

World ==
  [ kind    : {"finite", "managed"},
    script  : Seq({"read", "out", "err", "fork", "hang"}),  \* of a finite child
    bounded : BOOLEAN,   \* a finite command has a deadline
    heeds   : SUBSET {"TERM", "KILL"},  \* the signals the child dies of
    lingers : BOOLEAN,   \* an outside holder of its pipes never leaves
    stalls  : BOOLEAN,   \* a handler of its output may never return
    faulty  : BOOLEAN ]  \* calls of the system may fail, and the user cancels

Hangs(w) == "hang" \in {w.script[i] : i \in DOMAIN w.script}

\* Nobody waits without a deadline for what never ends.
ASSUME WorldsAssumption ==
  \A w \in Worlds : w.bounded \/ (~w.lingers /\ ~Hangs(w))

LocalInit ==
  /\ proc = "none" /\ signals = {} /\ ending = "idle"
  /\ open = {} /\ reported = FALSE

Gone == proc \in {"dead", "reaped"}

Reaped == IF proc = "dead" THEN "reaped" ELSE proc

----------------------------------------------------------------------------
\* terminate_process.  Popen's poll, wait and send_signal reap a dead child.

PollChild ==
  /\ ending = "poll"
  /\ ending' = IF Gone THEN "done" ELSE "TERM"
  /\ proc' = Reaped
  /\ UNCHANGED <<signals, reported>>

\* SIGTERM, with five seconds to heed it; failing that, SIGKILL.
Terminate ==
  /\ ending = "TERM"
  /\ proc' = Reaped
  /\ \/ /\ signals' = IF Gone THEN signals ELSE signals \cup {"TERM"}
        /\ ending' = "wait TERM" /\ UNCHANGED reported
     \/ /\ world.faulty
        /\ reported' = TRUE
        /\ ending' = IF Gone THEN "done" ELSE "KILL"
        /\ UNCHANGED signals

AwaitTerm ==
  /\ ending = "wait TERM"
  /\ \/ Gone /\ proc' = "reaped" /\ ending' = "done"
     \/ ending' = "KILL" /\ UNCHANGED proc
  /\ UNCHANGED <<signals, reported>>

Kill ==
  /\ ending = "KILL"
  /\ proc' = Reaped
  /\ \/ /\ signals' = IF Gone THEN signals ELSE signals \cup {"KILL"}
        /\ ending' = "wait KILL" /\ UNCHANGED reported
     \/ /\ world.faulty
        /\ reported' = TRUE
        /\ ending' = "done"
        /\ UNCHANGED signals

\* One second, then the failure to exit is an error even of a child that is
\* found dead by a last poll.
AwaitKill ==
  /\ ending = "wait KILL"
  /\ ending' = "done"
  /\ proc' = Reaped
  /\ \/ Gone /\ UNCHANGED reported
     \/ reported' = TRUE
  /\ UNCHANGED signals

TerminateProcess ==
  /\ PollChild \/ Terminate \/ AwaitTerm \/ Kill \/ AwaitKill
  /\ UNCHANGED <<world, step, open>>

----------------------------------------------------------------------------
\* A signal the child heeds ends it.
DieOfSignal ==
  /\ proc = "live" /\ signals \cap world.heeds # {}
  /\ proc' = "dead"
  /\ UNCHANGED <<world, step, signals, ending, open, reported>>

----------------------------------------------------------------------------
Over == step \in {"returned", "raised"}

\* When the work with a child is over, by whatever path, no child of it runs or
\* waits to be reaped and no descriptor is left open, unless the user was told:
\* launch, acquisition, rollback and cleanup never lose a child they made.  A
\* cleanup that reported a failure, the helper's late end included, is not
\* judged beyond it.
NothingRunsUnseen ==
  Over /\ ~reported => proc \in {"none", "reaped"} /\ open = {}

\* The work with a child ends: a finite command that has a deadline, or whose
\* child ends if it is fed and drained, never blocks on a full or an empty pipe;
\* the cleanup of a transport needs neither the end of a child that heeds no
\* signal, nor of an outside holder of its pipes, nor of a stalled handler.  Of
\* a connection it speaks up to the end of _cleanup_control_process.
ProcessWorkEnds == <>Over
=============================================================================

-------------------------- MODULE HelperLifecycle --------------------------
(***************************************************************************)
(* The helper's lifecycle authority (helper/lifecycle.py) under a caller   *)
(* that may make any call at any time, with any arguments the methods do   *)
(* not reject with an exception.  What holds here holds for every order in *)
(* which the session's observers can report to the coordinator.            *)
(*                                                                         *)
(* `told' is a history variable: every failure handed to the authority, in *)
(* order.  A call that returns False without an effect is a stutter, so an *)
(* action is enabled only when its call has an effect.                     *)
(***************************************************************************)
EXTENDS Lifecycle

CONSTANT MaxFailures    \* bound on the failures a behaviour reports

ASSUME MaxFailuresIsNat == MaxFailures \in Nat

VARIABLES lc, told

vars == <<lc, told>>

Tell(failure) ==
  IF failure = NoFailure THEN UNCHANGED told
  ELSE Len(told) < MaxFailures /\ told' = Append(told, failure)

Init == lc = Created /\ told = << >>

----------------------------------------------------------------------------
StartSession ==
  /\ lc.phase = "Created"
  /\ \E policy \in Policies, required \in SUBSET Evidence :
       /\ policy = "process_exit" => required = {}
       /\ lc' = Start(lc, policy, required)
  /\ UNCHANGED told

AdmitAttempt ==
  /\ lc.phase = "Starting" /\ lc.attempt.stage = "authorized"
  /\ \E admitted \in BOOLEAN :
       /\ lc' = EnterAttempt(lc, admitted)
       /\ Tell(IF admitted THEN NoFailure ELSE "ATTEMPT_ADMISSION")

Adopt ==
  /\ lc.phase \in {"Starting", "Terminating"}
  /\ lc.attempt.stage = "producing"
  /\ lc' = AdoptAttempt(lc)
  /\ UNCHANGED told

SeeEvidence ==
  /\ AwaitsReadiness(lc)
  /\ \E name \in lc.required \ lc.evidence : lc' = ObserveEvidence(lc, name)
  /\ UNCHANGED told

BecomeReady ==
  /\ AwaitsReadiness(lc)
  /\ \E childLive, admitted \in BOOLEAN :
       /\ lc' = Ready(lc, childLive, admitted)
       /\ Tell(IF lc'.phase = "Terminating" THEN "READY_ADMISSION" ELSE NoFailure)

SeeChildExit ==
  /\ lc.phase # "Closed" /\ InProduction(lc) /\ ~lc.attempt.result.seen
  /\ \E rc \in ReturnCodes : lc' = ObserveChildExit(lc, rc)
  /\ UNCHANGED told

SignalChild ==
  /\ lc' = RecordChildTermination(lc)
  /\ lc' # lc
  /\ UNCHANGED told

Settle ==
  /\ lc.attempt.stage # "settled"
  /\ lc' = SettleAttempt(lc, TRUE, TRUE)
  /\ lc' # lc
  /\ UNCHANGED told

Stop ==
  \E trigger \in Triggers, failure \in Failures \cup {NoFailure} :
    /\ ValidOutcome(trigger, failure, lc.attempt.result)
    /\ lc' = Terminate(lc, trigger, failure)
    /\ Tell(failure)

FreezeOnce ==
  \E cleanup \in Cleanups, log \in Logs :
    /\ CanFreeze(lc, cleanup, log)
    /\ lc' = Freeze(lc, cleanup, log)
    /\ UNCHANGED told

Next == \/ StartSession \/ AdmitAttempt \/ Adopt \/ SeeEvidence \/ BecomeReady
        \/ SeeChildExit \/ SignalChild \/ Settle \/ Stop \/ FreezeOnce

Spec == Init /\ [][Next]_vars

----------------------------------------------------------------------------
Results == {NoResult} \cup [seen : {TRUE}, returncode : ReturnCodes, requested : BOOLEAN]

Attempts == [stage : Stages, requested : BOOLEAN, result : Results]

Outcomes == [trigger : Triggers \cup {"none"}, primary : Failures \cup {NoFailure},
             diagnostics : Seq(Failures), result : Results]

Lifecycles ==
  [phase : Phases, policy : Policies \cup {"none"}, required : SUBSET Evidence,
   evidence : SUBSET Evidence, attempt : Attempts, outcome : Outcomes,
   cleanup : Cleanups, log : Logs, local : Seq(Failures)]

TypeOK == lc \in Lifecycles /\ told \in Seq(Failures)

Ending == lc.phase \in {"Terminating", "Closed"}

\* The failures a lifecycle holds, in the order a reader meets them.
Reports(l) ==
  IF l.outcome.primary = NoFailure THEN l.outcome.diagnostics \o l.local
  ELSE (<<l.outcome.primary>> \o l.outcome.diagnostics) \o l.local

\* What the outcome attributes the end of the operation to.
Established(outcome) ==
  IF ChildFailureIsPrimary(outcome) THEN "CHILD" ELSE outcome.primary

\* Every failure ever reported is kept, in the order of the reports: the
\* primary first, then the outcome's diagnostics, then those that came after
\* the snapshot was frozen (with_failure and terminate never drop or reorder).
FailuresKeepTheirOrder == told = Reports(lc)

\* Diagnostics without a primary exist only beside the natural child failure
\* that outranks them, so the client can always name what failed first.
SecondariesHaveAPrimary ==
  lc.outcome.diagnostics # << >> =>
    lc.outcome.primary # NoFailure \/ NaturalFailure(lc.outcome.result)

\* The terminal outcome and the attempt agree on the child's result however
\* the exit, the trigger, the settlement and the freeze interleave.
OutcomeKnowsTheResult == Ending => lc.outcome.result = lc.attempt.result

\* An Active session owns a child that has not been seen to exit.
ActiveOwnsLiveChild ==
  lc.phase = "Active" => lc.attempt.stage = "owned" /\ ~lc.attempt.result.seen

\* A natural nonzero exit can never be reported to the client as a success,
\* whatever was requested and whichever trigger ended the session.
NaturalFailureIsReported ==
  lc.phase = "Closed" /\ NaturalFailure(lc.attempt.result) =>
    \A policy \in Policies : SnapshotFailed(lc, policy)

\* A snapshot claims a disposed child only for an attempt that was settled or
\* never produced one.
ConfirmedDisposalIsSettled ==
  lc.phase = "Closed" /\ lc.cleanup.child # "unconfirmed" => ~InProduction(lc)

\* Termination is final: the first trigger stands, no later call returns to
\* Starting or Active, and after freeze() only the local diagnostics grow: the
\* snapshot sent to the client is the snapshot kept.
TerminationIsFinal ==
  [][/\ Ending => Ending' /\ lc'.outcome.trigger = lc.outcome.trigger
     /\ lc.phase = "Closed" =>
          [lc' EXCEPT !.local = << >>] = [lc EXCEPT !.local = << >>]]_vars

\* Once a failure is established as the operation's, no later failure or late
\* child exit replaces it.
EstablishedFailureStands ==
  [][Ending /\ Established(lc.outcome) # NoFailure =>
       Established(lc'.outcome) = Established(lc.outcome)]_vars

\* An observed exit is never replaced or re-attributed: a later signal cannot
\* turn a natural exit into a requested one.
ResultStands ==
  [][lc.attempt.result.seen => lc'.attempt.result = lc.attempt.result]_vars
============================================================================

----------------------------- MODULE Lifecycle -----------------------------
(***************************************************************************)
(* The transition functions of the helper's lifecycle authority            *)
(* (helper/lifecycle.py) and of the outcome it accumulates                 *)
(* (protocol/outcome.py), as operators from a lifecycle record to the next *)
(* one.  HelperLifecycle.tla lets a coordinator call them in any order;    *)
(* HelperSession.tla calls them as the session coordinator does.           *)
(*                                                                         *)
(* A method that returns False or finds nothing to do returns its argument *)
(* unchanged here.  A method that raises has a precondition operator.      *)
(***************************************************************************)
EXTENDS Integers, Sequences

CONSTANTS
  Evidence,     \* names of readiness evidence a START may require
  Failures,     \* diagnostics (their codes)
  NoFailure,    \* Python's None where a diagnostic is optional
  ReturnCodes   \* exit statuses of a child; 0 is success

ASSUME LifecycleConstants ==
  /\ NoFailure \notin Failures
  /\ {"ATTEMPT_ADMISSION", "READY_ADMISSION"} \subseteq Failures
  /\ ReturnCodes \subseteq Int

Policies == {"live_server", "process_exit"}

Triggers == {"controller_eof", "signal", "child_exit", "startup_failure",
             "protocol_failure", "output_failure", "helper_failure"}

\* An Outcome may carry no primary failure under these triggers only.
FailureFree == {"controller_eof", "child_exit"}

----------------------------------------------------------------------------
\* Child results.  `seen' is FALSE for Python's None.

NoResult == [seen |-> FALSE, returncode |-> 0, requested |-> FALSE]

ChildResult(rc, requested) ==
  [seen |-> TRUE, returncode |-> rc, requested |-> requested]

NaturalFailure(result) ==
  result.seen /\ ~result.requested /\ result.returncode # 0

----------------------------------------------------------------------------
\* Outcomes

NoOutcome == [trigger |-> "none", primary |-> NoFailure, diagnostics |-> << >>,
              result |-> NoResult]

\* Outcome.__post_init__ raises unless this holds.
ValidOutcome(trigger, failure, result) ==
  /\ trigger \in FailureFree \/ failure # NoFailure
  /\ trigger = "child_exit" => result.seen

ChildFailureIsPrimary(outcome) ==
  outcome.primary = NoFailure /\ NaturalFailure(outcome.result)

\* Mutants of WithFailure: the newest diagnostic first, and a late failure
\* that displaces a natural child failure.
WithFailureNewestFirst(outcome, failure) ==
  IF outcome.primary = NoFailure /\ ~ChildFailureIsPrimary(outcome)
  THEN [outcome EXCEPT !.primary = failure]
  ELSE [outcome EXCEPT !.diagnostics = <<failure>> \o @]

WithFailureOverChild(outcome, failure) ==
  IF outcome.primary = NoFailure THEN [outcome EXCEPT !.primary = failure]
  ELSE [outcome EXCEPT !.diagnostics = Append(@, failure)]

WithFailure(outcome, failure) ==
  IF outcome.primary = NoFailure /\ ~ChildFailureIsPrimary(outcome)
  THEN [outcome EXCEPT !.primary = failure]
  ELSE [outcome EXCEPT !.diagnostics = Append(@, failure)]

OutcomeFailed(outcome, policy) ==
  \/ outcome.primary # NoFailure
  \/ policy = "live_server" /\ NaturalFailure(outcome.result)
  \/ /\ policy = "process_exit"
     /\ \/ ~outcome.result.seen
        \/ outcome.result.requested
        \/ outcome.result.returncode # 0

----------------------------------------------------------------------------
\* Cleanup reports and the terminal snapshot

ChildDisposals     == {"not_acquired", "confirmed", "unconfirmed"}
WorkspaceDisposals == {"not_created", "confirmed", "unconfirmed"}
Cleanups == [child : ChildDisposals, workspace : WorkspaceDisposals]
Logs     == {"none", "complete", "incomplete"}

\* CleanupReport.__post_init__, over disposals whose residual lists agree.
ValidCleanup(cleanup) ==
  cleanup.child = "unconfirmed" => cleanup.workspace = "unconfirmed"

CleanupConfirmed(cleanup) ==
  cleanup.child # "unconfirmed" /\ cleanup.workspace # "unconfirmed"

\* TerminalSnapshot.__post_init__ raises unless this holds.
ValidSnapshot(outcome, cleanup, log) ==
  /\ cleanup.child = "not_acquired" => ~outcome.result.seen
  /\ log = "complete" => cleanup.child # "unconfirmed"
  /\ CleanupConfirmed(cleanup)
       \/ outcome.primary # NoFailure \/ outcome.diagnostics # << >>

SnapshotFailed(l, policy) ==
  ~CleanupConfirmed(l.cleanup) \/ OutcomeFailed(l.outcome, policy)

----------------------------------------------------------------------------
\* The lifecycle record.  `policy', `required' and `evidence' are the request
\* and the evidence of Starting and Active; Terminating drops them.

Phases == {"Created", "Starting", "Active", "Terminating", "Closed"}
Stages == {"none", "authorized", "producing", "owned", "settled"}

NoCleanup == [child |-> "not_acquired", workspace |-> "not_created"]

Attempt(stage) == [stage |-> stage, requested |-> FALSE, result |-> NoResult]

Created ==
  [phase |-> "Created", policy |-> "none", required |-> {}, evidence |-> {},
   attempt |-> Attempt("none"), outcome |-> NoOutcome, cleanup |-> NoCleanup,
   log |-> "none", local |-> << >>]

InProduction(l) == l.attempt.stage \in {"producing", "owned"}

Start(l, policy, required) ==
  [l EXCEPT !.phase = "Starting", !.policy = policy, !.required = required,
            !.attempt = Attempt("authorized")]

\* Mutants of Terminate: a None kept as a diagnostic, and a failure after
\* freeze() forgotten.
TerminateKeepsNone(l, trigger, failure) ==
  IF l.phase = "Closed" THEN [l EXCEPT !.local = Append(@, failure)]
  ELSE [l EXCEPT !.phase = "Terminating",
                 !.outcome = [@ EXCEPT !.trigger = trigger, !.primary = failure,
                                       !.result = l.attempt.result]]

TerminateForgetsLate(l, trigger, failure) ==
  IF l.phase = "Closed" THEN l
  ELSE IF l.phase = "Terminating" THEN
    IF failure = NoFailure THEN l
    ELSE [l EXCEPT !.outcome = WithFailure(@, failure)]
  ELSE
    [l EXCEPT !.phase = "Terminating", !.policy = "none", !.required = {},
              !.evidence = {},
              !.outcome = [trigger |-> trigger, primary |-> failure,
                           diagnostics |-> << >>,
                           result |-> l.attempt.result]]

Terminate(l, trigger, failure) ==
  IF l.phase = "Closed" THEN
    IF failure = NoFailure THEN l ELSE [l EXCEPT !.local = Append(@, failure)]
  ELSE IF l.phase = "Terminating" THEN
    IF failure = NoFailure THEN l
    ELSE [l EXCEPT !.outcome = WithFailure(@, failure)]
  ELSE
    [l EXCEPT !.phase = "Terminating", !.policy = "none", !.required = {},
              !.evidence = {},
              !.outcome = [trigger |-> trigger, primary |-> failure,
                           diagnostics |-> << >>,
                           result |-> l.attempt.result]]

EnterAttempt(l, admitted) ==
  IF l.phase # "Starting" \/ l.attempt.stage # "authorized" THEN l
  ELSE IF admitted THEN [l EXCEPT !.attempt = Attempt("producing")]
  ELSE Terminate(l, "output_failure", "ATTEMPT_ADMISSION")

AdoptAttempt(l) ==
  IF l.attempt.stage # "producing" \/ l.phase \notin {"Starting", "Terminating"}
  THEN l
  ELSE LET owned == [l EXCEPT !.attempt.stage = "owned"] IN
       IF l.phase = "Starting" /\ l.policy = "process_exit"
       THEN IF l.attempt.result.seen
            THEN Terminate(owned, "child_exit", NoFailure)
            ELSE [owned EXCEPT !.phase = "Active", !.evidence = {}]
       ELSE owned

\* A Starting live-server attempt that owns a child not yet seen to exit.
AwaitsReadiness(l) ==
  /\ l.phase = "Starting"
  /\ l.policy = "live_server"
  /\ l.attempt.stage = "owned"
  /\ ~l.attempt.result.seen

ObserveEvidence(l, name) ==
  IF AwaitsReadiness(l) /\ name \in l.required
  THEN [l EXCEPT !.evidence = @ \cup {name}] ELSE l

Ready(l, childLive, admitted) ==
  IF ~AwaitsReadiness(l) \/ ~(l.required \subseteq l.evidence) \/ ~childLive
  THEN l
  ELSE IF admitted THEN [l EXCEPT !.phase = "Active", !.evidence = {}]
  ELSE Terminate(l, "output_failure", "READY_ADMISSION")

ObserveChildExit(l, rc) ==
  IF ~InProduction(l) \/ l.phase = "Closed" \/ l.attempt.result.seen THEN l
  ELSE LET result == ChildResult(rc, l.attempt.requested)
           seen   == [l EXCEPT !.attempt.result = result]
       IN  CASE l.phase = "Terminating" -> [seen EXCEPT !.outcome.result = result]
             [] l.phase = "Active" -> Terminate(seen, "child_exit", NoFailure)
             [] OTHER -> seen

RecordChildTermination(l) ==
  IF l.phase = "Terminating" /\ InProduction(l) /\ ~l.attempt.result.seen
  THEN [l EXCEPT !.attempt.requested = TRUE] ELSE l

SettleAttempt(l, producerQuiescent, resourcesDisposed) ==
  IF /\ l.attempt.stage # "none" /\ l.phase \in {"Starting", "Terminating"}
     /\ producerQuiescent /\ resourcesDisposed
  THEN [l EXCEPT !.attempt = [Attempt("settled") EXCEPT !.result = l.attempt.result]]
  ELSE l

\* freeze() raises in any other state, or if the snapshot is not valid; in
\* Closed it only returns the snapshot it already has.
CanFreeze(l, cleanup, log) ==
  /\ l.phase = "Terminating"
  /\ InProduction(l) => cleanup.child = "unconfirmed"
  /\ ValidCleanup(cleanup)
  /\ ValidSnapshot(l.outcome, cleanup, log)

Freeze(l, cleanup, log) ==
  [l EXCEPT !.phase = "Closed", !.cleanup = cleanup, !.log = log]
============================================================================

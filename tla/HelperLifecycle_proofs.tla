----------------------- MODULE HelperLifecycle_proofs -----------------------
(***************************************************************************)
(* Proofs of what HelperLifecycle.tla states, for every set of evidence,   *)
(* failures and exit statuses and without a bound on the failures.         *)
(*                                                                         *)
(* Good is the inductive invariant, stated of a lifecycle and the failures *)
(* told so far, so that each transition of Lifecycle.tla gets a lemma of   *)
(* its own: it takes a good pair to a good pair.                           *)
(***************************************************************************)
EXTENDS HelperLifecycle, SequenceTheorems, TLAPS

Over(l) == l.phase \in {"Terminating", "Closed"}

Good(l, t) ==
  /\ l \in Lifecycles
  /\ t \in Seq(Failures)
  /\ ~Over(l) => l.outcome = NoOutcome
  /\ Over(l) => l.outcome.result = l.attempt.result
  /\ l.phase # "Closed" => l.local = << >>
  /\ l.phase = "Created" => l.attempt = Attempt("none")
  /\ l.phase = "Active" => l.attempt.stage = "owned" /\ ~l.attempt.result.seen
  /\ l.attempt.stage \in {"none", "authorized"} => l.attempt.result = NoResult
  /\ l.phase = "Closed" /\ InProduction(l) => l.cleanup.child = "unconfirmed"
  /\ l.outcome.diagnostics # << >> =>
       l.outcome.primary # NoFailure \/ NaturalFailure(l.outcome.result)
  /\ t = Reports(l)

\* The history after a call that may report a failure.
Extended(t, failure) == IF failure = NoFailure THEN t ELSE Append(t, failure)

----------------------------------------------------------------------------
LEMMA AppendConcat ==
  ASSUME NEW s \in Seq(Failures), NEW t \in Seq(Failures), NEW x \in Failures
  PROVE  Append(s \o t, x) = s \o Append(t, x)
<1>1. /\ s \o t \in Seq(Failures) /\ <<x>> \in Seq(Failures)
      /\ Append(t, x) = t \o <<x>> /\ Append(s \o t, x) = (s \o t) \o <<x>>
  BY ConcatProperties, AppendIsConcat
<1>2. QED  BY <1>1, ConcatAssociative

\* with_failure keeps every failure, in order.
LEMMA ReportsWithFailure ==
  ASSUME NEW l \in Lifecycles, NEW failure \in Failures,
         l.local = << >>,
         l.outcome.diagnostics # << >> =>
           l.outcome.primary # NoFailure \/ NaturalFailure(l.outcome.result)
  PROVE  LET n == [l EXCEPT !.outcome = WithFailure(@, failure)] IN
         /\ n \in Lifecycles
         /\ Reports(n) = Append(Reports(l), failure)
         /\ n.outcome.primary # NoFailure \/ NaturalFailure(n.outcome.result)
<1> DEFINE n == [l EXCEPT !.outcome = WithFailure(@, failure)]
           o == l.outcome
<1>0. failure # NoFailure  BY LifecycleConstants
<1>1. /\ o \in Outcomes /\ o.diagnostics \in Seq(Failures)
      /\ o.primary \in Failures \cup {NoFailure}
  BY DEF Lifecycles, Outcomes
<1>2. CASE o.primary = NoFailure /\ ~ChildFailureIsPrimary(o)
  <2>1. o.diagnostics = << >>  BY <1>2 DEF ChildFailureIsPrimary
  <2>2. n = [l EXCEPT !.outcome = [o EXCEPT !.primary = failure]]
    BY <1>2 DEF WithFailure
  <2>3. n \in Lifecycles  BY <2>2, <1>1 DEF Lifecycles, Outcomes
  <2>4. /\ n.outcome.primary = failure /\ n.outcome.diagnostics = << >>
        /\ n.local = << >>
    BY <2>1, <2>2, <1>1 DEF Lifecycles, Outcomes
  <2>5. Reports(l) = << >>  BY <2>1, <1>2 DEF Reports
  <2>6. Reports(n) = <<failure>>
    <3>1. <<failure>> \in Seq(Failures)  OBVIOUS
    <3>2. <<failure>> \o << >> = <<failure>>  BY <3>1, ConcatEmptySeq
    <3>3. QED  BY <2>4, <1>0, <3>2 DEF Reports
  <2>7. QED  BY <2>3, <2>4, <2>5, <2>6, <1>0
<1>3. CASE ~(o.primary = NoFailure /\ ~ChildFailureIsPrimary(o))
  <2>1. n = [l EXCEPT !.outcome = [o EXCEPT !.diagnostics = Append(@, failure)]]
    BY <1>3 DEF WithFailure
  <2> DEFINE d == Append(o.diagnostics, failure)
  <2>0. d \in Seq(Failures)  BY <1>1, AppendProperties
  <2>2. n \in Lifecycles
    <3>1. [o EXCEPT !.diagnostics = d] \in Outcomes
      BY <1>1, <2>0 DEF Outcomes
    <3>2. QED  BY <2>1, <3>1 DEF Lifecycles
  <2>3. /\ n.outcome.primary = o.primary /\ n.outcome.result = o.result
        /\ n.outcome.diagnostics = Append(o.diagnostics, failure)
        /\ n.local = << >>
    BY <2>1, <1>1 DEF Lifecycles, Outcomes
  <2>4. n.outcome.primary # NoFailure \/ NaturalFailure(n.outcome.result)
    BY <2>3, <1>3 DEF ChildFailureIsPrimary
  <2>5. Reports(n) = Append(Reports(l), failure)
    <3>1. CASE o.primary = NoFailure
      <4>1. Reports(l) = o.diagnostics
        BY <3>1, <1>1, ConcatEmptySeq DEF Reports
      <4>2. Reports(n) = Append(o.diagnostics, failure)
        <5>1. d \o << >> = d  BY <2>0, ConcatEmptySeq
        <5>2. QED  BY <3>1, <2>3, <5>1 DEF Reports
      <4>3. QED  BY <4>1, <4>2
    <3>2. CASE o.primary # NoFailure
      <4>1. <<o.primary>> \in Seq(Failures)  BY <3>2, <1>1
      <4>2. <<o.primary>> \o o.diagnostics \in Seq(Failures)
        BY <4>1, <1>1, ConcatProperties
      <4>3. Reports(l) = <<o.primary>> \o o.diagnostics
        BY <3>2, <4>2, ConcatEmptySeq DEF Reports
      <4>4. <<o.primary>> \o d \in Seq(Failures)
        BY <4>1, <2>0, ConcatProperties
      <4>5. Reports(n) = <<o.primary>> \o d
        BY <3>2, <2>3, <4>4, ConcatEmptySeq DEF Reports
      <4>6. Append(<<o.primary>> \o o.diagnostics, failure) = <<o.primary>> \o d
        BY <4>1, <1>1, AppendConcat
      <4>7. QED  BY <4>3, <4>5, <4>6
    <3>3. QED  BY <3>1, <3>2
  <2>6. QED  BY <2>2, <2>4, <2>5
<1>4. QED  BY <1>2, <1>3

\* So does a local diagnostic added after freeze().
LEMMA ReportsLocal ==
  ASSUME NEW l \in Lifecycles, NEW failure \in Failures
  PROVE  LET n == [l EXCEPT !.local = Append(@, failure)] IN
         n \in Lifecycles /\ Reports(n) = Append(Reports(l), failure)
<1> DEFINE n == [l EXCEPT !.local = Append(@, failure)]
           d == l.outcome.diagnostics
           p == l.outcome.primary
<1>1. /\ l.local \in Seq(Failures) /\ d \in Seq(Failures)
      /\ p \in Failures \cup {NoFailure}
  BY DEF Lifecycles, Outcomes
<1>2. Append(l.local, failure) \in Seq(Failures)  BY <1>1, AppendProperties
<1>3. n \in Lifecycles  BY <1>2 DEF Lifecycles
<1>4. n.outcome = l.outcome /\ n.local = Append(l.local, failure)
  BY DEF Lifecycles
<1>5. CASE p = NoFailure
  <2>1. Append(d \o l.local, failure) = d \o Append(l.local, failure)
    BY <1>1, AppendConcat
  <2>2. QED  BY <1>3, <1>4, <1>5, <2>1 DEF Reports
<1>6. CASE p # NoFailure
  <2>1. <<p>> \in Seq(Failures)  BY <1>1, <1>6
  <2>2. <<p>> \o d \in Seq(Failures)  BY <2>1, <1>1, ConcatProperties
  <2>3. Append((<<p>> \o d) \o l.local, failure)
          = (<<p>> \o d) \o Append(l.local, failure)
    BY <1>1, <2>2, AppendConcat
  <2>4. QED  BY <1>3, <1>4, <1>6, <2>3 DEF Reports
<1>7. QED  BY <1>5, <1>6

----------------------------------------------------------------------------
\* One lemma per transition of Lifecycle.tla.

\* The first termination.  It needs less than Good: an Active session's child
\* result is recorded just before.
LEMMA TerminateFresh ==
  ASSUME NEW l \in Lifecycles, ~Over(l), l.local = << >>,
         l.attempt.stage \in {"none", "authorized"} => l.attempt.result = NoResult,
         NEW trigger \in Triggers, NEW failure \in Failures \cup {NoFailure}
  PROVE  Good(Terminate(l, trigger, failure), Extended(<< >>, failure))
<1> DEFINE n == Terminate(l, trigger, failure)
           o == [trigger |-> trigger, primary |-> failure, diagnostics |-> << >>,
                 result |-> l.attempt.result]
<1>1. n = [l EXCEPT !.phase = "Terminating", !.policy = "none", !.required = {},
                    !.evidence = {}, !.outcome = o]
  BY DEF Terminate, Over
<1>2. l.attempt.result \in Results  BY DEF Lifecycles, Attempts
<1>3. o \in Outcomes  BY <1>2 DEF Outcomes
<1>4. n \in Lifecycles  BY <1>1, <1>3 DEF Lifecycles, Phases
<1>5. n.phase = "Terminating" /\ n.attempt = l.attempt /\ n.local = << >>
  BY <1>1 DEF Lifecycles
<1>6. n.outcome = o  BY <1>1 DEF Lifecycles
<1>7. Reports(n) = IF failure = NoFailure THEN << >> ELSE <<failure>>
  <2>1. failure # NoFailure => <<failure>> \in Seq(Failures)  OBVIOUS
  <2>2. failure # NoFailure => <<failure>> \o << >> = <<failure>>
    BY <2>1, ConcatEmptySeq
  <2>3. QED  BY <1>5, <1>6, <2>2 DEF Reports
<1>8. /\ Reports(n) = Extended(<< >>, failure)
      /\ Extended(<< >>, failure) \in Seq(Failures)
  BY <1>7 DEF Extended
<1>9. QED  BY <1>4, <1>5, <1>6, <1>8 DEF Good, Over

LEMMA TerminateGood ==
  ASSUME NEW l, NEW t, Good(l, t),
         NEW trigger \in Triggers, NEW failure \in Failures \cup {NoFailure}
  PROVE  Good(Terminate(l, trigger, failure), Extended(t, failure))
<1> DEFINE n == Terminate(l, trigger, failure)
<1>1. CASE Over(l) /\ failure = NoFailure
  BY <1>1 DEF Terminate, Over, Extended
<1>2. CASE l.phase = "Closed" /\ failure # NoFailure
  <2>1. n = [l EXCEPT !.local = Append(@, failure)]  BY <1>2 DEF Terminate
  <2>2. failure \in Failures /\ l \in Lifecycles  BY <1>2 DEF Good
  <2>3. /\ n \in Lifecycles /\ Reports(n) = Append(Reports(l), failure)
    BY <2>1, <2>2, ReportsLocal
  <2>4. Append(t, failure) \in Seq(Failures)  BY <2>2, AppendProperties DEF Good
  <2>5. /\ n.phase = "Closed" /\ n.outcome = l.outcome /\ n.attempt = l.attempt
        /\ n.cleanup = l.cleanup
    BY <1>2, <2>1 DEF Good, Lifecycles
  <2>6. QED
    BY <1>2, <2>3, <2>4, <2>5 DEF Good, Over, Extended, InProduction
<1>3. CASE l.phase = "Terminating" /\ failure # NoFailure
  <2>1. n = [l EXCEPT !.outcome = WithFailure(@, failure)]
    BY <1>3 DEF Terminate
  <2>2. /\ n \in Lifecycles /\ Reports(n) = Append(Reports(l), failure)
        /\ n.outcome.primary # NoFailure \/ NaturalFailure(n.outcome.result)
    BY <1>3, <2>1, ReportsWithFailure DEF Good
  <2>3. /\ n.phase = "Terminating" /\ n.attempt = l.attempt /\ n.local = l.local
        /\ n.outcome.result = l.outcome.result
    BY <1>3, <2>1 DEF Good, Lifecycles, WithFailure, Outcomes
  <2>4. Append(t, failure) \in Seq(Failures)
    BY <1>3, AppendProperties DEF Good
  <2>5. QED  BY <1>3, <2>2, <2>3, <2>4 DEF Good, Over, Extended, InProduction
<1>4. CASE ~Over(l)
  <2>1. t = << >>  BY <1>4 DEF Good, Over, Reports, NoOutcome
  <2>2. Good(n, Extended(<< >>, failure))
    BY <1>4, TerminateFresh DEF Good, Over
  <2>3. QED  BY <2>1, <2>2
<1>5. QED  BY <1>1, <1>2, <1>3, <1>4 DEF Over

LEMMA StartGood ==
  ASSUME NEW l, NEW t, Good(l, t), l.phase = "Created",
         NEW policy \in Policies, NEW required \in SUBSET Evidence
  PROVE  Good(Start(l, policy, required), t)
<1> DEFINE n == Start(l, policy, required)
<1>1. Attempt("authorized") \in Attempts
  BY DEF Attempt, Attempts, Stages, Results, NoResult
<1>2. n \in Lifecycles
  BY <1>1 DEF Start, Good, Lifecycles, Phases, Policies
<1>3. /\ n.phase = "Starting" /\ n.attempt = Attempt("authorized")
      /\ n.outcome = l.outcome /\ n.local = l.local
  BY DEF Start, Good, Lifecycles
<1>4. QED
  BY <1>2, <1>3 DEF Good, Over, Attempt, Reports

LEMMA EnterGood ==
  ASSUME NEW l, NEW t, Good(l, t), NEW admitted \in BOOLEAN,
         l.phase = "Starting", l.attempt.stage = "authorized"
  PROVE  Good(EnterAttempt(l, admitted),
              Extended(t, IF admitted THEN NoFailure ELSE "ATTEMPT_ADMISSION"))
<1>1. CASE admitted
  <2> DEFINE n == EnterAttempt(l, admitted)
  <2>1. n = [l EXCEPT !.attempt = Attempt("producing")]
    BY <1>1 DEF EnterAttempt
  <2>2. Attempt("producing") \in Attempts
    BY DEF Attempt, Attempts, Stages, Results, NoResult
  <2>3. n \in Lifecycles  BY <2>1, <2>2 DEF Good, Lifecycles
  <2>4. /\ n.phase = "Starting" /\ n.attempt = Attempt("producing")
        /\ n.outcome = l.outcome /\ n.local = l.local
    BY <2>1 DEF Good, Lifecycles
  <2>5. Good(n, t)  BY <2>3, <2>4 DEF Good, Over, Attempt, Reports
  <2>6. QED  BY <1>1, <2>5 DEF Extended
<1>2. CASE ~admitted
  <2>1. /\ EnterAttempt(l, admitted) =
             Terminate(l, "output_failure", "ATTEMPT_ADMISSION")
        /\ "output_failure" \in Triggers /\ "ATTEMPT_ADMISSION" \in Failures
    BY <1>2, LifecycleConstants DEF EnterAttempt, Triggers
  <2>2. QED  BY <1>2, <2>1, TerminateGood
<1>3. QED  BY <1>1, <1>2

LEMMA AdoptGood ==
  ASSUME NEW l, NEW t, Good(l, t)
  PROVE  Good(AdoptAttempt(l), t)
<1> DEFINE owned == [l EXCEPT !.attempt.stage = "owned"]
<1>1. CASE l.attempt.stage # "producing" \/ l.phase \notin {"Starting", "Terminating"}
  BY <1>1 DEF AdoptAttempt
<1>2. CASE l.attempt.stage = "producing" /\ l.phase \in {"Starting", "Terminating"}
  <2>1. l.attempt \in Attempts  BY DEF Good, Lifecycles
  <2>2. [l.attempt EXCEPT !.stage = "owned"] \in Attempts
    BY <2>1 DEF Attempts, Stages
  <2>3. owned \in Lifecycles
    <3>1. owned = [l EXCEPT !.attempt = [l.attempt EXCEPT !.stage = "owned"]]
      BY DEF Good, Lifecycles
    <3>2. QED  BY <2>2, <3>1 DEF Good, Lifecycles
  <2>4. /\ owned.phase = l.phase /\ owned.outcome = l.outcome
        /\ owned.local = l.local /\ owned.attempt.stage = "owned"
        /\ owned.attempt.result = l.attempt.result
    BY <2>1 DEF Good, Lifecycles, Attempts
  <2>5. Good(owned, t)
    BY <1>2, <2>3, <2>4 DEF Good, Over, Reports
  <2>6. CASE l.phase = "Starting" /\ l.policy = "process_exit" /\ l.attempt.result.seen
    <3>1. Good(Terminate(owned, "child_exit", NoFailure), Extended(t, NoFailure))
      BY <2>5, TerminateGood DEF Triggers
    <3>2. QED  BY <1>2, <2>6, <3>1 DEF AdoptAttempt, Extended
  <2>7. CASE l.phase = "Starting" /\ l.policy = "process_exit" /\ ~l.attempt.result.seen
    <3> DEFINE n == [owned EXCEPT !.phase = "Active", !.evidence = {}]
    <3>1. n \in Lifecycles  BY <2>3 DEF Lifecycles, Phases
    <3>2. /\ n.phase = "Active" /\ n.outcome = owned.outcome
          /\ n.local = owned.local /\ n.attempt = owned.attempt
      BY <2>3 DEF Lifecycles
    <3>3. Good(n, t)
      BY <2>4, <2>5, <2>7, <3>1, <3>2 DEF Good, Over, Reports
    <3>4. QED  BY <1>2, <2>7, <3>3 DEF AdoptAttempt
  <2>8. CASE ~(l.phase = "Starting" /\ l.policy = "process_exit")
    BY <1>2, <2>5, <2>8 DEF AdoptAttempt
  <2>9. QED  BY <2>6, <2>7, <2>8
<1>3. QED  BY <1>1, <1>2

LEMMA EvidenceGood ==
  ASSUME NEW l, NEW t, Good(l, t), NEW name
  PROVE  Good(ObserveEvidence(l, name), t)
<1>1. CASE AwaitsReadiness(l) /\ name \in l.required
  <2> DEFINE n == [l EXCEPT !.evidence = @ \cup {name}]
  <2>1. n \in Lifecycles  BY <1>1 DEF Good, Lifecycles
  <2>2. /\ n.phase = l.phase /\ n.outcome = l.outcome /\ n.local = l.local
        /\ n.attempt = l.attempt /\ n.cleanup = l.cleanup
    BY DEF Good, Lifecycles
  <2>3. Good(n, t)  BY <2>1, <2>2 DEF Good, Over, Reports, InProduction
  <2>4. QED  BY <1>1, <2>3 DEF ObserveEvidence
<1>2. QED  BY <1>1 DEF ObserveEvidence

LEMMA ReadyGood ==
  ASSUME NEW l, NEW t, Good(l, t), AwaitsReadiness(l),
         NEW childLive \in BOOLEAN, NEW admitted \in BOOLEAN
  PROVE  LET n == Ready(l, childLive, admitted) IN
         Good(n, Extended(t, IF n.phase = "Terminating" THEN "READY_ADMISSION"
                             ELSE NoFailure))
<1> DEFINE n == Ready(l, childLive, admitted)
<1>1. CASE n = l
  BY <1>1 DEF AwaitsReadiness, Extended
<1>2. CASE n = [l EXCEPT !.phase = "Active", !.evidence = {}]
  <2>1. n \in Lifecycles  BY <1>2 DEF Good, Lifecycles, Phases
  <2>2. /\ n.phase = "Active" /\ n.outcome = l.outcome /\ n.local = l.local
        /\ n.attempt = l.attempt
    BY <1>2 DEF Good, Lifecycles
  <2>3. Good(n, t)
    BY <2>1, <2>2 DEF Good, Over, Reports, AwaitsReadiness
  <2>4. QED  BY <2>2, <2>3 DEF Extended
<1>3. CASE n = Terminate(l, "output_failure", "READY_ADMISSION")
  <2>1. "output_failure" \in Triggers /\ "READY_ADMISSION" \in Failures
    BY LifecycleConstants DEF Triggers
  <2>2. Good(n, Extended(t, "READY_ADMISSION"))
    BY <1>3, <2>1, TerminateGood
  <2>3. n.phase = "Terminating"
    BY <1>3 DEF Terminate, AwaitsReadiness, Good, Lifecycles
  <2>4. QED  BY <2>2, <2>3
<1>4. QED  BY <1>1, <1>2, <1>3 DEF Ready

LEMMA ExitGood ==
  ASSUME NEW l, NEW t, Good(l, t), NEW rc \in ReturnCodes
  PROVE  Good(ObserveChildExit(l, rc), t)
<1> DEFINE result == ChildResult(rc, l.attempt.requested)
           seen   == [l EXCEPT !.attempt.result = result]
<1>1. CASE ~InProduction(l) \/ l.phase = "Closed" \/ l.attempt.result.seen
  BY <1>1 DEF ObserveChildExit
<1>2. CASE InProduction(l) /\ l.phase # "Closed" /\ ~l.attempt.result.seen
  <2>1. l.attempt \in Attempts /\ result \in Results /\ result.seen
    BY DEF Good, Lifecycles, Attempts, Results, ChildResult
  <2>2. [l.attempt EXCEPT !.result = result] \in Attempts
    BY <2>1 DEF Attempts
  <2>3. seen \in Lifecycles
    <3>1. seen = [l EXCEPT !.attempt = [l.attempt EXCEPT !.result = result]]
      BY DEF Good, Lifecycles
    <3>2. QED  BY <2>2, <3>1 DEF Good, Lifecycles
  <2>4. /\ seen.phase = l.phase /\ seen.outcome = l.outcome /\ seen.local = l.local
        /\ seen.attempt.stage = l.attempt.stage /\ seen.attempt.result = result
    BY <2>1 DEF Good, Lifecycles, Attempts
  <2>5. l.attempt.stage \in {"producing", "owned"}  BY <1>2 DEF InProduction
  <2>6. CASE l.phase = "Terminating"
    <3> DEFINE n == [seen EXCEPT !.outcome.result = result]
    <3>1. l.outcome \in Outcomes /\ [l.outcome EXCEPT !.result = result] \in Outcomes
      BY <2>1 DEF Good, Lifecycles, Outcomes
    <3>2. n = [seen EXCEPT !.outcome = [l.outcome EXCEPT !.result = result]]
      BY <2>3, <2>4 DEF Lifecycles
    <3>3. n \in Lifecycles  BY <2>3, <3>1, <3>2 DEF Lifecycles
    <3>4. /\ n.phase = "Terminating" /\ n.local = l.local
          /\ n.attempt = seen.attempt /\ n.outcome.result = result
          /\ n.outcome.primary = l.outcome.primary
          /\ n.outcome.diagnostics = l.outcome.diagnostics
      BY <2>3, <2>4, <2>6, <3>1, <3>2 DEF Lifecycles, Outcomes
    <3>5. l.outcome.diagnostics # << >> => l.outcome.primary # NoFailure
      BY <1>2, <2>6 DEF Good, Over, NaturalFailure
    <3>6. Good(n, t)
      BY <2>4, <2>5, <2>6, <3>3, <3>4, <3>5 DEF Good, Over, Reports
    <3>7. QED  BY <1>2, <2>6, <3>6 DEF ObserveChildExit
  <2>7. CASE l.phase = "Active"
    <3>1. /\ seen.outcome = NoOutcome /\ seen.local = << >> /\ t = << >>
          /\ l.attempt.stage = "owned"
      BY <2>4, <2>7 DEF Good, Over, Reports, NoOutcome
    <3>2. Good(Terminate(seen, "child_exit", NoFailure), Extended(<< >>, NoFailure))
      BY <2>3, <2>4, <2>7, <3>1, TerminateFresh DEF Over, Triggers
    <3>3. QED  BY <1>2, <2>7, <3>1, <3>2 DEF ObserveChildExit, Extended
  <2>8. CASE l.phase \notin {"Terminating", "Active"}
    <3>1. Good(seen, t)
      BY <1>2, <2>3, <2>4, <2>5, <2>8 DEF Good, Over, Reports, Attempt
    <3>2. QED  BY <1>2, <2>8, <3>1 DEF ObserveChildExit
  <2>9. QED  BY <2>6, <2>7, <2>8
<1>3. QED  BY <1>1, <1>2

LEMMA SignalledGood ==
  ASSUME NEW l, NEW t, Good(l, t)
  PROVE  Good(RecordChildTermination(l), t)
<1> DEFINE n == [l EXCEPT !.attempt.requested = TRUE]
<1>1. l.attempt \in Attempts  BY DEF Good, Lifecycles
<1>2. [l.attempt EXCEPT !.requested = TRUE] \in Attempts  BY <1>1 DEF Attempts
<1>3. n \in Lifecycles
  <2>1. n = [l EXCEPT !.attempt = [l.attempt EXCEPT !.requested = TRUE]]
    BY DEF Good, Lifecycles
  <2>2. QED  BY <1>2, <2>1 DEF Good, Lifecycles
<1>4. /\ n.phase = l.phase /\ n.outcome = l.outcome /\ n.local = l.local
      /\ n.attempt.stage = l.attempt.stage /\ n.attempt.result = l.attempt.result
  BY <1>1 DEF Good, Lifecycles, Attempts
<1>5. l.phase = "Terminating" => Good(n, t)
  BY <1>3, <1>4 DEF Good, Over, Reports
<1>6. QED  BY <1>5 DEF RecordChildTermination

LEMMA SettleGood ==
  ASSUME NEW l, NEW t, Good(l, t)
  PROVE  Good(SettleAttempt(l, TRUE, TRUE), t)
<1> DEFINE settled == [Attempt("settled") EXCEPT !.result = l.attempt.result]
           n       == [l EXCEPT !.attempt = settled]
<1>1. l.attempt.result \in Results  BY DEF Good, Lifecycles, Attempts
<1>2. /\ settled \in Attempts /\ settled.stage = "settled"
      /\ settled.result = l.attempt.result
  BY <1>1 DEF Attempt, Attempts, Stages
<1>3. n \in Lifecycles  BY <1>2 DEF Good, Lifecycles
<1>4. /\ n.phase = l.phase /\ n.outcome = l.outcome /\ n.local = l.local
      /\ n.attempt = settled
  BY DEF Good, Lifecycles
<1>5. l.phase \in {"Starting", "Terminating"} => Good(n, t)
  BY <1>2, <1>3, <1>4 DEF Good, Over, Reports
<1>6. QED  BY <1>5 DEF SettleAttempt

LEMMA FreezeGood ==
  ASSUME NEW l, NEW t, Good(l, t), NEW cleanup \in Cleanups, NEW log \in Logs,
         CanFreeze(l, cleanup, log)
  PROVE  Good(Freeze(l, cleanup, log), t)
<1> DEFINE n == Freeze(l, cleanup, log)
<1>1. n \in Lifecycles  BY DEF Freeze, Good, Lifecycles, Phases
<1>2. /\ n.phase = "Closed" /\ n.outcome = l.outcome /\ n.local = l.local
      /\ n.attempt = l.attempt /\ n.cleanup = cleanup
  BY DEF Freeze, Good, Lifecycles
<1>3. l.phase = "Terminating"  BY DEF CanFreeze
<1>4. InProduction(n) => cleanup.child = "unconfirmed"
  BY <1>2 DEF CanFreeze, InProduction
<1>5. QED  BY <1>1, <1>2, <1>3, <1>4 DEF Good, Over, Reports

----------------------------------------------------------------------------
\* The invariant.

LEMMA InitGood == Init => Good(lc, told)
<1> SUFFICES ASSUME Init PROVE Good(lc, told)
  OBVIOUS
<1>1. lc = Created /\ told = << >>  BY DEF Init
<1>2. Created \in Lifecycles
  <2>1. NoResult \in Results  BY DEF NoResult, Results
  <2>2. Attempt("none") \in Attempts
    BY <2>1 DEF Attempt, Attempts, Stages
  <2>3. NoOutcome \in Outcomes  BY <2>1 DEF NoOutcome, Outcomes
  <2>4. NoCleanup \in Cleanups
    BY DEF NoCleanup, Cleanups, ChildDisposals, WorkspaceDisposals
  <2>5. QED  BY <2>2, <2>3, <2>4 DEF Created, Lifecycles, Phases, Logs
<1>3. Reports(Created) = << >>  BY DEF Reports, Created, NoOutcome
<1>4. QED
  BY <1>1, <1>2, <1>3 DEF Good, Over, Created, Attempt, NoOutcome, InProduction

LEMMA StepGood == Good(lc, told) /\ [Next]_vars => Good(lc, told)'
<1> SUFFICES ASSUME Good(lc, told), [Next]_vars PROVE Good(lc', told')
  BY DEF Good
<1>1. CASE StartSession
  BY <1>1, StartGood DEF StartSession
<1>2. CASE AdmitAttempt
  <2>1. PICK admitted \in BOOLEAN :
          /\ lc' = EnterAttempt(lc, admitted)
          /\ Tell(IF admitted THEN NoFailure ELSE "ATTEMPT_ADMISSION")
    BY <1>2 DEF AdmitAttempt
  <2>2. told' = Extended(told, IF admitted THEN NoFailure ELSE "ATTEMPT_ADMISSION")
    BY <2>1 DEF Tell, Extended
  <2>3. QED  BY <1>2, <2>1, <2>2, EnterGood DEF AdmitAttempt
<1>3. CASE Adopt
  BY <1>3, AdoptGood DEF Adopt
<1>4. CASE SeeEvidence
  BY <1>4, EvidenceGood DEF SeeEvidence
<1>5. CASE BecomeReady
  <2>1. PICK childLive \in BOOLEAN, admitted \in BOOLEAN :
          /\ lc' = Ready(lc, childLive, admitted)
          /\ Tell(IF lc'.phase = "Terminating" THEN "READY_ADMISSION" ELSE NoFailure)
    BY <1>5 DEF BecomeReady
  <2>2. told' = Extended(told, IF lc'.phase = "Terminating" THEN "READY_ADMISSION"
                               ELSE NoFailure)
    BY <2>1 DEF Tell, Extended
  <2>3. AwaitsReadiness(lc)  BY <1>5 DEF BecomeReady
  <2>4. QED  BY <2>1, <2>2, <2>3, ReadyGood
<1>6. CASE SeeChildExit
  BY <1>6, ExitGood DEF SeeChildExit
<1>7. CASE SignalChild
  BY <1>7, SignalledGood DEF SignalChild
<1>8. CASE Settle
  BY <1>8, SettleGood DEF Settle
<1>9. CASE Stop
  <2>1. PICK trigger \in Triggers, failure \in Failures \cup {NoFailure} :
          lc' = Terminate(lc, trigger, failure) /\ Tell(failure)
    BY <1>9 DEF Stop
  <2>2. told' = Extended(told, failure)  BY <2>1 DEF Tell, Extended
  <2>3. QED  BY <2>1, <2>2, TerminateGood
<1>10. CASE FreezeOnce
  BY <1>10, FreezeGood DEF FreezeOnce
<1>11. CASE UNCHANGED vars
  BY <1>11 DEF vars
<1>12. QED
  BY <1>1, <1>2, <1>3, <1>4, <1>5, <1>6, <1>7, <1>8, <1>9, <1>10, <1>11 DEF Next

LEMMA AlwaysGood == Spec => []Good(lc, told)
<1>1. QED  BY InitGood, StepGood, PTL DEF Spec

----------------------------------------------------------------------------
\* What follows for every reachable state.

\* The lifecycle and the history are always of their types.
THEOREM TypeCorrect == Spec => []TypeOK
<1>1. Good(lc, told) => TypeOK  BY DEF Good, TypeOK
<1>2. QED  BY <1>1, AlwaysGood, PTL

\* No report of a failure is lost, repeated or reordered by with_failure,
\* terminate and the rest, however they are called.
THEOREM FailuresKept == Spec => []FailuresKeepTheirOrder
<1>1. Good(lc, told) => FailuresKeepTheirOrder
  BY DEF Good, FailuresKeepTheirOrder
<1>2. QED  BY <1>1, AlwaysGood, PTL

\* Secondary diagnostics never stand without something they are secondary to.
THEOREM PrimaryKnown == Spec => []SecondariesHaveAPrimary
<1>1. Good(lc, told) => SecondariesHaveAPrimary
  BY DEF Good, SecondariesHaveAPrimary
<1>2. QED  BY <1>1, AlwaysGood, PTL

\* The outcome and the attempt agree on the child's result.
THEOREM ResultAgreed == Spec => []OutcomeKnowsTheResult
<1>1. Good(lc, told) => OutcomeKnowsTheResult
  BY DEF Good, OutcomeKnowsTheResult, Ending, Over
<1>2. QED  BY <1>1, AlwaysGood, PTL

\* Active means a child is owned and not known to have exited.
THEOREM ActiveIsLive == Spec => []ActiveOwnsLiveChild
<1>1. Good(lc, told) => ActiveOwnsLiveChild
  BY DEF Good, ActiveOwnsLiveChild
<1>2. QED  BY <1>1, AlwaysGood, PTL

\* A child that failed by itself fails the operation under either policy.
THEOREM NaturalFailureStands == Spec => []NaturalFailureIsReported
<1>1. Good(lc, told) => NaturalFailureIsReported
  <2> SUFFICES ASSUME Good(lc, told), lc.phase = "Closed",
                      NaturalFailure(lc.attempt.result), NEW policy \in Policies
               PROVE  SnapshotFailed(lc, policy)
    BY DEF NaturalFailureIsReported
  <2>1. NaturalFailure(lc.outcome.result)  BY DEF Good, Over
  <2>2. OutcomeFailed(lc.outcome, policy)
    BY <2>1 DEF OutcomeFailed, NaturalFailure, Policies
  <2>3. QED  BY <2>2 DEF SnapshotFailed
<1>2. QED  BY <1>1, AlwaysGood, PTL

\* A snapshot claims the child disposed of only for a settled attempt.
THEOREM DisposalSettled == Spec => []ConfirmedDisposalIsSettled
<1>1. Good(lc, told) => ConfirmedDisposalIsSettled
  BY DEF Good, ConfirmedDisposalIsSettled
<1>2. QED  BY <1>1, AlwaysGood, PTL

----------------------------------------------------------------------------
\* What no step may change.

Stands(l, n) ==
  /\ Over(l) => Over(n) /\ n.outcome.trigger = l.outcome.trigger
  /\ l.phase = "Closed" => [n EXCEPT !.local = << >>] = [l EXCEPT !.local = << >>]
  /\ Over(l) /\ Established(l.outcome) # NoFailure =>
       Established(n.outcome) = Established(l.outcome)
  /\ l.attempt.result.seen => n.attempt.result = l.attempt.result

LEMMA TerminateStands ==
  ASSUME NEW l, NEW t, Good(l, t), NEW trigger, NEW failure
  PROVE  Stands(l, Terminate(l, trigger, failure))
<1> DEFINE n == Terminate(l, trigger, failure)
<1>1. CASE n = l
  BY <1>1 DEF Stands
<1>2. CASE l.phase = "Closed" /\ n = [l EXCEPT !.local = Append(@, failure)]
  <2>1. /\ n.phase = l.phase /\ n.outcome = l.outcome /\ n.attempt = l.attempt
        /\ [n EXCEPT !.local = << >>] = [l EXCEPT !.local = << >>]
    BY <1>2 DEF Good, Lifecycles
  <2>2. QED  BY <2>1 DEF Stands, Over
<1>3. CASE /\ l.phase = "Terminating"
           /\ n = [l EXCEPT !.outcome = WithFailure(@, failure)]
  <2>1. /\ n.phase = l.phase /\ n.attempt = l.attempt
        /\ n.outcome = WithFailure(l.outcome, failure)
    BY <1>3 DEF Good, Lifecycles
  <2>2. /\ l.outcome \in Outcomes
        /\ n.outcome.trigger = l.outcome.trigger
        /\ n.outcome.result = l.outcome.result
        /\ Established(l.outcome) # NoFailure => n.outcome.primary = l.outcome.primary
    BY <2>1 DEF Good, Lifecycles, Outcomes, WithFailure, Established
  <2>3. Established(l.outcome) # NoFailure =>
          Established(n.outcome) = Established(l.outcome)
    BY <2>2 DEF Established, ChildFailureIsPrimary
  <2>4. QED  BY <1>3, <2>1, <2>2, <2>3 DEF Stands, Over
<1>4. CASE ~Over(l)
  <2>1. n.attempt = l.attempt
    BY <1>4 DEF Good, Lifecycles, Terminate, Over
  <2>2. QED  BY <1>4, <2>1 DEF Stands, Over
<1>5. QED  BY <1>1, <1>2, <1>3, <1>4 DEF Terminate, Over

LEMMA StepStands == Good(lc, told) /\ [Next]_vars => Stands(lc, lc')
<1> SUFFICES ASSUME Good(lc, told), [Next]_vars PROVE Stands(lc, lc')
  OBVIOUS
<1>1. CASE StartSession
  <2>1. ~Over(lc) /\ ~lc.attempt.result.seen
    BY <1>1 DEF StartSession, Good, Over, Attempt, NoResult
  <2>2. QED  BY <2>1 DEF Stands, Over
<1>2. CASE AdmitAttempt
  <2>1. ~Over(lc) /\ ~lc.attempt.result.seen
    BY <1>2 DEF AdmitAttempt, Good, Over, NoResult
  <2>2. QED  BY <2>1 DEF Stands, Over
<1>3. CASE Adopt
  <2> DEFINE owned == [lc EXCEPT !.attempt.stage = "owned"]
  <2>1. lc' = AdoptAttempt(lc) /\ lc.phase \in {"Starting", "Terminating"}
    BY <1>3 DEF Adopt
  <2>2. /\ owned.phase = lc.phase /\ owned.outcome = lc.outcome
        /\ owned.attempt.result = lc.attempt.result
    BY DEF Good, Lifecycles, Attempts
  <2>3. CASE lc.phase = "Terminating"
    <3>1. lc' = owned
      BY <1>3, <2>1, <2>3 DEF Adopt, AdoptAttempt
    <3>2. QED  BY <2>2, <2>3, <3>1 DEF Stands, Over
  <2>4. CASE lc.phase = "Starting"
    <3>1. lc'.attempt.result = lc.attempt.result
      BY <1>3, <2>1, <2>4
      DEF Adopt, AdoptAttempt, Terminate, Good, Lifecycles, Attempts
    <3>2. QED  BY <2>4, <3>1 DEF Stands, Over
  <2>5. QED  BY <2>1, <2>3, <2>4
<1>4. CASE SeeEvidence
  <2>1. /\ lc.phase = "Starting" /\ lc'.attempt = lc.attempt
    BY <1>4 DEF SeeEvidence, AwaitsReadiness, ObserveEvidence, Good, Lifecycles
  <2>2. QED  BY <2>1 DEF Stands, Over
<1>5. CASE BecomeReady
  <2>1. lc.phase = "Starting" /\ ~lc.attempt.result.seen
    BY <1>5 DEF BecomeReady, AwaitsReadiness
  <2>2. QED  BY <2>1 DEF Stands, Over
<1>6. CASE SeeChildExit
  <2>1. PICK rc \in ReturnCodes : lc' = ObserveChildExit(lc, rc)
    BY <1>6 DEF SeeChildExit
  <2>2. InProduction(lc) /\ lc.phase # "Closed" /\ ~lc.attempt.result.seen
    BY <1>6 DEF SeeChildExit
  <2>3. CASE lc.phase = "Terminating"
    <3> DEFINE result == ChildResult(rc, lc.attempt.requested)
    <3>1. lc' = [[lc EXCEPT !.attempt.result = result] EXCEPT !.outcome.result = result]
      BY <2>1, <2>2, <2>3 DEF ObserveChildExit
    <3>2. /\ lc'.phase = "Terminating" /\ lc.outcome \in Outcomes
          /\ lc'.outcome = [lc.outcome EXCEPT !.result = result]
      BY <2>3, <3>1 DEF Good, Lifecycles
    <3>3. ~ChildFailureIsPrimary(lc.outcome)
      BY <2>2, <2>3 DEF ChildFailureIsPrimary, NaturalFailure, Good, Over
    <3>4. /\ lc'.outcome.trigger = lc.outcome.trigger
          /\ lc'.outcome.primary = lc.outcome.primary
      BY <3>2 DEF Outcomes
    <3>5. Established(lc.outcome) # NoFailure =>
            Established(lc'.outcome) = Established(lc.outcome)
      BY <3>3, <3>4 DEF Established, ChildFailureIsPrimary
    <3>6. QED  BY <2>2, <2>3, <3>2, <3>4, <3>5 DEF Stands, Over
  <2>4. CASE lc.phase # "Terminating"
    BY <2>2, <2>4 DEF Stands, Over
  <2>5. QED  BY <2>3, <2>4
<1>7. CASE SignalChild
  <2>1. /\ lc.phase = "Terminating" /\ lc' = [lc EXCEPT !.attempt.requested = TRUE]
    BY <1>7 DEF SignalChild, RecordChildTermination
  <2>2. /\ lc'.phase = lc.phase /\ lc'.outcome = lc.outcome
        /\ lc'.attempt.result = lc.attempt.result
    BY <2>1 DEF Good, Lifecycles, Attempts
  <2>3. QED  BY <2>1, <2>2 DEF Stands, Over
<1>8. CASE Settle
  <2>1. /\ lc.phase # "Closed"
        /\ lc' = [lc EXCEPT !.attempt = [Attempt("settled") EXCEPT
                                           !.result = lc.attempt.result]]
    BY <1>8 DEF Settle, SettleAttempt
  <2>2. /\ lc'.phase = lc.phase /\ lc'.outcome = lc.outcome
        /\ lc'.attempt.result = lc.attempt.result
    BY <2>1 DEF Good, Lifecycles, Attempt
  <2>3. QED  BY <2>1, <2>2 DEF Stands, Over
<1>9. CASE Stop
  BY <1>9, TerminateStands DEF Stop
<1>10. CASE FreezeOnce
  <2>1. /\ lc.phase = "Terminating" /\ lc'.phase = "Closed"
        /\ lc'.outcome = lc.outcome /\ lc'.attempt = lc.attempt
    BY <1>10 DEF FreezeOnce, CanFreeze, Freeze, Good, Lifecycles
  <2>2. QED  BY <2>1 DEF Stands, Over
<1>11. CASE UNCHANGED vars
  BY <1>11 DEF vars, Stands
<1>12. QED
  BY <1>1, <1>2, <1>3, <1>4, <1>5, <1>6, <1>7, <1>8, <1>9, <1>10, <1>11 DEF Next

\* The first trigger is the outcome's for good, and a frozen snapshot is the
\* snapshot for good.
THEOREM TerminationFinal == Spec => TerminationIsFinal
<1>1. Good(lc, told) /\ [Next]_vars =>
        [/\ Ending => Ending' /\ lc'.outcome.trigger = lc.outcome.trigger
         /\ lc.phase = "Closed" =>
              [lc' EXCEPT !.local = << >>] = [lc EXCEPT !.local = << >>]]_vars
  BY StepStands DEF Stands, Over, Ending
<1>2. QED  BY <1>1, AlwaysGood, PTL DEF Spec, TerminationIsFinal

\* What the end was first attributed to, a failure or the child, stays so.
THEOREM FailureStands == Spec => EstablishedFailureStands
<1>1. Good(lc, told) /\ [Next]_vars =>
        [Ending /\ Established(lc.outcome) # NoFailure =>
           Established(lc'.outcome) = Established(lc.outcome)]_vars
  BY StepStands DEF Stands, Over, Ending
<1>2. QED  BY <1>1, AlwaysGood, PTL DEF Spec, EstablishedFailureStands

\* A child's exit is recorded once.
THEOREM ExitRecordedOnce == Spec => ResultStands
<1>1. Good(lc, told) /\ [Next]_vars =>
        [lc.attempt.result.seen => lc'.attempt.result = lc.attempt.result]_vars
  BY StepStands DEF Stands
<1>2. QED  BY <1>1, AlwaysGood, PTL DEF Spec, ResultStands
============================================================================

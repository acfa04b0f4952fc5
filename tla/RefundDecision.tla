---------------------------- MODULE RefundDecision ----------------------------
(***************************************************************************)
(* The refund state machine and the worker's decision: what a refund row   *)
(* becomes once the provider has answered (internal/refunds/worker.go,     *)
(* internal/domain/refund.go, and the constraints of 003_refunds.sql).     *)
(*                                                                         *)
(* Instants are kept relative to now: `wait` is the ticks left until       *)
(* next_action_at (0 = due), `lease` the ticks left until lease_until      *)
(* (0 = NULL or expired), `started` the ticks since processing_started_at, *)
(* which stop counting at StuckAfter (0 while it is NULL).                 *)
(***************************************************************************)
EXTENDS ProviderApi

CONSTANTS MaxAttempts, MaxCheckFailures, LeaseDuration, RequestTimeout,
          CheckInterval, InitialBackoff, MaxBackoff, StuckAfter

\* Options.Validate.
ASSUME OptionsValidate ==
  /\ RequestTimeout \in Nat \ {0} /\ CheckInterval \in Nat \ {0}
  /\ InitialBackoff \in Nat \ {0} /\ StuckAfter \in Nat \ {0}
  /\ MaxAttempts \in Nat \ {0} /\ MaxCheckFailures \in Nat \ {0}
  /\ LeaseDuration \in Nat /\ LeaseDuration >= 2 * RequestTimeout
  /\ MaxBackoff \in Nat /\ MaxBackoff >= InitialBackoff

MaxOf(a, b) == IF a >= b THEN a ELSE b
MinOf(a, b) == IF a <= b THEN a ELSE b
Decremented(n) == IF n = 0 THEN 0 ELSE n - 1

\* The largest distance from now at which next_action_at is ever put.
MaxWait == MaxOf(MaxOf(CheckInterval, MaxBackoff), RetryAfter)

RefundStatuses == {"NONE", "PENDING", "PROCESSING", "SUCCEEDED", "FAILED"}

\* last_error, by what it tells an operator: the provider's error, rejected as
\* invalid, declined for good, declined for now, retries exhausted, not found,
\* not found after the retry limit, stuck, status unknown, or an answer that
\* makes no sense.
Reasons == {"", "error", "rejected", "declined", "temporary", "exhausted",
            "not-found", "not-found-at-limit", "stuck", "unknown", "nonsense"}

Rows == [status : RefundStatuses, attempts : 0..MaxAttempts,
         checkFailures : 0..MaxCheckFailures, retryable : BOOLEAN,
         manualReview : BOOLEAN, lastError : Reasons, wait : 0..MaxWait,
         started : 0..StuckAfter, token : Nat, lease : 0..LeaseDuration,
         version : Nat]

\* A refund that was not created yet.
NoRow == [status |-> "NONE", attempts |-> 0, checkFailures |-> 0,
          retryable |-> FALSE, manualReview |-> FALSE, lastError |-> "",
          wait |-> 0, started |-> 0, token |-> 0, lease |-> 0, version |-> 0]

ValidateRefundTransition(from, to) ==
  \/ from = "PENDING" /\ to = "PROCESSING"
  \/ from = "PROCESSING" /\ to \in {"SUCCEEDED", "FAILED"}
  \/ from = "FAILED" /\ to = "PROCESSING"

\* What the database lets an UPDATE do to a row: the CHECK constraints of the
\* table and the trigger guard_refund_transition.
GuardRefundTransition(old, new) ==
  /\ new.retryable => new.status = "FAILED"
  /\ new.manualReview => new.status = "PROCESSING"
  /\ old.status # new.status =>
       \/ old.status = "PENDING" /\ new.status = "PROCESSING"
       \/ old.status = "PROCESSING" /\ new.status \in {"SUCCEEDED", "FAILED"}
       \/ old.status = "FAILED" /\ new.status = "PROCESSING" /\ old.retryable
  /\ ~(old.status = "FAILED" /\ ~old.retryable /\ new.retryable)

--------------------------------------------------------------------------------
\* The delay before jitter: doubled for every attempt after the first, and
\* never above MaxBackoff.
BaseDelay[attempt \in Nat] ==
  IF attempt <= 1
  THEN MinOf(InitialBackoff, MaxBackoff)
  ELSE LET before == BaseDelay[attempt - 1]
       IN  IF before > MaxBackoff \div 2 THEN MaxBackoff ELSE 2 * before

\* jitter draws from the upper half of the delay.
Backoff(attempt) ==
  {d \in 0..MaxBackoff : /\ BaseDelay[attempt] \div 2 <= d
                         /\ d <= BaseDelay[attempt]}

Outcomes == [status : {"PROCESSING", "SUCCEEDED", "FAILED"},
             retryable : BOOLEAN, manualReview : BOOLEAN, lastError : Reasons,
             checkFailures : 0..MaxCheckFailures, wait : 0..MaxWait]

Outcome(status, retryable, manualReview, lastError, checkFailures, wait) ==
  [status |-> status, retryable |-> retryable, manualReview |-> manualReview,
   lastError |-> lastError, checkFailures |-> checkFailures, wait |-> wait]

Stuck(r) == r.started >= StuckAfter

ManualReview(reason, checkFailures) ==
  {Outcome("PROCESSING", FALSE, TRUE, reason, checkFailures, CheckInterval)}

\* Mutant: one check failure too many before a person is asked.
DecideErrorMutant(r, ans, lookup) ==
  LET failures == IF lookup THEN r.checkFailures + 1 ELSE r.checkFailures
  IN  CASE ans.error = "permanent" /\ ~lookup ->
             {Outcome("FAILED", FALSE, FALSE, "rejected", r.checkFailures, CheckInterval)}
        [] ans.error = "configuration" -> ManualReview("error", r.checkFailures)
        [] OTHER ->
             {Outcome("PROCESSING", FALSE, failures > MaxCheckFailures, "error",
                      failures, MaxOf(delay, ans.retryAfter)) :
                delay \in Backoff(MaxOf(r.attempts, failures))}

\* decide when the provider call returned an error.
DecideError(r, ans, lookup) ==
  LET failures == IF lookup THEN r.checkFailures + 1 ELSE r.checkFailures
  IN  CASE ans.error = "permanent" /\ ~lookup ->
             {Outcome("FAILED", FALSE, FALSE, "rejected", r.checkFailures, CheckInterval)}
        [] ans.error = "configuration" -> ManualReview("error", r.checkFailures)
        [] OTHER ->
             {Outcome("PROCESSING", FALSE, failures >= MaxCheckFailures, "error",
                      failures, MaxOf(delay, ans.retryAfter)) :
                delay \in Backoff(MaxOf(r.attempts, failures))}

\* Mutant: a retry is promised after the last attempt.
DecideFailedMutant(r, ans) ==
  {Outcome("FAILED", ans.retryable /\ r.attempts <= MaxAttempts, FALSE,
           IF ans.retryable THEN "temporary" ELSE "declined", 0, delay) :
     delay \in Backoff(r.attempts)}

\* Mutant: exhausted retries are given to a person, with a final status.
DecideFailedReviewMutant(r, ans) ==
  LET retry == ans.retryable /\ r.attempts < MaxAttempts
  IN  {Outcome("FAILED", retry, ans.retryable /\ ~retry,
               IF retry THEN "temporary" ELSE "exhausted", 0, delay) :
         delay \in Backoff(r.attempts)}

DecideFailed(r, ans) ==
  LET retry == ans.retryable /\ r.attempts < MaxAttempts
      reason == CASE ~ans.retryable -> "declined"
                  [] retry -> "temporary"
                  [] OTHER -> "exhausted"
  IN  {Outcome("FAILED", retry, FALSE, reason, 0, delay) : delay \in Backoff(r.attempts)}

\* Mutant: the refund is failed for good when the attempts are used up.
DecideNotFoundMutant(r, lookup) ==
  CASE ~lookup -> ManualReview("nonsense", 0)
    [] OTHER -> {Outcome("FAILED", r.attempts < MaxAttempts, FALSE, "not-found", 0, delay) :
                   delay \in Backoff(r.attempts)}

DecideNotFound(r, lookup) ==
  CASE ~lookup -> ManualReview("nonsense", 0)
    [] lookup /\ r.attempts >= MaxAttempts -> ManualReview("not-found-at-limit", 0)
    [] OTHER -> {Outcome("FAILED", TRUE, FALSE, "not-found", 0, delay) :
                   delay \in Backoff(r.attempts)}

DecideUnknown(r) ==
  LET failures == r.checkFailures + 1
  IN  {Outcome("PROCESSING", FALSE, failures >= MaxCheckFailures \/ Stuck(r),
               "unknown", failures, delay) : delay \in Backoff(failures)}

\* decide: the outcomes (one for every draw of the jitter) of claimed row `r`
\* after the answer `ans` to a lookup or to a submission.  The client has made
\* errors of the results decide would not understand: those with another
\* operation id or with a status that is not one of the five.
Decide(r, ans, lookup) ==
  IF ans.error # "none"
  THEN DecideError(r, ans, lookup)
  ELSE CASE ans.status = "SUCCEEDED" ->
              {Outcome("SUCCEEDED", FALSE, FALSE, "", 0, CheckInterval)}
         [] ans.status = "FAILED" -> DecideFailed(r, ans)
         [] ans.status = "NOT_FOUND" -> DecideNotFound(r, lookup)
         [] ans.status = "PROCESSING" ->
              IF Stuck(r)
              THEN ManualReview("stuck", 0)
              ELSE {Outcome("PROCESSING", FALSE, FALSE, "", 0, CheckInterval)}
         [] ans.status = "UNKNOWN" -> DecideUnknown(r)

--------------------------------------------------------------------------------
\* What ReconcileOnce writes to reconciliation_results.
AuditResults == {"matched", "manual_review", "retry_scheduled", "corrected",
                 "provider_error", "unknown"}

External(ans) == IF ans.error = "none" THEN ans.status ELSE "ERROR"

\* Mutant: a scheduled retry is written down as a correction.
AuditMutant(r, ans, out) ==
  [external |-> External(ans),
   result |-> IF out.manualReview THEN "manual_review"
              ELSE IF out.status # r.status THEN "corrected"
              ELSE IF out.status = "FAILED" /\ out.retryable THEN "retry_scheduled"
              ELSE IF ans.error # "none" THEN "provider_error"
              ELSE IF ans.status = "UNKNOWN" THEN "unknown"
              ELSE "matched"]

Audit(r, ans, out) ==
  [external |-> External(ans),
   result |-> IF out.manualReview THEN "manual_review"
              ELSE IF out.status = "FAILED" /\ out.retryable THEN "retry_scheduled"
              ELSE IF out.status # r.status THEN "corrected"
              ELSE IF ans.error # "none" THEN "provider_error"
              ELSE IF ans.status = "UNKNOWN" THEN "unknown"
              ELSE "matched"]

================================================================================

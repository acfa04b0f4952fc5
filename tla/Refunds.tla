-------------------------------- MODULE Refunds --------------------------------
(***************************************************************************)
(* The refund workers, the refunds table they lease rows of, and the       *)
(* provider they call (internal/refunds/worker.go, internal/storage/       *)
(* refunds.go, migrations/003_refunds.sql, internal/mockprovider).         *)
(*                                                                         *)
(* A worker round has three steps that others interleave with: a claim     *)
(* (one transaction), the HTTP call, and the save of the outcome (another  *)
(* transaction).  A worker may crash or stall anywhere in between, a       *)
(* request may reach the provider after its caller gave up, and an answer  *)
(* may be lost.  Time is relative (see RefundDecision): Tick lets one unit *)
(* pass for every timestamp at once.                                       *)
(***************************************************************************)
EXTENDS RefundDecision, FiniteSets

CONSTANTS Refunds,        \* operation ids; each with its own idempotency key
          Workers,        \* refund worker processes
          Payments,       \* succeeded payments
          PaymentOf,      \* the payment a refund is requested for
          Amount,         \* the amount of a refund
          PaymentAmount,  \* the amount of a payment
          MaxFaults       \* how many crashes, stalls and rechecks may happen

ASSUME RefundsAssumption ==
  /\ Refunds # {} /\ IsFiniteSet(Workers) /\ MaxFaults \in Nat
  /\ PaymentOf \in [Refunds -> Payments]
  /\ Amount \in [Refunds -> Nat \ {0}] /\ PaymentAmount \in [Payments -> Nat]

VARIABLES
  row,      \* row[r]: the refunds table
  event,    \* event[r]: the type of the last outbox event about r
  audit,    \* audit[r]: the last reconciliation_results row about r
  record,   \* record[r]: the provider's record of operation r
  late,     \* late[r]: submissions in flight whose caller no longer waits
  worker,   \* worker[w]: where a worker is in its round, and what it knows
  posts,    \* posts[r]: history, submissions of r sent so far; no step reads it
  faults    \* crashes, stalls and rechecks so far

vars == <<row, event, audit, record, late, worker, posts, faults>>

MaxAge == MaxOf(RequestTimeout, MaxWait)

EventKinds == {"none", "created", "processing", "succeeded", "failed",
               "manual_review", "recheck_requested"}

Audits == [external : ProviderStatuses \cup {"none", "ERROR"},
           result : AuditResults \cup {"none"}]

\* `claimed` is the row as ClaimRefund returned it, its timestamps read at the
\* worker's current `now`.  `age` counts the ticks of the HTTP call and, once
\* the call has returned, the ticks since `now` was read.
WorkerStates ==
  [pc : {"idle", "claimed", "calling", "waiting", "returned"},
   refund : Refunds, lookup : BOOLEAN, claimed : Rows, answer : Answers,
   age : 0..MaxAge, stalled : BOOLEAN]

Idle == [pc |-> "idle", refund |-> CHOOSE r \in Refunds : TRUE,
         lookup |-> FALSE, claimed |-> NoRow, answer |-> TransportError,
         age |-> 0, stalled |-> FALSE]

Init ==
  /\ row = [r \in Refunds |-> NoRow]
  /\ event = [r \in Refunds |-> "none"]
  /\ audit = [r \in Refunds |-> [external |-> "none", result |-> "none"]]
  /\ record = [r \in Refunds |-> NotFound]
  /\ late = [r \in Refunds |-> 0]
  /\ worker = [w \in Workers |-> Idle]
  /\ posts = [r \in Refunds |-> 0]
  /\ faults = 0

--------------------------------------------------------------------------------
\* Creating a refund

\* The rows whose amount counts against their payment.
Reserved(x) == x.status # "NONE" /\ (x.status # "FAILED" \/ x.retryable)

\* The single units of money of some refunds: their number is the sum.
Units(refunds) == UNION {{r} \X (1..Amount[r]) : r \in refunds}

ReservedOn(p) == {r \in Refunds : PaymentOf[r] = p /\ Reserved(row[r])}
ReservedAmount(p) == Cardinality(Units(ReservedOn(p)))

\* Mutant: nothing is emitted when a person sends a refund back.
EmitRefundOutboxMutant(old, new, last) ==
  IF old.status # new.status
  THEN CASE new.status = "PROCESSING" -> "processing"
         [] new.status = "SUCCEEDED" -> "succeeded"
         [] OTHER -> "failed"
  ELSE IF ~old.manualReview /\ new.manualReview THEN "manual_review" ELSE last

\* The trigger emit_refund_outbox: the event an UPDATE emits, if any.
EmitRefundOutbox(old, new, last) ==
  IF old.status # new.status
  THEN CASE new.status = "PROCESSING" -> "processing"
         [] new.status = "SUCCEEDED" -> "succeeded"
         [] OTHER -> "failed"
  ELSE CASE ~old.manualReview /\ new.manualReview -> "manual_review"
         [] old.manualReview /\ ~new.manualReview -> "recheck_requested"
         [] OTHER -> last

\* A new row; a row of the table has a version of at least 1.
Created(x) == [x EXCEPT !.status = "PENDING", !.version = 1]

\* CreateRefund with a new key: the payment row is locked while its
\* reservations are summed up and the row inserted.
CreateRefund(r) ==
  /\ row[r].status = "NONE"
  /\ Amount[r] <= PaymentAmount[PaymentOf[r]] - ReservedAmount(PaymentOf[r])
  /\ row' = [row EXCEPT ![r] = Created(@)]
  /\ event' = [event EXCEPT ![r] = "created"]
  /\ UNCHANGED <<audit, record, late, worker, posts, faults>>

Rechecked(x) ==
  [x EXCEPT !.manualReview = FALSE, !.checkFailures = 0, !.wait = 0,
            !.lastError = "", !.version = @ + 1]

\* RequestRefundRecheck.
RequestRefundRecheck(r) ==
  /\ faults < MaxFaults
  /\ row[r].status = "PROCESSING" /\ row[r].manualReview /\ row[r].lease = 0
  /\ row' = [row EXCEPT ![r] = Rechecked(@)]
  /\ event' = [event EXCEPT ![r] = EmitRefundOutbox(row[r], Rechecked(row[r]), @)]
  /\ faults' = faults + 1
  /\ UNCHANGED <<audit, record, late, worker, posts>>

--------------------------------------------------------------------------------
\* ClaimRefund

\* Mutant: a leased row is handed out again.
DueMutant(x) == x.wait = 0

\* Mutant: a lease that ran out is not taken over.
DueUnleasedMutant(x) == x.wait = 0 /\ x.token = 0

Due(x) == x.wait = 0 /\ x.lease = 0

CanSubmit(x) ==
  /\ x.status = "PENDING" \/ (x.status = "FAILED" /\ x.retryable)
  /\ x.attempts < MaxAttempts
  /\ Due(x)

\* Mutant: failed refunds are reconciled too.
CanReconcileMutant(x) ==
  x.status \in {"PROCESSING", "FAILED"} /\ ~x.manualReview /\ Due(x)

CanReconcile(x) == x.status = "PROCESSING" /\ ~x.manualReview /\ Due(x)

\* Mutant: the attempt is not counted when the row is claimed.
SubmitClaimedMutant(x) ==
  [status |-> "PROCESSING", attempts |-> x.attempts, checkFailures |-> 0,
   retryable |-> FALSE, manualReview |-> x.manualReview,
   lastError |-> x.lastError, wait |-> 0, started |-> 0,
   token |-> x.version + 1, lease |-> LeaseDuration, version |-> x.version + 1]

\* The claimed row.  The random lease token is a value no earlier claim of the
\* row had; the version the claim gives the row is one.
SubmitClaimed(x) ==
  [status |-> "PROCESSING", attempts |-> x.attempts + 1, checkFailures |-> 0,
   retryable |-> FALSE, manualReview |-> x.manualReview,
   lastError |-> x.lastError, wait |-> 0, started |-> 0,
   token |-> x.version + 1, lease |-> LeaseDuration, version |-> x.version + 1]

ReconcileClaimed(x) ==
  [x EXCEPT !.token = x.version + 1, !.lease = LeaseDuration,
            !.version = @ + 1]

\* The worker that has just claimed refund r.
Holding(r, isLookup, new) ==
  [pc |-> "claimed", refund |-> r, lookup |-> isLookup, claimed |-> new,
   answer |-> TransportError, age |-> 0, stalled |-> FALSE]

\* Any due row may be the claimed one: rows locked by others are skipped.
Claim(w, r, new, isLookup) ==
  /\ worker[w].pc = "idle"
  /\ GuardRefundTransition(row[r], new)
  /\ row' = [row EXCEPT ![r] = new]
  /\ event' = [event EXCEPT ![r] = EmitRefundOutbox(row[r], new, @)]
  /\ worker' = [worker EXCEPT ![w] = Holding(r, isLookup, new)]
  /\ UNCHANGED <<audit, record, late, posts, faults>>

ClaimSubmit(w, r) ==
  /\ CanSubmit(row[r]) /\ ValidateRefundTransition(row[r].status, "PROCESSING")
  /\ Claim(w, r, SubmitClaimed(row[r]), FALSE)

ClaimReconcile(w, r) ==
  CanReconcile(row[r]) /\ Claim(w, r, ReconcileClaimed(row[r]), TRUE)

--------------------------------------------------------------------------------
\* The HTTP call

\* The request leaves the worker.  It stands for every copy that net/http itself
\* makes of it on a broken connection.
SendRequest(w) ==
  LET me == worker[w] IN
  /\ me.pc = "claimed"
  /\ worker' = [worker EXCEPT ![w].pc = "calling", ![w].age = 0]
  /\ posts' = IF me.lookup THEN posts ELSE [posts EXCEPT ![me.refund] = @ + 1]
  /\ UNCHANGED <<row, event, audit, record, late, faults>>

\* The server answers a POST in whatever mode it is in.  Behind a 500 the
\* record may already be in the file, and appear when the server restarts: that
\* is a submission still to come.
ServeSubmit(w) ==
  LET r == worker[w].refund IN
  /\ worker[w].pc = "calling" /\ ~worker[w].lookup
  /\ \E mode \in Modes : \E o \in SubmitLocked(record[r], mode) :
       /\ record' = [record EXCEPT ![r] = o.record]
       /\ late' \in {late} \cup
            (IF o.code = 500 THEN {[late EXCEPT ![r] = @ + 1]} ELSE {})
       /\ worker' = [worker EXCEPT ![w].pc = "waiting",
                       ![w].answer = ClientCall(TRUE, o.code, o.record)]
  /\ UNCHANGED <<row, event, audit, posts, faults>>

ServeLookup(w) ==
  LET rec == record[worker[w].refund] IN
  /\ worker[w].pc = "calling" /\ worker[w].lookup
  /\ worker' = [worker EXCEPT ![w].pc = "waiting",
                  ![w].answer = ClientCall(FALSE, LookupCode(rec), rec)]
  /\ UNCHANGED <<row, event, audit, record, late, posts, faults>>

\* The server refuses the client's key.
Unauthorized(w) ==
  /\ worker[w].pc = "calling"
  /\ worker' = [worker EXCEPT ![w].pc = "waiting",
                  ![w].answer = ClientCall(~worker[w].lookup, 401, NotFound)]
  /\ UNCHANGED <<row, event, audit, record, late, posts, faults>>

\* The answer reaches the worker, which reads its clock.
ReceiveAnswer(w) ==
  /\ worker[w].pc = "waiting"
  /\ worker' = [worker EXCEPT ![w].pc = "returned", ![w].age = 0]
  /\ UNCHANGED <<row, event, audit, record, late, posts, faults>>

\* A submission that was sent and not served yet outlives its caller.
Orphaned(w) ==
  IF worker[w].pc = "calling" /\ ~worker[w].lookup
  THEN [late EXCEPT ![worker[w].refund] = @ + 1]
  ELSE late

\* The call fails, or the request timeout cancels it: an answer is lost.
CallFails(w) ==
  /\ worker[w].pc \in {"calling", "waiting"}
  /\ late' = Orphaned(w)
  /\ worker' = [worker EXCEPT ![w].pc = "returned", ![w].age = 0,
                              ![w].answer = TransportError]
  /\ UNCHANGED <<row, event, audit, record, posts, faults>>

\* A submission arrives, or is lost, after its caller stopped waiting.
LateSubmit(r) ==
  /\ late[r] > 0
  /\ late' = [late EXCEPT ![r] = @ - 1]
  /\ \E mode \in Modes : \E o \in SubmitLocked(record[r], mode) :
       record' = [record EXCEPT ![r] = o.record]
  /\ UNCHANGED <<row, event, audit, worker, posts, faults>>

\* The provider settles an operation that is not final.
Resolve(r) ==
  /\ \E rec \in Resolutions(record[r]) : record' = [record EXCEPT ![r] = rec]
  /\ UNCHANGED <<row, event, audit, late, worker, posts, faults>>

--------------------------------------------------------------------------------
\* ApplyRefundOutcome

\* Mutant: any lease on the row is taken for the caller's own.
LeaseValidMutant(x, claimed) == x.token # 0 /\ claimed.lease > 0

\* The lease check, with the `now` that was read when the call returned.
LeaseValid(x, claimed) ==
  /\ x.token # 0 /\ x.token = claimed.token /\ x.version = claimed.version
  /\ claimed.lease > 0

\* The updated row; next_action_at was computed `lag` ticks ago.
Applied(x, out, lag) ==
  [status |-> out.status, attempts |-> x.attempts,
   checkFailures |-> out.checkFailures, retryable |-> out.retryable,
   manualReview |-> out.manualReview, lastError |-> out.lastError,
   wait |-> IF out.wait > lag THEN out.wait - lag ELSE 0,
   started |-> x.started, token |-> 0, lease |-> 0, version |-> x.version + 1]

Accepted(x, out, lag) ==
  /\ x.status = "PROCESSING"
  /\ out.status # x.status => ValidateRefundTransition(x.status, out.status)
  /\ GuardRefundTransition(x, Applied(x, out, lag))

SaveApplied(w) ==
  LET me == worker[w]
      r == me.refund
  IN
  /\ me.pc = "returned" /\ LeaseValid(row[r], me.claimed)
  /\ \E out \in Decide(me.claimed, me.answer, me.lookup) :
       /\ Accepted(row[r], out, me.age)
       /\ row' = [row EXCEPT ![r] = Applied(row[r], out, me.age)]
       /\ event' = [event EXCEPT ![r] =
                      EmitRefundOutbox(row[r], Applied(row[r], out, me.age), @)]
       /\ audit' = IF me.lookup
                   THEN [audit EXCEPT ![r] = Audit(me.claimed, me.answer, out)]
                   ELSE audit
  /\ worker' = [worker EXCEPT ![w] = Idle]
  /\ UNCHANGED <<record, late, posts, faults>>

\* ErrLeaseLost, or an update the state machine refuses: nothing is written.
SaveRejected(w) ==
  LET me == worker[w] IN
  /\ me.pc = "returned"
  /\ \/ ~LeaseValid(row[me.refund], me.claimed)
     \/ \E out \in Decide(me.claimed, me.answer, me.lookup) :
          ~Accepted(row[me.refund], out, me.age)
  /\ worker' = [worker EXCEPT ![w] = Idle]
  /\ UNCHANGED <<row, event, audit, record, late, posts, faults>>

--------------------------------------------------------------------------------
\* Failures and time

\* The process dies, is cancelled, or a transaction of its fails: the round is
\* abandoned and the row stays leased.
Crash(w) ==
  /\ faults < MaxFaults /\ worker[w].pc # "idle"
  /\ late' = Orphaned(w)
  /\ worker' = [worker EXCEPT ![w] = Idle]
  /\ faults' = faults + 1
  /\ UNCHANGED <<row, event, audit, record, posts>>

\* The process is suspended: time passes without it.
Stall(w) ==
  /\ faults < MaxFaults /\ worker[w].pc # "idle" /\ ~worker[w].stalled
  /\ worker' = [worker EXCEPT ![w].stalled = TRUE]
  /\ faults' = faults + 1
  /\ UNCHANGED <<row, event, audit, record, late, posts>>

Aged(x) ==
  [x EXCEPT !.wait = Decremented(@), !.lease = Decremented(@),
            !.started = IF x.attempts = 0 THEN @ ELSE MinOf(@ + 1, StuckAfter)]

\* What the worker knows is dated by the `now` it reads when the call returns.
AgedWorker(me) ==
  CASE me.pc = "idle" -> me
    [] me.pc = "returned" -> [me EXCEPT !.age = MinOf(@ + 1, MaxAge)]
    [] OTHER -> [me EXCEPT !.age = MinOf(@ + 1, MaxAge), !.claimed = Aged(@)]

\* A running worker takes no time for its own steps, and its HTTP call is cut
\* off after RequestTimeout.
Punctual(me) ==
  \/ me.pc = "idle" \/ me.stalled
  \/ me.pc \in {"calling", "waiting"} /\ me.age < RequestTimeout

Tick ==
  /\ \A w \in Workers : Punctual(worker[w])
  /\ row' = [r \in Refunds |-> Aged(row[r])]
  /\ worker' = [w \in Workers |-> AgedWorker(worker[w])]
  /\ UNCHANGED <<event, audit, record, late, posts, faults>>

--------------------------------------------------------------------------------
Claims(r) == \E w \in Workers : ClaimSubmit(w, r) \/ ClaimReconcile(w, r)

Continue(w) ==
  \/ SendRequest(w) \/ ServeSubmit(w) \/ ServeLookup(w) \/ Unauthorized(w)
  \/ ReceiveAnswer(w) \/ CallFails(w) \/ SaveApplied(w) \/ SaveRejected(w)

Next ==
  \/ \E r \in Refunds : \/ CreateRefund(r) \/ RequestRefundRecheck(r)
                        \/ Claims(r) \/ LateSubmit(r) \/ Resolve(r)
  \/ \E w \in Workers : Continue(w) \/ Crash(w) \/ Stall(w)
  \/ Tick

Spec == Init /\ [][Next]_vars

\* A worker that is not crashed goes on with its round and polls for more; the
\* oldest due row is claimed first, so a row that is due again and again is
\* claimed; and time passes.
Fairness ==
  /\ \A w \in Workers : WF_vars(Continue(w))
  /\ \A r \in Refunds : SF_vars(Claims(r))
  /\ WF_vars(Tick)

FairSpec == Spec /\ Fairness

--------------------------------------------------------------------------------
\* Properties

\* Every variable keeps its type: attempts and check failures stay within the
\* limits the workers are configured with, timestamps within their horizons.
TypeOK ==
  /\ row \in [Refunds -> Rows]
  /\ event \in [Refunds -> EventKinds]
  /\ audit \in [Refunds -> Audits]
  /\ record \in [Refunds -> Records]
  /\ late \in [Refunds -> Nat]
  /\ worker \in [Workers -> WorkerStates]
  /\ posts \in [Refunds -> Nat]
  /\ faults \in Nat

\* Nothing is left to do for the workers: the refund succeeded, failed for good,
\* or waits for a person.
Settled(x) ==
  \/ x.status = "SUCCEEDED"
  \/ x.status = "FAILED" /\ ~x.retryable
  \/ x.status = "PROCESSING" /\ x.manualReview

\* A refund never waits for a retry that ClaimRefund will not hand out: a
\* retryable row still has an attempt left (worker.go decides with the attempts
\* of the claimed snapshot, refunds.go:163 claims with those of the row).
RetryableCanRun ==
  \A r \in Refunds :
    row[r].status = "PENDING" \/ row[r].retryable => row[r].attempts < MaxAttempts

\* A worker that is not stalled still owns its row, with time left on the lease,
\* whenever it saves: this is what Options.Validate asks lease >= 2 * request
\* timeout for.
LeaseHeld ==
  \A w \in Workers :
    worker[w].pc # "idle" /\ ~worker[w].stalled =>
      LET x == row[worker[w].refund]
      IN  /\ LeaseValid(x, worker[w].claimed)
          /\ x.lease > 0

\* The fence holds: when a save passes the lease check, the row has not moved
\* since the claim, so the outcome was decided from the row it overwrites.
FreshDecision ==
  \A w \in Workers :
    LET x == row[worker[w].refund]
        c == worker[w].claimed
    IN  worker[w].pc # "idle" /\ LeaseValid(x, c) =>
          /\ x.status = c.status /\ x.attempts = c.attempts
          /\ x.checkFailures = c.checkFailures

\* The database never refuses the outcome of the lease holder: whatever the
\* provider answered, what decide makes of it is a legal transition.
SavesAccepted ==
  \A w \in Workers :
    LET me == worker[w]
    IN  me.pc = "returned" /\ LeaseValid(row[me.refund], me.claimed) =>
          \A out \in Decide(me.claimed, me.answer, me.lookup) :
            Accepted(row[me.refund], out, me.age)

\* A refund is reported as succeeded, or as declined for good, only if that is
\* what the provider's final record says, whichever worker's answer was saved.
VerdictIsReal ==
  \A r \in Refunds :
    /\ row[r].status = "SUCCEEDED" => record[r].status = "SUCCEEDED"
    /\ row[r].status = "FAILED" /\ row[r].lastError = "declined" =>
         record[r].status = "FAILED" /\ ~record[r].retryable

\* Money the provider has paid out stays reserved on the payment, unless the
\* workers gave the refund up while the provider could still execute it: after
\* a rejected submission, or a retryable failure at the attempt limit.
PaidIsReserved ==
  \A r \in Refunds :
    record[r].status = "SUCCEEDED" =>
      \/ Reserved(row[r])
      \/ row[r].lastError \in {"rejected", "exhausted"}

\* What the provider has paid out for a payment.
PaidOn(p) == {r \in Refunds : PaymentOf[r] = p /\ record[r].status = "SUCCEEDED"}
PaidAmount(p) == Cardinality(Units(PaidOn(p)))

\* The provider pays out no more than the payment: storage refuses a refund with
\* "refund amount exceeds available payment amount".
PaidWithinPayment == \A p \in Payments : PaidAmount(p) <= PaymentAmount[p]

\* The provider pays out more than the payment only after the workers gave one of
\* its refunds up while the provider could still execute it: as long as none ended
\* as rejected or exhausted, the amounts paid for one payment add up to no more
\* than it, whichever refunds are created, released, retried and paid late.
OverpaidOnlyAfterGivingUp ==
  \A p \in Payments :
    (\A r \in Refunds : PaymentOf[r] = p => row[r].lastError \notin {"rejected", "exhausted"})
      => PaidAmount(p) <= PaymentAmount[p]

\* A subscriber that saw the last event about a refund knows its status and
\* whether it waits for a person.
LastEventMatchesRow ==
  \A r \in Refunds :
    LET x == row[r]
    IN  event[r] \in
          CASE x.status = "NONE" -> {"none"}
            [] x.status = "PENDING" -> {"created"}
            [] x.status = "PROCESSING" /\ x.manualReview -> {"manual_review"}
            [] x.status = "PROCESSING" /\ ~x.manualReview -> {"processing", "recheck_requested"}
            [] x.status = "SUCCEEDED" -> {"succeeded"}
            [] OTHER -> {"failed"}

\* Every submission ever sent was counted as an attempt before it left: over any
\* number of crashes, timeouts, lost leases and retries a refund is posted no more
\* often than its row says, and so at most MaxAttempts times.
PostsWithinAttempts == \A r \in Refunds : posts[r] <= row[r].attempts

\* A step leaves the refunds alone that are done.
FinalStep ==
  \A r \in Refunds :
    row[r].status = "SUCCEEDED" \/ (row[r].status = "FAILED" /\ ~row[r].retryable)
      => row'[r].version = row[r].version /\ row'[r].status = row[r].status

\* A refund that succeeded or failed for good never changes again, whatever a
\* late worker, a recheck or the provider does.
FinalIsFinal == [][FinalStep]_vars

\* What a step writes to the reconciliation history explains what it does.
AuditStep ==
  \A r \in Refunds :
    audit'[r] # audit[r] =>
      /\ audit'[r].result = "matched" =>
           /\ audit'[r].external = "PROCESSING"
           /\ row'[r].status = row[r].status /\ ~row'[r].manualReview
      /\ row'[r].status # row[r].status =>
           audit'[r].result = IF row'[r].retryable THEN "retry_scheduled"
                                                   ELSE "corrected"
      /\ audit'[r].result = "manual_review" <=> row'[r].manualReview

\* The reconciliation history explains every change a lookup makes: "matched"
\* is written only when both sides say PROCESSING and nothing changes, and a
\* change of status is written as "corrected" or "retry_scheduled".
AuditExplainsChange == [][AuditStep]_vars

\* Every refund is eventually settled, however the provider answers: retries,
\* lookups and lost answers come to an end.
EventuallySettled ==
  \A r \in Refunds : row[r].status # "NONE" ~> Settled(row[r])

================================================================================

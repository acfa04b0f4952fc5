----------------------------- MODULE RefundsProofs -----------------------------
(***************************************************************************)
(* What Refunds.tla guarantees for every number of refunds, workers and    *)
(* faults, and every configuration Options.Validate accepts.               *)
(*                                                                         *)
(* IInv is the inductive invariant behind all theorems.  Three of them add *)
(* to it: LInv who holds which lease, and for how long; MoneyOK why a      *)
(* refund was given up, and what all refunds of a payment reserve; and     *)
(* PInv counts the submissions sent with those that are about to be.  Each *)
(* action has a lemma that says it preserves the invariant; those rest on  *)
(* lemmas about what the action does to one row, one worker or one record. *)
(***************************************************************************)
EXTENDS Refunds, FiniteSetTheorems, WellFoundedInduction, TLAPS

--------------------------------------------------------------------------------
\* The inductive invariant

\* What holds of every row of the refunds table.
RowOK(x) ==
  /\ x.status = "NONE" => x.version = 0
  /\ x.status \in {"NONE", "PENDING"} => x.attempts = 0
  /\ x.retryable => x.status = "FAILED" /\ x.attempts < MaxAttempts
  /\ x.manualReview => x.status = "PROCESSING"
  /\ x.status = "PROCESSING" /\ ~x.manualReview => x.checkFailures < MaxCheckFailures
  /\ x.token # 0 => /\ x.status = "PROCESSING" /\ ~x.manualReview
                    /\ x.token = x.version

\* What holds between the row a worker claimed and that row now: it is the same
\* claim, or the row has moved on.
ClaimOK(c, x) ==
  /\ c.status = "PROCESSING" /\ ~c.manualReview
  /\ c.checkFailures < MaxCheckFailures
  /\ c.token = c.version /\ c.version > 0 /\ c.version <= x.version
  /\ x.version = c.version =>
       /\ x.status = "PROCESSING" /\ ~x.manualReview
       /\ x.attempts = c.attempts /\ x.checkFailures = c.checkFailures

\* A final answer is what the provider's record says.
FinalAnswer(ans) ==
  /\ ans.error = "none"
  /\ ans.status = "SUCCEEDED" \/ (ans.status = "FAILED" /\ ~ans.retryable)

AnswerOK(ans, rec) == FinalAnswer(ans) => rec.status = ans.status /\ ~rec.retryable

VerdictOK(x, rec) ==
  /\ x.status = "SUCCEEDED" => rec.status = "SUCCEEDED"
  /\ x.status = "FAILED" /\ x.lastError = "declined" =>
       rec.status = "FAILED" /\ ~rec.retryable

RowsOK == \A r \in Refunds : RowOK(row[r])
ClaimsOK == \A w \in Workers :
              worker[w].pc # "idle" => ClaimOK(worker[w].claimed, row[worker[w].refund])
AnswersOK == \A w \in Workers :
               worker[w].pc \in {"waiting", "returned"} =>
                 AnswerOK(worker[w].answer, record[worker[w].refund])
VerdictsOK == \A r \in Refunds : VerdictOK(row[r], record[r])

IInv == TypeOK /\ RowsOK /\ ClaimsOK /\ AnswersOK /\ VerdictsOK

--------------------------------------------------------------------------------
\* The delays of backoff

\* A set of natural numbers that is not empty has a least element.
LEMMA Least ==
  ASSUME NEW T \in SUBSET Nat, T # {}
  PROVE  \E x \in T : \A y \in T : x <= y
<1> DEFINE R == {p \in Nat \X Nat : p[1] < p[2]}
<1>1. IsWellFoundedOn(R, Nat)
  BY NatLessThanWellFounded, Zenon DEF OpToRel
<1>2. \A x, y \in Nat : y < x => <<y, x>> \in R
  OBVIOUS
<1> HIDE DEF R
<1>3. PICK x \in T : \A y \in T : ~ (<<y, x>> \in R)
  BY <1>1, WFMin, Zenon
<1>4. ASSUME NEW y \in T PROVE x <= y
  <2>1. x \in Nat /\ y \in Nat
    OBVIOUS
  <2>2. ~(y < x)
    BY <1>2, <1>3, <2>1
  <2> QED
    BY <2>1, <2>2
<1> QED
  BY <1>4

\* The delay of the next attempt, and the table of the delays up to attempt n.
NextDelay(d) == IF d > MaxBackoff \div 2 THEN MaxBackoff ELSE 2 * d

IsDelays(g, n) ==
  g = [i \in 0..n |-> IF i <= 1 THEN MinOf(InitialBackoff, MaxBackoff) ELSE NextDelay(g[i - 1])]

LEMMA DelaysExist == ASSUME NEW n \in Nat PROVE \E g : IsDelays(g, n)
<1> DEFINE T == {m \in Nat : ~ \E g : IsDelays(g, m)}
<1> SUFFICES ASSUME T # {} PROVE FALSE
  OBVIOUS
<1>1. PICK x \in T : \A y \in T : x <= y
  <2>1. T \in SUBSET Nat
    OBVIOUS
  <2> QED
    BY <2>1, Least
<1>2. x \in Nat /\ ~ \E g : IsDelays(g, x)
  OBVIOUS
<1>3. CASE x = 0
  <2> DEFINE g == [i \in 0..0 |-> MinOf(InitialBackoff, MaxBackoff)]
  <2>1. IsDelays(g, 0)
    BY DEF IsDelays
  <2> QED
    BY <1>2, <1>3, <2>1
<1>4. CASE x # 0
  <2>1. x - 1 \in Nat /\ x - 1 \notin T
    BY <1>1, <1>2, <1>4
  <2>2. PICK g : IsDelays(g, x - 1)
    BY <2>1
  <2> DEFINE last == IF x <= 1 THEN MinOf(InitialBackoff, MaxBackoff) ELSE NextDelay(g[x - 1])
             h == [i \in 0..x |-> IF i = x THEN last ELSE g[i]]
  <2>3. \A i \in 0..x : h[i] = IF i <= 1 THEN MinOf(InitialBackoff, MaxBackoff)
                               ELSE NextDelay(h[i - 1])
    <3> SUFFICES ASSUME NEW i \in 0..x
                 PROVE  h[i] = IF i <= 1 THEN MinOf(InitialBackoff, MaxBackoff)
                               ELSE NextDelay(h[i - 1])
      OBVIOUS
    <3>1. CASE i = x
      <4>1. i > 1 => x - 1 \in 0..x /\ x - 1 # x
        BY <1>2, <3>1
      <4>2. i > 1 => h[i - 1] = g[x - 1]
        BY <3>1, <4>1
      <4> QED
        BY <1>2, <3>1, <4>2
    <3>2. CASE i # x
      <4>1. i \in 0..(x - 1) /\ (i > 1 => i - 1 \in 0..x /\ i - 1 # x)
        BY <1>2, <3>2
      <4>2. g[i] = IF i <= 1 THEN MinOf(InitialBackoff, MaxBackoff) ELSE NextDelay(g[i - 1])
        BY <2>2, <4>1 DEF IsDelays
      <4> QED
        BY <3>2, <4>1, <4>2
    <3> QED
      BY <3>1, <3>2
  <2>4. IsDelays(h, x)
    BY <2>3 DEF IsDelays
  <2> QED
    BY <1>2, <2>4
<1> QED
  BY <1>3, <1>4

LEMMA DelaysAgree ==
  ASSUME NEW g, NEW h, NEW n \in Nat, NEW m \in Nat, IsDelays(g, n), IsDelays(h, m)
  PROVE  \A i \in Nat : i <= n /\ i <= m => g[i] = h[i]
<1> DEFINE T == {i \in Nat : i <= n /\ i <= m /\ g[i] # h[i]}
<1> SUFFICES ASSUME T # {} PROVE FALSE
  OBVIOUS
<1>1. PICK x \in T : \A y \in T : x <= y
  <2>1. T \in SUBSET Nat
    OBVIOUS
  <2> QED
    BY <2>1, Least
<1>2. x \in 0..n /\ x \in 0..m /\ g[x] # h[x]
  OBVIOUS
<1>3. /\ g[x] = IF x <= 1 THEN MinOf(InitialBackoff, MaxBackoff) ELSE NextDelay(g[x - 1])
      /\ h[x] = IF x <= 1 THEN MinOf(InitialBackoff, MaxBackoff) ELSE NextDelay(h[x - 1])
  BY <1>2 DEF IsDelays
<1>4. x > 1 => x - 1 \in Nat /\ x - 1 <= n /\ x - 1 <= m /\ x - 1 \notin T
  BY <1>1, <1>2
<1>5. x > 1 => g[x - 1] = h[x - 1]
  BY <1>4
<1> QED
  BY <1>2, <1>3, <1>5

\* So the recursion of BaseDelay has a solution.
LEMMA BaseDelayIs ==
  \A n \in Nat : BaseDelay[n] = IF n <= 1 THEN MinOf(InitialBackoff, MaxBackoff)
                                ELSE NextDelay(BaseDelay[n - 1])
<1> DEFINE table(n) == CHOOSE g : IsDelays(g, n)
           f == [n \in Nat |-> table(n)[n]]
           P(h) == h = [n \in Nat |-> IF n <= 1 THEN MinOf(InitialBackoff, MaxBackoff)
                                      ELSE NextDelay(h[n - 1])]
<1>1. \A n \in Nat : IsDelays(table(n), n)
  BY DelaysExist
<1> HIDE DEF table
<1>2. ASSUME NEW n \in Nat
      PROVE  f[n] = IF n <= 1 THEN MinOf(InitialBackoff, MaxBackoff) ELSE NextDelay(f[n - 1])
  <2>1. n \in 0..n
    OBVIOUS
  <2>2. table(n)[n] = IF n <= 1 THEN MinOf(InitialBackoff, MaxBackoff)
                      ELSE NextDelay(table(n)[n - 1])
    BY <1>1, <2>1 DEF IsDelays
  <2>3. n > 1 => n - 1 \in Nat /\ n - 1 <= n
    OBVIOUS
  <2>4. n > 1 => table(n)[n - 1] = table(n - 1)[n - 1]
    BY <1>1, <2>3, DelaysAgree
  <2> QED
    BY <2>2, <2>3, <2>4
<1>3. P(f)
  BY <1>2
<1> HIDE DEF f
<1>4. BaseDelay = CHOOSE h : P(h)
  BY DEF BaseDelay, NextDelay
<1>5. P(BaseDelay)
  BY <1>3, <1>4
<1> QED
  BY <1>5

\* backoff starts at InitialBackoff, doubles, and stays at MaxBackoff: no attempt is
\* answered with a delay outside these, and no doubling goes past MaxBackoff.
THEOREM DelaysBounded == \A n \in Nat : BaseDelay[n] \in InitialBackoff..MaxBackoff
<1> DEFINE T == {n \in Nat : BaseDelay[n] \notin InitialBackoff..MaxBackoff}
<1> SUFFICES ASSUME T # {} PROVE FALSE
  OBVIOUS
<1>1. PICK x \in T : \A y \in T : x <= y
  <2>1. T \in SUBSET Nat
    OBVIOUS
  <2> QED
    BY <2>1, Least
<1>2. x \in Nat /\ BaseDelay[x] \notin InitialBackoff..MaxBackoff
  OBVIOUS
<1>3. x > 1
  BY <1>2, BaseDelayIs, OptionsValidate DEF MinOf
<1>4. x - 1 \in Nat /\ x - 1 \notin T
  BY <1>1, <1>2, <1>3
<1>5. BaseDelay[x - 1] \in InitialBackoff..MaxBackoff
  BY <1>4
<1>6. BaseDelay[x] = NextDelay(BaseDelay[x - 1])
  BY <1>2, <1>3, BaseDelayIs
<1> QED
  BY <1>2, <1>5, <1>6, OptionsValidate DEF NextDelay

\* jitter always finds a delay.
LEMMA BackoffExists == \A n \in Nat : Backoff(n) # {}
<1> SUFFICES ASSUME NEW n \in Nat PROVE BaseDelay[n] \in Backoff(n)
  OBVIOUS
<1>1. BaseDelay[n] \in InitialBackoff..MaxBackoff
  BY DelaysBounded
<1> QED
  BY <1>1, OptionsValidate DEF Backoff

\* decide has an outcome for every row, answer and kind of call.
THEOREM DecideIsTotal ==
  ASSUME NEW r \in Rows, NEW ans \in Answers, NEW lookup \in BOOLEAN
  PROVE  Decide(r, ans, lookup) # {}
<1>1. r.attempts \in Nat /\ r.checkFailures \in Nat
  BY OptionsValidate DEF Rows
<1>2. /\ Backoff(r.attempts) # {} /\ Backoff(r.checkFailures + 1) # {}
      /\ Backoff(MaxOf(r.attempts, r.checkFailures)) # {}
      /\ Backoff(MaxOf(r.attempts, r.checkFailures + 1)) # {}
  BY <1>1, BackoffExists DEF MaxOf
<1>3. \A reason, n : ManualReview(reason, n) # {}
  BY DEF ManualReview
<1>4. CASE ans.error # "none"
  <2>1. DecideError(r, ans, lookup) # {}
    BY <1>2, <1>3 DEF DecideError
  <2> QED
    BY <1>4, <2>1 DEF Decide
<1>5. CASE ans.error = "none"
  <2>1. ans.status \in ProviderStatuses
    BY DEF Answers
  <2>2. DecideFailed(r, ans) # {} /\ DecideUnknown(r) # {}
    BY <1>2 DEF DecideFailed, DecideUnknown
  <2>3. DecideNotFound(r, lookup) # {}
    BY <1>2, <1>3 DEF DecideNotFound
  <2> QED
    BY <1>3, <1>5, <2>1, <2>2, <2>3 DEF Decide, ProviderStatuses
<1> QED
  BY <1>4, <1>5

--------------------------------------------------------------------------------
\* What the steps of a refund make of a row

\* Every delay the code computes is within MaxWait.
LEMMA MaxWaitBounds ==
  /\ MaxWait \in Nat
  /\ MaxBackoff <= MaxWait /\ CheckInterval <= MaxWait /\ RetryAfter <= MaxWait
  BY OptionsValidate, RetryAfterAssumption DEF MaxWait, MaxOf

\* The insert of CreateRefund keeps the invariant of a row.
LEMMA CreatedOK ==
  ASSUME NEW x \in Rows, RowOK(x), x.status = "NONE"
  PROVE  /\ Created(x) \in Rows /\ RowOK(Created(x))
         /\ Created(x).version > x.version
<1> DEFINE a == [x EXCEPT !.status = "PENDING"]
           b == [a EXCEPT !.version = 1]
<1>1. a \in Rows
  BY DEF Rows, RefundStatuses
<1>2. b \in Rows
  BY <1>1 DEF Rows
<1>3. Created(x) = b
  BY DEF Created
<1>4. Created(x) \in Rows
  BY <1>2, <1>3
<1>5. RowOK(Created(x)) /\ Created(x).version > x.version
  BY DEF Rows, RowOK, Created
<1> QED
  BY <1>4, <1>5

\* So does the update of RequestRefundRecheck.
LEMMA RecheckedOK ==
  ASSUME NEW x \in Rows, RowOK(x), x.status = "PROCESSING", x.manualReview
  PROVE  /\ Rechecked(x) \in Rows /\ RowOK(Rechecked(x))
         /\ Rechecked(x).version > x.version
<1> DEFINE a == [x EXCEPT !.manualReview = FALSE]
           b == [a EXCEPT !.checkFailures = 0]
           c == [b EXCEPT !.wait = 0]
           d == [c EXCEPT !.lastError = ""]
           e == [d EXCEPT !.version = x.version + 1]
<1>1. a \in Rows
  BY DEF Rows
<1> HIDE DEF a
<1>2. b \in Rows
  BY <1>1, OptionsValidate DEF Rows
<1> HIDE DEF b
<1>3. c \in Rows
  BY <1>2, MaxWaitBounds DEF Rows
<1> HIDE DEF c
<1>4. d \in Rows
  BY <1>3 DEF Rows, Reasons
<1> HIDE DEF d
<1>5. e \in Rows
  BY <1>4 DEF Rows
<1>6. Rechecked(x) = e
  BY DEF Rechecked, a, b, c, d
<1>7. RowOK(Rechecked(x)) /\ Rechecked(x).version > x.version
  BY OptionsValidate DEF Rows, RowOK, Rechecked
<1> QED
  BY <1>5, <1>6, <1>7

\* Claiming a row for submission: the attempt it takes was left.
LEMMA SubmitClaimedOK ==
  ASSUME NEW x \in Rows, RowOK(x), CanSubmit(x)
  PROVE  /\ SubmitClaimed(x) \in Rows /\ RowOK(SubmitClaimed(x))
         /\ SubmitClaimed(x).version > x.version
         /\ ClaimOK(SubmitClaimed(x), SubmitClaimed(x))
<1>1. SubmitClaimed(x) \in Rows
  BY OptionsValidate, MaxWaitBounds
     DEF Rows, RefundStatuses, CanSubmit, SubmitClaimed
<1>2. ~x.manualReview
  BY DEF RowOK, CanSubmit
<1> QED
  BY <1>1, <1>2, OptionsValidate DEF Rows, RowOK, ClaimOK, CanSubmit, SubmitClaimed

\* Claiming a row for a lookup.
LEMMA ReconcileClaimedOK ==
  ASSUME NEW x \in Rows, RowOK(x), CanReconcile(x)
  PROVE  /\ ReconcileClaimed(x) \in Rows /\ RowOK(ReconcileClaimed(x))
         /\ ReconcileClaimed(x).version > x.version
         /\ ClaimOK(ReconcileClaimed(x), ReconcileClaimed(x))
<1> DEFINE a == [x EXCEPT !.token = x.version + 1]
           b == [a EXCEPT !.lease = LeaseDuration]
           c == [b EXCEPT !.version = x.version + 1]
<1>1. a \in Rows
  BY DEF Rows
<1> HIDE DEF a
<1>2. b \in Rows
  BY <1>1, OptionsValidate DEF Rows
<1> HIDE DEF b
<1>3. c \in Rows
  BY <1>2 DEF Rows
<1>4. ReconcileClaimed(x) = c
  BY DEF ReconcileClaimed, a, b
<1>5. RowOK(ReconcileClaimed(x)) /\ ReconcileClaimed(x).version > x.version
  BY DEF Rows, RowOK, CanReconcile, ReconcileClaimed
<1>6. ClaimOK(ReconcileClaimed(x), ReconcileClaimed(x))
  BY DEF Rows, RowOK, ClaimOK, CanReconcile, ReconcileClaimed
<1> QED
  BY <1>3, <1>4, <1>5, <1>6

\* The passing of time touches neither the version nor the state of a row.
LEMMA AgedOK ==
  ASSUME NEW x \in Rows
  PROVE  /\ Aged(x) \in Rows
         /\ Aged(x).status = x.status /\ Aged(x).attempts = x.attempts
         /\ Aged(x).checkFailures = x.checkFailures
         /\ Aged(x).retryable = x.retryable
         /\ Aged(x).manualReview = x.manualReview
         /\ Aged(x).lastError = x.lastError
         /\ Aged(x).token = x.token /\ Aged(x).version = x.version
         /\ Aged(x).lease = Decremented(x.lease)
<1> DEFINE a == [x EXCEPT !.wait = Decremented(x.wait)]
           b == [a EXCEPT !.lease = Decremented(x.lease)]
           c == [b EXCEPT !.started = IF x.attempts = 0
                                      THEN x.started
                                      ELSE MinOf(x.started + 1, StuckAfter)]
<1>1. a \in Rows
  BY MaxWaitBounds DEF Rows, Decremented
<1> HIDE DEF a
<1>2. b \in Rows
  BY <1>1, OptionsValidate DEF Rows, Decremented
<1> HIDE DEF b
<1>3. c \in Rows
  BY <1>2, OptionsValidate DEF Rows, MinOf
<1>4. Aged(x) = c
  BY DEF Aged, a, b
<1>5. Aged(x) \in Rows
  BY <1>3, <1>4
<1> QED
  BY <1>5 DEF Rows, Aged

--------------------------------------------------------------------------------
\* What decide makes of an answer

\* What the save relies on: a legal state, a retry only if an attempt is left,
\* another check only if a failure is left, a verdict only if it is the
\* provider's, an end only for one of three reasons, and no end and no review
\* only after an error or an answer that leaves the operation open.
GoodOutcome(c, ans, out) ==
  /\ out \in Outcomes
  /\ out.retryable => out.status = "FAILED" /\ c.attempts < MaxAttempts
  /\ out.manualReview => out.status = "PROCESSING"
  /\ out.status = "PROCESSING" /\ ~out.manualReview =>
       out.checkFailures < MaxCheckFailures
  /\ out.status = "SUCCEEDED" => FinalAnswer(ans) /\ ans.status = "SUCCEEDED"
  /\ out.status = "FAILED" /\ out.lastError = "declined" =>
       FinalAnswer(ans) /\ ans.status = "FAILED"
  /\ out.status = "FAILED" /\ ~out.retryable =>
       out.lastError \in {"declined", "rejected", "exhausted"}
  /\ out.status = "PROCESSING" /\ ~out.manualReview /\ ans.error = "none" =>
       ans.status \in {"PROCESSING", "UNKNOWN"}

\* A drawn delay is within MaxBackoff, hence within MaxWait.
LEMMA BackoffBounds ==
  ASSUME NEW n, NEW d \in Backoff(n)
  PROVE  d \in 0..MaxBackoff /\ d \in 0..MaxWait
  BY MaxWaitBounds, OptionsValidate DEF Backoff

\* The check interval is a wait, and zero a number of check failures.
LEMMA Waits == CheckInterval \in 0..MaxWait /\ 0 \in 0..MaxCheckFailures
  BY MaxWaitBounds, OptionsValidate

\* Asking a person is always a good outcome.
LEMMA ManualReviewGood ==
  ASSUME NEW c, NEW ans, NEW reason \in Reasons, NEW n \in 0..MaxCheckFailures,
         NEW out \in ManualReview(reason, n)
  PROVE  GoodOutcome(c, ans, out)
<1>1. out = Outcome("PROCESSING", FALSE, TRUE, reason, n, CheckInterval)
  BY DEF ManualReview
<1>2. out \in Outcomes
  BY <1>1, Waits DEF Outcome, Outcomes
<1>3. out.status = "PROCESSING" /\ out.manualReview /\ ~out.retryable
  BY <1>1 DEF Outcome
<1> QED
  BY <1>2, <1>3 DEF GoodOutcome

\* decide after an error (worker.go:148): the failures stay within their limit.
LEMMA DecideErrorGood ==
  ASSUME NEW c \in Rows, c.checkFailures < MaxCheckFailures,
         NEW ans \in Answers, ans.error # "none", NEW lookup \in BOOLEAN,
         NEW out \in DecideError(c, ans, lookup)
  PROVE  GoodOutcome(c, ans, out)
<1> DEFINE failures == IF lookup THEN c.checkFailures + 1 ELSE c.checkFailures
<1>1. CASE ans.error = "permanent" /\ ~lookup
  <2>1. out = Outcome("FAILED", FALSE, FALSE, "rejected", c.checkFailures, CheckInterval)
    BY <1>1 DEF DecideError
  <2>2. out \in Outcomes
    BY <2>1, Waits DEF Outcome, Outcomes, Rows, Reasons
  <2>3. out.status = "FAILED" /\ out.lastError = "rejected" /\ ~out.retryable /\ ~out.manualReview
    BY <2>1 DEF Outcome
  <2> QED
    BY <2>2, <2>3 DEF GoodOutcome
<1>2. CASE ~(ans.error = "permanent" /\ ~lookup) /\ ans.error = "configuration"
  <2>1. out \in ManualReview("error", c.checkFailures)
    BY <1>2 DEF DecideError
  <2> QED
    BY <2>1, ManualReviewGood DEF Rows, Reasons
<1>3. CASE ~(ans.error = "permanent" /\ ~lookup) /\ ans.error # "configuration"
  <2>1. PICK delay \in Backoff(MaxOf(c.attempts, failures)) :
          out = Outcome("PROCESSING", FALSE, failures >= MaxCheckFailures, "error",
                        failures, MaxOf(delay, ans.retryAfter))
    BY <1>3 DEF DecideError
  <2>2. MaxOf(delay, ans.retryAfter) \in 0..MaxWait
    BY BackoffBounds, MaxWaitBounds, RetryAfterAssumption, OptionsValidate DEF Answers, MaxOf
  <2>3. failures \in 0..MaxCheckFailures
    BY OptionsValidate DEF Rows
  <2>4. out \in Outcomes
    BY <2>1, <2>2, <2>3 DEF Outcome, Outcomes, Reasons
  <2>5. /\ out.status = "PROCESSING" /\ ~out.retryable
        /\ ~out.manualReview => out.checkFailures < MaxCheckFailures
    BY <2>1, <2>3, OptionsValidate DEF Outcome
  <2> QED
    BY <2>4, <2>5 DEF GoodOutcome
<1> QED
  BY <1>1, <1>2, <1>3

\* decide after FAILED: a retry only while an attempt is left.
LEMMA DecideFailedGood ==
  ASSUME NEW c \in Rows, NEW ans \in Answers, ans.error = "none",
         ans.status = "FAILED", NEW out \in DecideFailed(c, ans)
  PROVE  GoodOutcome(c, ans, out)
<1> DEFINE retry == ans.retryable /\ c.attempts < MaxAttempts
           reason == CASE ~ans.retryable -> "declined"
                       [] retry -> "temporary"
                       [] OTHER -> "exhausted"
<1>1. PICK delay \in Backoff(c.attempts) :
        out = Outcome("FAILED", retry, FALSE, reason, 0, delay)
  BY DEF DecideFailed
<1>2. delay \in 0..MaxWait
  BY BackoffBounds
<1>3. /\ reason \in Reasons
      /\ reason = "declined" => ~ans.retryable
      /\ ~retry => reason \in {"declined", "rejected", "exhausted"}
  BY DEF Reasons
<1>4. retry \in BOOLEAN /\ (retry => c.attempts < MaxAttempts)
  OBVIOUS
<1> HIDE DEF reason, retry
<1> QED
  BY <1>1, <1>2, <1>3, <1>4, OptionsValidate
     DEF GoodOutcome, FinalAnswer, Outcome, Outcomes

\* decide after NOT_FOUND.
LEMMA DecideNotFoundGood ==
  ASSUME NEW c \in Rows, NEW ans, NEW lookup \in BOOLEAN,
         NEW out \in DecideNotFound(c, lookup)
  PROVE  GoodOutcome(c, ans, out)
<1>1. CASE ~lookup
  <2>1. out \in ManualReview("nonsense", 0)
    BY <1>1 DEF DecideNotFound
  <2> QED
    BY <2>1, ManualReviewGood, Waits DEF Reasons
<1>2. CASE lookup /\ c.attempts >= MaxAttempts
  <2>1. out \in ManualReview("not-found-at-limit", 0)
    BY <1>2 DEF DecideNotFound
  <2> QED
    BY <2>1, ManualReviewGood, Waits DEF Reasons
<1>3. CASE lookup /\ ~(c.attempts >= MaxAttempts)
  <2>1. PICK delay \in Backoff(c.attempts) :
          out = Outcome("FAILED", TRUE, FALSE, "not-found", 0, delay)
    BY <1>3 DEF DecideNotFound
  <2>2. delay \in 0..MaxWait
    BY BackoffBounds
  <2>3. out \in Outcomes
    BY <2>1, <2>2, Waits DEF Outcome, Outcomes, Reasons
  <2>4. /\ out.status = "FAILED" /\ out.lastError = "not-found"
        /\ out.retryable /\ ~out.manualReview
    BY <2>1 DEF Outcome
  <2>5. c.attempts < MaxAttempts
    BY <1>3, OptionsValidate DEF Rows
  <2> QED
    BY <2>3, <2>4, <2>5 DEF GoodOutcome
<1> QED
  BY <1>1, <1>2, <1>3

\* decide after UNKNOWN: the failures stay within their limit.
LEMMA DecideUnknownGood ==
  ASSUME NEW c \in Rows, c.checkFailures < MaxCheckFailures, NEW ans,
         ans.status = "UNKNOWN", NEW out \in DecideUnknown(c)
  PROVE  GoodOutcome(c, ans, out)
<1> DEFINE failures == c.checkFailures + 1
           review == failures >= MaxCheckFailures \/ Stuck(c)
<1>1. PICK delay \in Backoff(failures) :
        out = Outcome("PROCESSING", FALSE, review, "unknown", failures, delay)
  BY DEF DecideUnknown
<1>2. delay \in 0..MaxWait
  BY BackoffBounds
<1>3. failures \in 0..MaxCheckFailures
  BY OptionsValidate DEF Rows
<1>4. review \in BOOLEAN /\ (~review => failures < MaxCheckFailures)
  BY <1>3, OptionsValidate
<1> HIDE DEF failures, review
<1> QED
  BY <1>1, <1>2, <1>3, <1>4 DEF GoodOutcome, Outcome, Outcomes, Reasons

\* Whatever the provider answers, decide comes to a good outcome.
LEMMA DecideGood ==
  ASSUME NEW c \in Rows, c.checkFailures < MaxCheckFailures,
         NEW ans \in Answers, NEW lookup \in BOOLEAN,
         NEW out \in Decide(c, ans, lookup)
  PROVE  GoodOutcome(c, ans, out)
<1>1. CASE ans.error # "none"
  BY <1>1, DecideErrorGood DEF Decide
<1>2. CASE ans.error = "none" /\ ans.status = "SUCCEEDED"
  <2>1. out = Outcome("SUCCEEDED", FALSE, FALSE, "", 0, CheckInterval)
    BY <1>2 DEF Decide
  <2>2. out \in Outcomes
    BY <2>1, Waits DEF Outcome, Outcomes, Reasons
  <2>3. out.status = "SUCCEEDED" /\ ~out.retryable /\ ~out.manualReview
    BY <2>1 DEF Outcome
  <2> QED
    BY <1>2, <2>2, <2>3 DEF GoodOutcome, FinalAnswer
<1>3. CASE ans.error = "none" /\ ans.status = "FAILED"
  BY <1>3, DecideFailedGood DEF Decide
<1>4. CASE ans.error = "none" /\ ans.status = "NOT_FOUND"
  BY <1>4, DecideNotFoundGood DEF Decide
<1>5. CASE ans.error = "none" /\ ans.status = "PROCESSING"
  <2>1. \/ out \in ManualReview("stuck", 0)
        \/ out = Outcome("PROCESSING", FALSE, FALSE, "", 0, CheckInterval)
    BY <1>5 DEF Decide
  <2>2. CASE out \in ManualReview("stuck", 0)
    BY <2>2, ManualReviewGood, Waits DEF Reasons
  <2>3. CASE out = Outcome("PROCESSING", FALSE, FALSE, "", 0, CheckInterval)
    <3>1. out \in Outcomes
      BY <2>3, Waits DEF Outcome, Outcomes, Reasons
    <3>2. /\ out.status = "PROCESSING" /\ ~out.retryable /\ ~out.manualReview
          /\ out.checkFailures = 0
      BY <2>3 DEF Outcome
    <3> QED
      BY <1>5, <3>1, <3>2, OptionsValidate DEF GoodOutcome
  <2> QED
    BY <2>1, <2>2, <2>3
<1>6. CASE ans.error = "none" /\ ans.status = "UNKNOWN"
  BY <1>6, DecideUnknownGood DEF Decide
<1> QED
  BY <1>1, <1>2, <1>3, <1>4, <1>5, <1>6 DEF Answers, ProviderStatuses

\* Saving a good outcome keeps the invariant of the row.
LEMMA AppliedOK ==
  ASSUME NEW x \in Rows, NEW ans, NEW out, GoodOutcome(x, ans, out), NEW lag \in Nat
  PROVE  /\ Applied(x, out, lag) \in Rows /\ RowOK(Applied(x, out, lag))
         /\ Applied(x, out, lag).version > x.version
         /\ x.status = "PROCESSING" => Accepted(x, out, lag)
<1> DEFINE left == IF out.wait > lag THEN out.wait - lag ELSE 0
<1>1. left \in 0..MaxWait
  BY MaxWaitBounds DEF GoodOutcome, Outcomes
<1>2. out.status \in {"PROCESSING", "SUCCEEDED", "FAILED"}
  BY DEF GoodOutcome, Outcomes
<1>3. Applied(x, out, lag) \in Rows
  BY <1>1, OptionsValidate DEF Applied, GoodOutcome, Outcomes, Rows, RefundStatuses
<1>4. RowOK(Applied(x, out, lag)) /\ Applied(x, out, lag).version > x.version
  BY <1>2 DEF Applied, GoodOutcome, Outcomes, Rows, RowOK
<1>5. x.status = "PROCESSING" => Accepted(x, out, lag)
  BY <1>2 DEF Applied, Accepted, GoodOutcome, GuardRefundTransition,
              ValidateRefundTransition, Outcomes, Rows
<1> QED
  BY <1>3, <1>4, <1>5

--------------------------------------------------------------------------------
\* What the provider answers

\* An error is no verdict.
LEMMA ErrorAnswerOK ==
  ASSUME NEW class \in {"plain", "permanent", "configuration"},
         NEW after \in {0, RetryAfter}, NEW rec
  PROVE  /\ ErrorAnswer(class, after) \in Answers
         /\ AnswerOK(ErrorAnswer(class, after), rec)
<1>1. ErrorAnswer(class, after) \in Answers
  BY DEF ErrorAnswer, Answers, ProviderStatuses
<1>2. ErrorAnswer(class, after).error # "none"
  BY DEF ErrorAnswer
<1> QED
  BY <1>1, <1>2 DEF AnswerOK, FinalAnswer

\* A result that repeats the record says what the record says.
LEMMA ResultAnswerOK ==
  ASSUME NEW rec \in Records
  PROVE  ResultAnswer(rec) \in Answers /\ AnswerOK(ResultAnswer(rec), rec)
<1>1. ResultAnswer(rec) \in Answers
  BY DEF ResultAnswer, Answers, Records
<1>2. ResultAnswer(rec).status = rec.status /\ ResultAnswer(rec).retryable = rec.retryable
  BY DEF ResultAnswer
<1> QED
  BY <1>1, <1>2 DEF AnswerOK, FinalAnswer, Records

\* The client's classification of an answer never invents a verdict.
LEMMA ClientCallOK ==
  ASSUME NEW isPost \in BOOLEAN, NEW code \in Nat, NEW rec \in Records
  PROVE  /\ ClientCall(isPost, code, rec) \in Answers
         /\ AnswerOK(ClientCall(isPost, code, rec), rec)
<1>1. NotFound \in Records /\ ResultAnswer(NotFound) \in Answers
  <2>1. NotFound \in Records
    BY DEF NotFound, Records, ProviderStatuses
  <2> QED
    BY <2>1, ResultAnswerOK
<1>2. AnswerOK(ResultAnswer(NotFound), rec)
  BY DEF AnswerOK, FinalAnswer, ResultAnswer, NotFound
<1>3. \/ ClientCall(isPost, code, rec) = ResultAnswer(NotFound)
      \/ ClientCall(isPost, code, rec) = ResultAnswer(rec)
      \/ ClientCall(isPost, code, rec) = ErrorAnswer("permanent", 0)
      \/ ClientCall(isPost, code, rec) = ErrorAnswer("configuration", 0)
      \/ ClientCall(isPost, code, rec) = ErrorAnswer("plain", RetryAfter)
      \/ ClientCall(isPost, code, rec) = ErrorAnswer("plain", 0)
  BY DEF ClientCall
<1> QED
  BY <1>1, <1>2, <1>3, ErrorAnswerOK, ResultAnswerOK

\* A lost answer is no verdict.
LEMMA TransportErrorOK ==
  ASSUME NEW rec
  PROVE  TransportError \in Answers /\ AnswerOK(TransportError, rec)
  BY ErrorAnswerOK DEF TransportError

\* A submission never replaces a final record.
LEMMA SubmitLockedOK ==
  ASSUME NEW old \in Records, NEW mode \in Modes, NEW o \in SubmitLocked(old, mode)
  PROVE  /\ o.code \in Nat /\ o.record \in Records
         /\ IsFinal(old) => o.record = old
<1>1. ModeRecord(mode) \in Records
  <2>1. ModeRecord(mode).status \in ProviderStatuses
    BY DEF ModeRecord, ProviderStatuses
  <2>2. ModeRecord(mode).retryable => ModeRecord(mode).status = "FAILED"
    BY DEF ModeRecord
  <2> QED
    BY <2>1, <2>2 DEF ModeRecord, Records
<1>2. IsFinal(old) => Replayed(old)
  BY DEF IsFinal, Replayed
<1>3. CASE Replayed(old)
  BY <1>3 DEF SubmitLocked
<1>4. CASE ~Replayed(old)
  <2>1. /\ o.code \in {503, 429, 400, 200, 500}
        /\ o.record = old \/ o.record = ModeRecord(mode)
    BY <1>4 DEF SubmitLocked
  <2> QED
    BY <1>1, <1>2, <1>4, <2>1
<1> QED
  BY <1>3, <1>4

\* Neither does an operator's decision.
LEMMA ResolutionsOK ==
  ASSUME NEW old \in Records, NEW rec \in Resolutions(old)
  PROVE  rec \in Records /\ ~IsFinal(old)
<1>1. /\ ~IsFinal(old)
      /\ \/ rec = [status |-> "SUCCEEDED", retryable |-> FALSE]
         \/ rec \in [status : {"FAILED"}, retryable : BOOLEAN]
  BY DEF Resolutions
<1>2. CASE rec = [status |-> "SUCCEEDED", retryable |-> FALSE]
  BY <1>1, <1>2 DEF Records, ProviderStatuses
<1>3. CASE rec \in [status : {"FAILED"}, retryable : BOOLEAN]
  BY <1>1, <1>3 DEF Records, ProviderStatuses
<1> QED
  BY <1>1, <1>2, <1>3

\* What was true of a final record stays true.
LEMMA RecordKept ==
  ASSUME NEW old \in Records, NEW rec \in Records, IsFinal(old) => rec = old
  PROVE  /\ \A ans : AnswerOK(ans, old) => AnswerOK(ans, rec)
         /\ \A x : VerdictOK(x, old) => VerdictOK(x, rec)
  BY DEF IsFinal, AnswerOK, FinalAnswer, VerdictOK

--------------------------------------------------------------------------------
\* Steps that change a row, a worker or a record

\* The trigger emits one of the known events, or none.
LEMMA EmitRefundOutboxType ==
  ASSUME NEW old, NEW new, NEW last \in EventKinds
  PROVE  EmitRefundOutbox(old, new, last) \in EventKinds
  BY DEF EmitRefundOutbox, EventKinds

\* The reconciliation result is one of the known ones.
LEMMA AuditType ==
  ASSUME NEW c, NEW ans \in Answers, NEW out
  PROVE  Audit(c, ans, out) \in Audits
<1>1. External(ans) \in ProviderStatuses \cup {"none", "ERROR"}
  BY DEF External, Answers
<1>2. Audit(c, ans, out).result \in AuditResults
  BY DEF Audit, AuditResults
<1> QED
  BY <1>1, <1>2 DEF Audit, Audits

\* A claim outlives the version of the row it was made of.
LEMMA ClaimOutdated ==
  ASSUME NEW c \in Rows, NEW x \in Rows, NEW y \in Rows, ClaimOK(c, x),
         y.version > x.version
  PROVE  ClaimOK(c, y)
  BY DEF ClaimOK, Rows

\* A row that moves on keeps everything that was known about claims of it.
LEMMA RowMoves ==
  ASSUME IInv, NEW r \in Refunds, NEW x \in Rows, RowOK(x),
         x.version > row[r].version, row' = [row EXCEPT ![r] = x],
         record' = record, VerdictOK(x, record[r])
  PROVE  /\ row' \in [Refunds -> Rows] /\ RowsOK' /\ VerdictsOK'
         /\ \A w \in Workers :
              worker[w].pc # "idle" =>
                ClaimOK(worker[w].claimed, row'[worker[w].refund])
<1>1. row' \in [Refunds -> Rows] /\ RowsOK' /\ VerdictsOK'
  BY DEF IInv, TypeOK, RowsOK, VerdictsOK
<1>2. ASSUME NEW w \in Workers, worker[w].pc # "idle"
      PROVE  ClaimOK(worker[w].claimed, row'[worker[w].refund])
  <2> DEFINE c == worker[w].claimed
             q == worker[w].refund
  <2>1. c \in Rows /\ q \in Refunds /\ row[q] \in Rows
    BY DEF IInv, TypeOK, WorkerStates
  <2>2. ClaimOK(c, row[q])
    BY <1>2 DEF IInv, ClaimsOK
  <2>3. CASE q = r
    <3>1. row'[q] = x
      BY <2>3 DEF IInv, TypeOK
    <3>2. x.version > row[q].version
      BY <2>3
    <3> QED
      BY <2>1, <2>2, <3>1, <3>2, ClaimOutdated
  <2>4. CASE q # r
    BY <2>1, <2>2, <2>4 DEF IInv, TypeOK
  <2> QED
    BY <2>3, <2>4
<1> QED
  BY <1>1, <1>2

\* A change of records that leaves final ones alone keeps answers and verdicts.
LEMMA RecordsMove ==
  ASSUME IInv, row' = row, record' \in [Refunds -> Records],
         \A r \in Refunds : IsFinal(record[r]) => record'[r] = record[r]
  PROVE  /\ VerdictsOK'
         /\ \A w \in Workers :
              worker[w].pc \in {"waiting", "returned"} =>
                AnswerOK(worker[w].answer, record'[worker[w].refund])
<1>1. ASSUME NEW r \in Refunds
      PROVE  /\ \A ans : AnswerOK(ans, record[r]) => AnswerOK(ans, record'[r])
             /\ \A x : VerdictOK(x, record[r]) => VerdictOK(x, record'[r])
  <2>1. record[r] \in Records /\ record'[r] \in Records
    BY DEF IInv, TypeOK
  <2> QED
    BY <2>1, RecordKept
<1>2. VerdictsOK'
  BY <1>1 DEF IInv, VerdictsOK
<1>3. ASSUME NEW w \in Workers, worker[w].pc \in {"waiting", "returned"}
      PROVE  AnswerOK(worker[w].answer, record'[worker[w].refund])
  <2>1. worker[w].refund \in Refunds
    BY DEF IInv, TypeOK, WorkerStates
  <2> QED
    BY <1>1, <1>3, <2>1 DEF IInv, AnswersOK
<1> QED
  BY <1>2, <1>3

\* A worker goes on with its round, or drops it, and the row stays as it is.
LEMMA WorkerMoves ==
  ASSUME IInv, NEW w \in Workers, NEW me \in WorkerStates,
         worker' = [worker EXCEPT ![w] = me],
         row' = row, event' = event, audit' = audit,
         late' \in [Refunds -> Nat], posts' \in [Refunds -> Nat], faults' \in Nat,
         record' \in [Refunds -> Records],
         \A r \in Refunds : IsFinal(record[r]) => record'[r] = record[r],
         me.pc # "idle" => /\ worker[w].pc # "idle"
                           /\ me.claimed = worker[w].claimed
                           /\ me.refund = worker[w].refund,
         me.pc \in {"waiting", "returned"} => AnswerOK(me.answer, record'[me.refund])
  PROVE  IInv'
<1>1. TypeOK'
  BY DEF IInv, TypeOK
<1>2. RowsOK'
  BY DEF IInv, RowsOK
<1>3. worker'[w] = me /\ \A v \in Workers : v # w => worker'[v] = worker[v]
  BY DEF IInv, TypeOK
<1>4. ClaimsOK'
  BY <1>3 DEF IInv, ClaimsOK
<1>5. VerdictsOK' /\ \A v \in Workers :
        worker[v].pc \in {"waiting", "returned"} =>
          AnswerOK(worker[v].answer, record'[worker[v].refund])
  BY RecordsMove
<1>6. AnswersOK'
  BY <1>3, <1>5 DEF AnswersOK
<1> QED
  BY <1>1, <1>2, <1>4, <1>5, <1>6 DEF IInv

\* The provider's record changes behind everyone's back.
LEMMA RecordMoves ==
  ASSUME IInv, NEW r \in Refunds, NEW rec \in Records,
         IsFinal(record[r]) => rec = record[r],
         record' = [record EXCEPT ![r] = rec], late' \in [Refunds -> Nat],
         UNCHANGED <<row, event, audit, worker, posts, faults>>
  PROVE  IInv'
<1>1. /\ record' \in [Refunds -> Records]
      /\ \A q \in Refunds : IsFinal(record[q]) => record'[q] = record[q]
  BY DEF IInv, TypeOK
<1>2. TypeOK'
  BY <1>1 DEF IInv, TypeOK
<1>3. RowsOK' /\ ClaimsOK'
  BY DEF IInv, RowsOK, ClaimsOK
<1>4. VerdictsOK' /\ AnswersOK'
  BY <1>1, RecordsMove DEF AnswersOK
<1> QED
  BY <1>2, <1>3, <1>4 DEF IInv

--------------------------------------------------------------------------------
\* The actions

\* A worker without a round, and a refund that does not exist yet, are well-formed.
LEMMA IdleType == NoRow \in Rows /\ RowOK(NoRow) /\ Idle \in WorkerStates /\ Idle.pc = "idle"
<1>1. NoRow \in Rows
  BY OptionsValidate, MaxWaitBounds DEF NoRow, Rows, RefundStatuses, Reasons
<1>2. RowOK(NoRow)
  BY DEF NoRow, RowOK
<1>3. (CHOOSE r \in Refunds : TRUE) \in Refunds
  BY RefundsAssumption
<1>4. TransportError \in Answers
  BY TransportErrorOK
<1>5. 0 \in 0..MaxAge
  BY MaxWaitBounds, OptionsValidate DEF MaxAge, MaxOf
<1>6. Idle \in WorkerStates
  BY <1>1, <1>3, <1>4, <1>5 DEF Idle, WorkerStates
<1>7. Idle.pc = "idle"
  BY DEF Idle
<1> QED
  BY <1>1, <1>2, <1>6, <1>7

\* The invariant holds initially.
LEMMA InitOK == Init => IInv
<1> SUFFICES ASSUME Init PROVE IInv
  OBVIOUS
<1>1. NotFound \in Records
  BY DEF NotFound, Records, ProviderStatuses
<1>2. [external |-> "none", result |-> "none"] \in Audits
  BY DEF Audits
<1>3. TypeOK
  BY <1>1, <1>2, IdleType DEF Init, TypeOK, EventKinds
<1>4. RowsOK
  BY IdleType DEF Init, RowsOK
<1>5. ClaimsOK /\ AnswersOK
  BY IdleType DEF Init, ClaimsOK, AnswersOK
<1>6. NoRow.status = "NONE"
  BY DEF NoRow
<1>7. VerdictsOK
  BY <1>6 DEF Init, VerdictsOK, VerdictOK
<1> QED
  BY <1>3, <1>4, <1>5, <1>7 DEF IInv

\* What a worker becomes within its round.
LEMMA WorkerTypes ==
  ASSUME NEW me \in WorkerStates
  PROVE  /\ [me EXCEPT !.pc = "calling", !.age = 0] \in WorkerStates
         /\ [me EXCEPT !.pc = "returned", !.age = 0] \in WorkerStates
         /\ [me EXCEPT !.stalled = TRUE] \in WorkerStates
         /\ \A ans \in Answers :
              /\ [me EXCEPT !.pc = "waiting", !.answer = ans] \in WorkerStates
              /\ [me EXCEPT !.pc = "returned", !.age = 0, !.answer = ans] \in WorkerStates
<1> DEFINE at(p) == [me EXCEPT !.pc = p]
<1>1. \A p \in {"calling", "waiting", "returned"} : at(p) \in WorkerStates
  BY DEF WorkerStates
<1>2. 0 \in 0..MaxAge
  BY MaxWaitBounds, OptionsValidate DEF MaxAge, MaxOf
<1> HIDE DEF at
<1>3. /\ [at("calling") EXCEPT !.age = 0] \in WorkerStates
      /\ [at("returned") EXCEPT !.age = 0] \in WorkerStates
  BY <1>1, <1>2 DEF WorkerStates
<1>4. ASSUME NEW ans \in Answers
      PROVE  /\ [at("waiting") EXCEPT !.answer = ans] \in WorkerStates
             /\ [[at("returned") EXCEPT !.age = 0] EXCEPT !.answer = ans] \in WorkerStates
  <2> DEFINE b == [at("returned") EXCEPT !.age = 0]
  <2>1. b \in WorkerStates
    BY <1>3
  <2> HIDE DEF b
  <2>2. [b EXCEPT !.answer = ans] \in WorkerStates
    BY <2>1 DEF WorkerStates
  <2>3. [at("waiting") EXCEPT !.answer = ans] \in WorkerStates
    BY <1>1 DEF WorkerStates
  <2> QED
    BY <2>2, <2>3 DEF b
<1>5. [me EXCEPT !.stalled = TRUE] \in WorkerStates
  BY DEF WorkerStates
<1> QED
  BY <1>3, <1>4, <1>5 DEF at

\* CreateRefund preserves the invariant.
LEMMA CreateRefundStep ==
  ASSUME IInv, NEW r \in Refunds, CreateRefund(r)
  PROVE  IInv'
<1> DEFINE x == Created(row[r])
<1>1. /\ row[r] \in Rows /\ RowOK(row[r]) /\ row[r].status = "NONE"
      /\ row' = [row EXCEPT ![r] = x]
  BY DEF IInv, TypeOK, RowsOK, CreateRefund
<1>2. x \in Rows /\ RowOK(x) /\ x.version > row[r].version
  BY <1>1, CreatedOK
<1>3. VerdictOK(x, record[r])
  BY <1>1 DEF Created, VerdictOK, Rows
<1> HIDE DEF x
<1>4. /\ row' \in [Refunds -> Rows] /\ RowsOK' /\ VerdictsOK'
      /\ \A w \in Workers :
           worker[w].pc # "idle" => ClaimOK(worker[w].claimed, row'[worker[w].refund])
  BY <1>1, <1>2, <1>3, RowMoves DEF CreateRefund
<1>5. TypeOK'
  BY <1>4 DEF IInv, TypeOK, CreateRefund, EventKinds
<1>6. ClaimsOK' /\ AnswersOK'
  BY <1>4 DEF IInv, ClaimsOK, AnswersOK, CreateRefund
<1> QED
  BY <1>4, <1>5, <1>6 DEF IInv

\* RequestRefundRecheck preserves the invariant.
LEMMA RecheckStep ==
  ASSUME IInv, NEW r \in Refunds, RequestRefundRecheck(r)
  PROVE  IInv'
<1> DEFINE x == Rechecked(row[r])
<1>1. /\ row[r] \in Rows /\ RowOK(row[r])
      /\ row[r].status = "PROCESSING" /\ row[r].manualReview
      /\ row' = [row EXCEPT ![r] = x]
      /\ event' = [event EXCEPT ![r] = EmitRefundOutbox(row[r], x, event[r])]
  BY DEF IInv, TypeOK, RowsOK, RequestRefundRecheck
<1>2. x \in Rows /\ RowOK(x) /\ x.version > row[r].version
  BY <1>1, RecheckedOK
<1>3. VerdictOK(x, record[r])
  BY <1>1 DEF Rechecked, VerdictOK, Rows
<1> HIDE DEF x
<1>4. /\ row' \in [Refunds -> Rows] /\ RowsOK' /\ VerdictsOK'
      /\ \A w \in Workers :
           worker[w].pc # "idle" => ClaimOK(worker[w].claimed, row'[worker[w].refund])
  BY <1>1, <1>2, <1>3, RowMoves DEF RequestRefundRecheck
<1>5. event' \in [Refunds -> EventKinds]
  BY <1>1, EmitRefundOutboxType DEF IInv, TypeOK
<1>6. TypeOK'
  BY <1>4, <1>5 DEF IInv, TypeOK, RequestRefundRecheck
<1>7. ClaimsOK' /\ AnswersOK'
  BY <1>4 DEF IInv, ClaimsOK, AnswersOK, RequestRefundRecheck
<1> QED
  BY <1>4, <1>6, <1>7 DEF IInv

\* Both kinds of claim.
LEMMA ClaimStep ==
  ASSUME IInv, NEW w \in Workers, NEW r \in Refunds, NEW x \in Rows,
         NEW lookup \in BOOLEAN, Claim(w, r, x, lookup), RowOK(x),
         x.status = "PROCESSING", x.version > row[r].version, ClaimOK(x, x)
  PROVE  IInv'
<1> DEFINE me == Holding(r, lookup, x)
<1>1. /\ row' = [row EXCEPT ![r] = x]
      /\ event' = [event EXCEPT ![r] = EmitRefundOutbox(row[r], x, event[r])]
      /\ worker' = [worker EXCEPT ![w] = me]
      /\ UNCHANGED <<audit, record, late, posts, faults>>
  BY DEF Claim
<1>2. VerdictOK(x, record[r])
  BY DEF VerdictOK
<1>3. /\ row' \in [Refunds -> Rows] /\ RowsOK' /\ VerdictsOK'
      /\ \A v \in Workers :
           worker[v].pc # "idle" => ClaimOK(worker[v].claimed, row'[worker[v].refund])
  BY <1>1, <1>2, RowMoves
<1>4. event' \in [Refunds -> EventKinds]
  BY <1>1, EmitRefundOutboxType DEF IInv, TypeOK
<1>5. me \in WorkerStates
  <2>1. 0 \in 0..MaxAge
    BY MaxWaitBounds, OptionsValidate DEF MaxAge, MaxOf
  <2> QED
    BY <2>1, TransportErrorOK DEF Holding, WorkerStates
<1>6. me.pc = "claimed" /\ me.claimed = x /\ me.refund = r
  BY DEF Holding
<1> HIDE DEF me
<1>7. TypeOK'
  BY <1>1, <1>3, <1>4, <1>5 DEF IInv, TypeOK
<1>8. worker'[w] = me /\ \A v \in Workers : v # w => worker'[v] = worker[v]
  BY <1>1 DEF IInv, TypeOK
<1>9. row'[r] = x
  BY <1>1 DEF IInv, TypeOK
<1>10. ClaimsOK'
  BY <1>3, <1>6, <1>8, <1>9 DEF ClaimsOK
<1>11. AnswersOK'
  BY <1>1, <1>6, <1>8 DEF IInv, AnswersOK
<1> QED
  BY <1>3, <1>7, <1>10, <1>11 DEF IInv

\* Claiming for submission preserves the invariant.
LEMMA ClaimSubmitStep ==
  ASSUME IInv, NEW w \in Workers, NEW r \in Refunds, ClaimSubmit(w, r)
  PROVE  IInv'
<1>1. row[r] \in Rows /\ RowOK(row[r]) /\ CanSubmit(row[r])
  BY DEF IInv, TypeOK, RowsOK, ClaimSubmit
<1>2. SubmitClaimed(row[r]).status = "PROCESSING"
  BY DEF SubmitClaimed
<1> QED
  BY <1>1, <1>2, SubmitClaimedOK, ClaimStep DEF ClaimSubmit

\* Claiming for reconciliation preserves the invariant.
LEMMA ClaimReconcileStep ==
  ASSUME IInv, NEW w \in Workers, NEW r \in Refunds, ClaimReconcile(w, r)
  PROVE  IInv'
<1>1. row[r] \in Rows /\ RowOK(row[r]) /\ CanReconcile(row[r])
  BY DEF IInv, TypeOK, RowsOK, ClaimReconcile
<1>2. ReconcileClaimed(row[r]).status = "PROCESSING"
  BY <1>1 DEF ReconcileClaimed, CanReconcile, Rows
<1> QED
  BY <1>1, <1>2, ReconcileClaimedOK, ClaimStep DEF ClaimReconcile

\* What is known of the worker an action is about.
LEMMA WorkerKnown ==
  ASSUME IInv, NEW w \in Workers
  PROVE  /\ worker[w] \in WorkerStates /\ worker[w].refund \in Refunds
         /\ worker[w].claimed \in Rows /\ worker[w].answer \in Answers
         /\ worker[w].lookup \in BOOLEAN /\ worker[w].age \in Nat
         /\ row[worker[w].refund] \in Rows /\ RowOK(row[worker[w].refund])
         /\ record[worker[w].refund] \in Records
  BY OptionsValidate, MaxWaitBounds
     DEF IInv, TypeOK, RowsOK, WorkerStates, MaxAge, MaxOf

\* Sending the request preserves the invariant.
LEMMA SendRequestStep ==
  ASSUME IInv, NEW w \in Workers, SendRequest(w)
  PROVE  IInv'
<1> DEFINE me == [worker[w] EXCEPT !.pc = "calling", !.age = 0]
<1>1. worker' = [worker EXCEPT ![w] = me]
  BY WorkerKnown DEF IInv, TypeOK, SendRequest, WorkerStates
<1>2. me \in WorkerStates
  BY WorkerKnown, WorkerTypes
<1>3. me.pc = "calling" /\ me.claimed = worker[w].claimed /\ me.refund = worker[w].refund
  BY WorkerKnown DEF WorkerStates
<1> HIDE DEF me
<1>4. posts' \in [Refunds -> Nat]
  BY WorkerKnown DEF IInv, TypeOK, SendRequest
<1>5. /\ worker[w].pc = "claimed" /\ UNCHANGED <<row, event, audit, record, late, faults>>
      /\ record' \in [Refunds -> Records] /\ late' \in [Refunds -> Nat] /\ faults' \in Nat
  BY DEF IInv, TypeOK, SendRequest
<1> QED
  BY <1>1, <1>2, <1>3, <1>4, <1>5, WorkerMoves

\* The provider has answered a call, and may have changed its record.
LEMMA AnsweredStep ==
  ASSUME IInv, NEW w \in Workers, worker[w].pc = "calling", NEW ans \in Answers,
         worker' = [worker EXCEPT ![w].pc = "waiting", ![w].answer = ans],
         UNCHANGED <<row, event, audit, posts, faults>>, late' \in [Refunds -> Nat],
         NEW rec \in Records, IsFinal(record[worker[w].refund]) => rec = record[worker[w].refund],
         record' = [record EXCEPT ![worker[w].refund] = rec], AnswerOK(ans, rec)
  PROVE  IInv'
<1> DEFINE me == [worker[w] EXCEPT !.pc = "waiting", !.answer = ans]
<1>1. worker' = [worker EXCEPT ![w] = me]
  BY WorkerKnown DEF IInv, TypeOK, WorkerStates
<1>2. me \in WorkerStates
  BY WorkerKnown, WorkerTypes
<1>3. /\ me.pc = "waiting" /\ me.claimed = worker[w].claimed
      /\ me.refund = worker[w].refund /\ me.answer = ans
  BY WorkerKnown DEF WorkerStates
<1> HIDE DEF me
<1>4. /\ record' \in [Refunds -> Records] /\ record'[me.refund] = rec
      /\ \A r \in Refunds : IsFinal(record[r]) => record'[r] = record[r]
  BY <1>3, WorkerKnown DEF IInv, TypeOK
<1>5. posts' \in [Refunds -> Nat] /\ faults' \in Nat /\ worker[w].pc # "idle" /\ AnswerOK(me.answer, record'[me.refund])
  BY <1>3, <1>4 DEF IInv, TypeOK
<1>6. row' = row /\ event' = event /\ audit' = audit
  OBVIOUS
<1> QED
  BY <1>1, <1>2, <1>3, <1>4, <1>5, <1>6, WorkerMoves

\* An answered POST preserves the invariant.
LEMMA ServeSubmitStep ==
  ASSUME IInv, NEW w \in Workers, ServeSubmit(w)
  PROVE  IInv'
<1> DEFINE r == worker[w].refund
<1>1. PICK mode \in Modes : \E o \in SubmitLocked(record[r], mode) :
        /\ record' = [record EXCEPT ![r] = o.record]
        /\ late' \in {late} \cup
             (IF o.code = 500 THEN {[late EXCEPT ![r] = @ + 1]} ELSE {})
        /\ worker' = [worker EXCEPT ![w].pc = "waiting",
                        ![w].answer = ClientCall(TRUE, o.code, o.record)]
  BY DEF ServeSubmit
<1>2. PICK o \in SubmitLocked(record[r], mode) :
        /\ record' = [record EXCEPT ![r] = o.record]
        /\ late' \in {late} \cup
             (IF o.code = 500 THEN {[late EXCEPT ![r] = @ + 1]} ELSE {})
        /\ worker' = [worker EXCEPT ![w].pc = "waiting",
                        ![w].answer = ClientCall(TRUE, o.code, o.record)]
  BY <1>1
<1>3. /\ o.code \in Nat /\ o.record \in Records
      /\ IsFinal(record[r]) => o.record = record[r]
  BY WorkerKnown, SubmitLockedOK
<1>4. late' \in [Refunds -> Nat]
  BY <1>2, WorkerKnown DEF IInv, TypeOK
<1>5. /\ ClientCall(TRUE, o.code, o.record) \in Answers
      /\ AnswerOK(ClientCall(TRUE, o.code, o.record), o.record)
  BY <1>3, ClientCallOK
<1>6. worker[w].pc = "calling" /\ UNCHANGED <<row, event, audit, posts, faults>>
  BY DEF ServeSubmit
<1> DEFINE rec == o.record
           ans == ClientCall(TRUE, o.code, o.record)
<1>7. /\ ans \in Answers /\ AnswerOK(ans, rec) /\ rec \in Records
      /\ IsFinal(record[worker[w].refund]) => rec = record[worker[w].refund]
      /\ record' = [record EXCEPT ![worker[w].refund] = rec]
      /\ worker' = [worker EXCEPT ![w].pc = "waiting", ![w].answer = ans]
  BY <1>2, <1>3, <1>5
<1> HIDE DEF rec, ans, r
<1> QED
  BY <1>4, <1>6, <1>7, AnsweredStep

\* An answered GET preserves the invariant.
LEMMA ServeLookupStep ==
  ASSUME IInv, NEW w \in Workers, ServeLookup(w)
  PROVE  IInv'
<1> DEFINE r == worker[w].refund
           ans == ClientCall(FALSE, LookupCode(record[r]), record[r])
<1>1. LookupCode(record[r]) \in Nat
  BY DEF LookupCode
<1>2. ans \in Answers /\ AnswerOK(ans, record[r])
  BY <1>1, WorkerKnown, ClientCallOK
<1>3. /\ worker[w].pc = "calling" /\ UNCHANGED <<row, event, audit, posts, faults>>
      /\ worker' = [worker EXCEPT ![w].pc = "waiting", ![w].answer = ans]
  BY DEF ServeLookup
<1>4. record' = [record EXCEPT ![r] = record[r]] /\ late' \in [Refunds -> Nat]
  BY WorkerKnown DEF IInv, TypeOK, ServeLookup
<1> HIDE DEF ans
<1> QED
  BY <1>2, <1>3, <1>4, WorkerKnown, AnsweredStep

\* A refused key preserves the invariant.
LEMMA UnauthorizedStep ==
  ASSUME IInv, NEW w \in Workers, Unauthorized(w)
  PROVE  IInv'
<1> DEFINE r == worker[w].refund
           ans == ClientCall(~worker[w].lookup, 401, NotFound)
<1>1. ans = ErrorAnswer("configuration", 0)
  BY DEF ClientCall
<1>2. ans \in Answers /\ AnswerOK(ans, record[r])
  BY <1>1, ErrorAnswerOK
<1>3. /\ worker[w].pc = "calling" /\ UNCHANGED <<row, event, audit, posts, faults>>
      /\ worker' = [worker EXCEPT ![w].pc = "waiting", ![w].answer = ans]
  BY DEF Unauthorized
<1>4. record' = [record EXCEPT ![r] = record[r]] /\ late' \in [Refunds -> Nat]
  BY WorkerKnown DEF IInv, TypeOK, Unauthorized
<1> HIDE DEF ans
<1> QED
  BY <1>2, <1>3, <1>4, WorkerKnown, AnsweredStep

\* Receiving the answer preserves the invariant.
LEMMA ReceiveAnswerStep ==
  ASSUME IInv, NEW w \in Workers, ReceiveAnswer(w)
  PROVE  IInv'
<1> DEFINE me == [worker[w] EXCEPT !.pc = "returned", !.age = 0]
<1>1. worker' = [worker EXCEPT ![w] = me]
  BY WorkerKnown DEF IInv, TypeOK, ReceiveAnswer, WorkerStates
<1>2. me \in WorkerStates
  BY WorkerKnown, WorkerTypes
<1>3. /\ me.pc = "returned" /\ me.claimed = worker[w].claimed
      /\ me.refund = worker[w].refund /\ me.answer = worker[w].answer
  BY WorkerKnown DEF WorkerStates
<1> HIDE DEF me
<1>4. worker[w].pc = "waiting" /\ UNCHANGED <<row, event, audit, record, late, posts, faults>>
  BY DEF ReceiveAnswer
<1>5. AnswerOK(me.answer, record'[me.refund])
  BY <1>3, <1>4 DEF IInv, AnswersOK
<1>6. /\ record' \in [Refunds -> Records] /\ late' \in [Refunds -> Nat]
      /\ posts' \in [Refunds -> Nat] /\ faults' \in Nat
  BY <1>4 DEF IInv, TypeOK
<1> QED
  BY <1>1, <1>2, <1>3, <1>4, <1>5, <1>6, WorkerMoves

\* Counting an orphaned submission keeps the counts natural numbers.
LEMMA OrphanedType ==
  ASSUME IInv, NEW w \in Workers
  PROVE  Orphaned(w) \in [Refunds -> Nat]
  BY WorkerKnown DEF IInv, TypeOK, Orphaned

\* A failed or timed-out call preserves the invariant.
LEMMA CallFailsStep ==
  ASSUME IInv, NEW w \in Workers, CallFails(w)
  PROVE  IInv'
<1> DEFINE me == [worker[w] EXCEPT !.pc = "returned", !.age = 0, !.answer = TransportError]
<1>1. worker' = [worker EXCEPT ![w] = me]
  BY WorkerKnown DEF IInv, TypeOK, CallFails, WorkerStates
<1>2. me \in WorkerStates
  BY WorkerKnown, WorkerTypes, TransportErrorOK
<1>3. /\ me.pc = "returned" /\ me.claimed = worker[w].claimed
      /\ me.refund = worker[w].refund /\ me.answer = TransportError
  BY WorkerKnown DEF WorkerStates
<1> HIDE DEF me
<1>4. /\ worker[w].pc # "idle" /\ UNCHANGED <<row, event, audit, record, posts, faults>>
      /\ late' = Orphaned(w)
  BY DEF CallFails
<1>5. AnswerOK(me.answer, record'[me.refund])
  BY <1>3, TransportErrorOK
<1>6. /\ record' \in [Refunds -> Records] /\ late' \in [Refunds -> Nat]
      /\ posts' \in [Refunds -> Nat] /\ faults' \in Nat
  BY <1>4, OrphanedType DEF IInv, TypeOK
<1> QED
  BY <1>1, <1>2, <1>3, <1>4, <1>5, <1>6, WorkerMoves

\* A delayed POST preserves the invariant.
LEMMA LateSubmitStep ==
  ASSUME IInv, NEW r \in Refunds, LateSubmit(r)
  PROVE  IInv'
<1>1. PICK mode \in Modes : \E o \in SubmitLocked(record[r], mode) :
        record' = [record EXCEPT ![r] = o.record]
  BY DEF LateSubmit
<1>2. PICK o \in SubmitLocked(record[r], mode) : record' = [record EXCEPT ![r] = o.record]
  BY <1>1
<1>3. o.record \in Records /\ (IsFinal(record[r]) => o.record = record[r])
  BY SubmitLockedOK DEF IInv, TypeOK
<1>4. late' \in [Refunds -> Nat]
  BY DEF IInv, TypeOK, LateSubmit
<1> QED
  BY <1>2, <1>3, <1>4, RecordMoves DEF LateSubmit

\* An operator's decision at the provider preserves the invariant.
LEMMA ResolveStep ==
  ASSUME IInv, NEW r \in Refunds, Resolve(r)
  PROVE  IInv'
<1>1. PICK rec \in Resolutions(record[r]) : record' = [record EXCEPT ![r] = rec]
  BY DEF Resolve
<1>2. rec \in Records /\ ~IsFinal(record[r])
  BY ResolutionsOK DEF IInv, TypeOK
<1>3. late' \in [Refunds -> Nat]
  BY DEF IInv, TypeOK, Resolve
<1> QED
  BY <1>1, <1>2, <1>3, RecordMoves DEF Resolve

\* A save of the lease holder: the row it decided from is the row it updates.
LEMMA SaveIsGood ==
  ASSUME IInv, NEW w \in Workers, worker[w].pc # "idle",
         LeaseValid(row[worker[w].refund], worker[w].claimed),
         NEW out \in Decide(worker[w].claimed, worker[w].answer, worker[w].lookup)
  PROVE  /\ GoodOutcome(row[worker[w].refund], worker[w].answer, out)
         /\ row[worker[w].refund].status = "PROCESSING"
<1> DEFINE x == row[worker[w].refund]
           c == worker[w].claimed
<1>1. ClaimOK(c, x)
  BY DEF IInv, ClaimsOK
<1>2. x.status = "PROCESSING" /\ x.attempts = c.attempts
  BY <1>1 DEF ClaimOK, LeaseValid
<1>3. GoodOutcome(c, worker[w].answer, out)
  BY <1>1, WorkerKnown, DecideGood DEF ClaimOK
<1> QED
  BY <1>2, <1>3 DEF GoodOutcome

\* Saving an outcome preserves the invariant.
LEMMA SaveAppliedStep ==
  ASSUME IInv, NEW w \in Workers, SaveApplied(w)
  PROVE  IInv'
<1> DEFINE r == worker[w].refund
           ans == worker[w].answer
<1>1. PICK out \in Decide(worker[w].claimed, ans, worker[w].lookup) :
        /\ row' = [row EXCEPT ![r] = Applied(row[r], out, worker[w].age)]
        /\ event' = [event EXCEPT ![r] =
             EmitRefundOutbox(row[r], Applied(row[r], out, worker[w].age), event[r])]
        /\ audit' = IF worker[w].lookup
                    THEN [audit EXCEPT ![r] = Audit(worker[w].claimed, ans, out)]
                    ELSE audit
  BY DEF SaveApplied
<1>2. /\ worker[w].pc = "returned" /\ LeaseValid(row[r], worker[w].claimed)
      /\ worker' = [worker EXCEPT ![w] = Idle]
      /\ UNCHANGED <<record, late, posts, faults>>
  BY DEF SaveApplied
<1>3. GoodOutcome(row[r], ans, out) /\ row[r].status = "PROCESSING"
  BY <1>2, SaveIsGood
<1> DEFINE x == Applied(row[r], out, worker[w].age)
<1>4. x \in Rows /\ RowOK(x) /\ x.version > row[r].version
  BY <1>3, WorkerKnown, AppliedOK
<1>5. VerdictOK(x, record[r])
  <2>1. AnswerOK(ans, record[r])
    BY <1>2 DEF IInv, AnswersOK
  <2>2. x.status = out.status /\ x.lastError = out.lastError
    BY DEF Applied
  <2> HIDE DEF x
  <2> QED
    BY <1>3, <2>1, <2>2 DEF GoodOutcome, AnswerOK, VerdictOK
<1> HIDE DEF x
<1>6. /\ row' \in [Refunds -> Rows] /\ RowsOK' /\ VerdictsOK'
      /\ \A v \in Workers :
           worker[v].pc # "idle" => ClaimOK(worker[v].claimed, row'[worker[v].refund])
  BY <1>1, <1>2, <1>4, <1>5, WorkerKnown, RowMoves DEF x
<1>7. event' \in [Refunds -> EventKinds]
  BY <1>1, EmitRefundOutboxType, WorkerKnown DEF IInv, TypeOK
<1>8. audit' \in [Refunds -> Audits]
  BY <1>1, AuditType, WorkerKnown DEF IInv, TypeOK
<1>9. TypeOK'
  BY <1>2, <1>6, <1>7, <1>8, IdleType DEF IInv, TypeOK
<1>10. worker'[w] = Idle /\ \A v \in Workers : v # w => worker'[v] = worker[v]
  BY <1>2 DEF IInv, TypeOK
<1>11. ClaimsOK'
  BY <1>6, <1>10, IdleType DEF ClaimsOK
<1>12. AnswersOK'
  BY <1>2, <1>10, IdleType DEF IInv, AnswersOK
<1> QED
  BY <1>6, <1>9, <1>11, <1>12 DEF IInv

\* The round ends without a save.
LEMMA DropStep ==
  ASSUME IInv, NEW w \in Workers, SaveRejected(w) \/ Crash(w)
  PROVE  IInv'
<1>1. /\ worker' = [worker EXCEPT ![w] = Idle]
      /\ UNCHANGED <<row, event, audit, record, posts>>
      /\ late' = late \/ late' = Orphaned(w)
      /\ faults' = faults \/ faults' = faults + 1
  BY DEF SaveRejected, Crash
<1>2. /\ record' \in [Refunds -> Records] /\ late' \in [Refunds -> Nat]
      /\ posts' \in [Refunds -> Nat] /\ faults' \in Nat
  BY <1>1, OrphanedType DEF IInv, TypeOK
<1> QED
  BY <1>1, <1>2, IdleType, WorkerMoves

\* A suspended worker preserves the invariant.
LEMMA StallStep ==
  ASSUME IInv, NEW w \in Workers, Stall(w)
  PROVE  IInv'
<1> DEFINE me == [worker[w] EXCEPT !.stalled = TRUE]
<1>1. worker' = [worker EXCEPT ![w] = me]
  BY WorkerKnown DEF IInv, TypeOK, Stall, WorkerStates
<1>2. me \in WorkerStates
  BY WorkerKnown, WorkerTypes
<1>3. /\ me.pc = worker[w].pc /\ me.claimed = worker[w].claimed
      /\ me.refund = worker[w].refund /\ me.answer = worker[w].answer
  BY WorkerKnown DEF WorkerStates
<1> HIDE DEF me
<1>4. worker[w].pc # "idle" /\ UNCHANGED <<row, event, audit, record, late, posts>>
  BY DEF Stall
<1>5. me.pc \in {"waiting", "returned"} => AnswerOK(me.answer, record'[me.refund])
  BY <1>3, <1>4 DEF IInv, AnswersOK
<1>6. /\ record' \in [Refunds -> Records] /\ late' \in [Refunds -> Nat]
      /\ posts' \in [Refunds -> Nat] /\ faults' \in Nat
  BY <1>4 DEF IInv, TypeOK, Stall
<1> QED
  BY <1>1, <1>2, <1>3, <1>4, <1>5, <1>6, WorkerMoves

\* What the passing of time does to a worker.
LEMMA AgedWorkerOK ==
  ASSUME NEW me \in WorkerStates
  PROVE  /\ AgedWorker(me) \in WorkerStates
         /\ AgedWorker(me).pc = me.pc /\ AgedWorker(me).refund = me.refund
         /\ AgedWorker(me).answer = me.answer /\ AgedWorker(me).lookup = me.lookup
         /\ AgedWorker(me).stalled = me.stalled
         /\ AgedWorker(me).claimed = IF me.pc \in {"idle", "returned"}
                                     THEN me.claimed ELSE Aged(me.claimed)
         /\ me.pc # "idle" => AgedWorker(me).age = MinOf(me.age + 1, MaxAge)
<1> DEFINE n == MinOf(me.age + 1, MaxAge)
           older == [me EXCEPT !.age = n]
           both == [older EXCEPT !.claimed = Aged(me.claimed)]
<1>1. n \in 0..MaxAge
  BY MaxWaitBounds, OptionsValidate DEF MinOf, MaxAge, MaxOf, WorkerStates
<1>2. older \in WorkerStates
  BY <1>1 DEF WorkerStates
<1>3. Aged(me.claimed) \in Rows
  BY AgedOK DEF WorkerStates
<1> HIDE DEF n
<1>4. /\ older.pc = me.pc /\ older.refund = me.refund /\ older.answer = me.answer
      /\ older.stalled = me.stalled /\ older.claimed = me.claimed /\ older.age = n
      /\ older.lookup = me.lookup
  BY DEF WorkerStates
<1> HIDE DEF older
<1>5. /\ both \in WorkerStates
      /\ both.pc = me.pc /\ both.refund = me.refund /\ both.answer = me.answer
      /\ both.stalled = me.stalled /\ both.claimed = Aged(me.claimed) /\ both.age = n
      /\ both.lookup = me.lookup
  BY <1>2, <1>3, <1>4 DEF WorkerStates
<1>6. AgedWorker(me) = CASE me.pc = "idle" -> me
                         [] me.pc = "returned" -> older
                         [] OTHER -> both
  BY DEF AgedWorker, older, n
<1> HIDE DEF both
<1>7. CASE me.pc = "idle"
  BY <1>6, <1>7
<1>8. CASE me.pc = "returned"
  BY <1>2, <1>4, <1>6, <1>8 DEF n
<1>9. CASE me.pc \notin {"idle", "returned"}
  BY <1>5, <1>6, <1>9 DEF n
<1> QED
  BY <1>7, <1>8, <1>9

\* The passing of time preserves the invariant.
LEMMA TickStep ==
  ASSUME IInv, Tick
  PROVE  IInv'
<1>1. /\ row' = [r \in Refunds |-> Aged(row[r])]
      /\ worker' = [w \in Workers |-> AgedWorker(worker[w])]
      /\ UNCHANGED <<event, audit, record, late, posts, faults>>
  BY DEF Tick
<1>2. TypeOK'
  <2>1. \A r \in Refunds : Aged(row[r]) \in Rows
    BY AgedOK DEF IInv, TypeOK
  <2>2. \A w \in Workers : AgedWorker(worker[w]) \in WorkerStates
    BY AgedWorkerOK DEF IInv, TypeOK
  <2> QED
    BY <1>1, <2>1, <2>2 DEF IInv, TypeOK
<1>3. ASSUME NEW r \in Refunds
      PROVE  RowOK(row'[r]) /\ VerdictOK(row'[r], record'[r])
  <2>1. row[r] \in Rows /\ RowOK(row[r]) /\ VerdictOK(row[r], record[r])
    BY DEF IInv, TypeOK, RowsOK, VerdictsOK
  <2>2. row'[r] = Aged(row[r]) /\ record'[r] = record[r]
    BY <1>1
  <2> QED
    BY <2>1, <2>2, AgedOK DEF RowOK, VerdictOK
<1>4. ASSUME NEW w \in Workers, worker'[w].pc # "idle"
      PROVE  ClaimOK(worker'[w].claimed, row'[worker'[w].refund])
  <2> DEFINE c == worker[w].claimed
             x == row[worker[w].refund]
  <2>1. worker'[w] = AgedWorker(worker[w]) /\ worker[w] \in WorkerStates
    BY <1>1, WorkerKnown
  <2>2. /\ worker[w].pc # "idle" /\ worker'[w].refund = worker[w].refund
        /\ worker'[w].claimed = c \/ worker'[w].claimed = Aged(c)
    BY <1>4, <2>1, AgedWorkerOK
  <2>3. ClaimOK(c, x) /\ c \in Rows /\ x \in Rows
    BY <2>2, WorkerKnown DEF IInv, ClaimsOK
  <2>4. row'[worker'[w].refund] = Aged(x)
    BY <1>1, <2>2, WorkerKnown
  <2> HIDE DEF c, x
  <2>5. ClaimOK(c, Aged(x)) /\ ClaimOK(Aged(c), Aged(x))
    BY <2>3, AgedOK DEF ClaimOK
  <2> QED
    BY <2>2, <2>4, <2>5
<1>5. ASSUME NEW w \in Workers, worker'[w].pc \in {"waiting", "returned"}
      PROVE  AnswerOK(worker'[w].answer, record'[worker'[w].refund])
  <2>1. worker'[w] = AgedWorker(worker[w]) /\ worker[w] \in WorkerStates
    BY <1>1, WorkerKnown
  <2>2. /\ worker'[w].pc = worker[w].pc /\ worker'[w].refund = worker[w].refund
        /\ worker'[w].answer = worker[w].answer
    BY <2>1, AgedWorkerOK
  <2> QED
    BY <1>1, <1>5, <2>2 DEF IInv, AnswersOK
<1> QED
  BY <1>2, <1>3, <1>4, <1>5 DEF IInv, RowsOK, ClaimsOK, AnswersOK, VerdictsOK

\* IInv is inductive.
LEMMA NextStep ==
  ASSUME IInv, [Next]_vars
  PROVE  IInv'
<1>1. ASSUME NEW r \in Refunds, CreateRefund(r) PROVE IInv'
  BY <1>1, CreateRefundStep
<1>2. ASSUME NEW r \in Refunds, RequestRefundRecheck(r) PROVE IInv'
  BY <1>2, RecheckStep
<1>3. ASSUME NEW r \in Refunds, Claims(r) PROVE IInv'
  BY <1>3, ClaimSubmitStep, ClaimReconcileStep DEF Claims
<1>4. ASSUME NEW r \in Refunds, LateSubmit(r) PROVE IInv'
  BY <1>4, LateSubmitStep
<1>5. ASSUME NEW r \in Refunds, Resolve(r) PROVE IInv'
  BY <1>5, ResolveStep
<1>6. ASSUME NEW w \in Workers, Continue(w) PROVE IInv'
  <2>1. CASE SendRequest(w)
    BY <2>1, SendRequestStep
  <2>2. CASE ServeSubmit(w)
    BY <2>2, ServeSubmitStep
  <2>3. CASE ServeLookup(w)
    BY <2>3, ServeLookupStep
  <2>4. CASE Unauthorized(w)
    BY <2>4, UnauthorizedStep
  <2>5. CASE ReceiveAnswer(w)
    BY <2>5, ReceiveAnswerStep
  <2>6. CASE CallFails(w)
    BY <2>6, CallFailsStep
  <2>7. CASE SaveApplied(w)
    BY <2>7, SaveAppliedStep
  <2>8. CASE SaveRejected(w)
    BY <2>8, DropStep
  <2> QED
    BY <1>6, <2>1, <2>2, <2>3, <2>4, <2>5, <2>6, <2>7, <2>8 DEF Continue
<1>7. ASSUME NEW w \in Workers, Crash(w) PROVE IInv'
  BY <1>7, DropStep
<1>8. ASSUME NEW w \in Workers, Stall(w) PROVE IInv'
  BY <1>8, StallStep
<1>9. CASE Tick
  BY <1>9, TickStep
<1>10. CASE UNCHANGED vars
  BY <1>10 DEF vars, IInv, TypeOK, RowsOK, ClaimsOK, AnswersOK, VerdictsOK
<1> QED
  BY <1>1, <1>2, <1>3, <1>4, <1>5, <1>6, <1>7, <1>8, <1>9, <1>10 DEF Next

\* IInv holds in every state of every behaviour of the refund workers,
\* whatever is lost, delayed, repeated or restarted.
THEOREM Invariance == Spec => []IInv
<1>1. IInv /\ [Next]_vars => IInv'
  BY NextStep
<1> QED
  BY <1>1, InitOK, PTL DEF Spec

--------------------------------------------------------------------------------
\* What follows from the invariant

\* Every variable keeps its type, whatever the provider and the faults do.
THEOREM TypeCorrect == Spec => []TypeOK
<1>1. IInv => TypeOK
  BY DEF IInv
<1> QED
  BY <1>1, Invariance, PTL

\* A refund that waits for a retry has an attempt left (worker.go decides,
\* ClaimRefund hands out).
THEOREM RetriesCanRun == Spec => []RetryableCanRun
<1>1. IInv => RetryableCanRun
  BY OptionsValidate DEF IInv, TypeOK, RowsOK, RowOK, RetryableCanRun
<1> QED
  BY <1>1, Invariance, PTL

\* The lease check of ApplyRefundOutcome is a fence: what passes it was decided
\* from the row it overwrites.
THEOREM DecisionsAreFresh == Spec => []FreshDecision
<1>1. IInv => FreshDecision
  <2> SUFFICES ASSUME IInv, NEW w \in Workers, worker[w].pc # "idle",
                      LeaseValid(row[worker[w].refund], worker[w].claimed)
               PROVE  LET x == row[worker[w].refund]
                          c == worker[w].claimed
                      IN  /\ x.status = c.status /\ x.attempts = c.attempts
                          /\ x.checkFailures = c.checkFailures
    BY DEF FreshDecision
  <2>1. ClaimOK(worker[w].claimed, row[worker[w].refund])
    BY DEF IInv, ClaimsOK
  <2> QED
    BY <2>1 DEF ClaimOK, LeaseValid
<1> QED
  BY <1>1, Invariance, PTL

\* The database never refuses what decide makes of an answer.
THEOREM SavesAreAccepted == Spec => []SavesAccepted
<1>1. IInv => SavesAccepted
  <2> SUFFICES ASSUME IInv, NEW w \in Workers, worker[w].pc = "returned",
                      LeaseValid(row[worker[w].refund], worker[w].claimed),
                      NEW out \in Decide(worker[w].claimed, worker[w].answer,
                                         worker[w].lookup)
               PROVE  Accepted(row[worker[w].refund], out, worker[w].age)
    BY DEF SavesAccepted
  <2>1. /\ GoodOutcome(row[worker[w].refund], worker[w].answer, out)
        /\ row[worker[w].refund].status = "PROCESSING"
    BY SaveIsGood
  <2> QED
    BY <2>1, WorkerKnown, AppliedOK
<1> QED
  BY <1>1, Invariance, PTL

\* A refund is reported as succeeded, or as declined, only if the provider's
\* final record says so, whichever answers were lost, late or repeated.
THEOREM VerdictsAreReal == Spec => []VerdictIsReal
<1>1. IInv => VerdictIsReal
  BY DEF IInv, VerdictsOK, VerdictOK, VerdictIsReal
<1> QED
  BY <1>1, Invariance, PTL

\* A refund that is done is never touched again.
THEOREM DoneStaysDone == Spec => FinalIsFinal
<1>1. ASSUME IInv, Next PROVE FinalStep
  <2> SUFFICES ASSUME NEW q \in Refunds,
                      row[q].status = "SUCCEEDED"
                        \/ (row[q].status = "FAILED" /\ ~row[q].retryable)
               PROVE  row'[q].version = row[q].version /\ row'[q].status = row[q].status
    BY DEF FinalStep
  <2>1. row \in [Refunds -> Rows] /\ row[q] \in Rows /\ RowOK(row[q])
    BY <1>1 DEF IInv, TypeOK, RowsOK
  <2>2. ASSUME NEW r \in Refunds, CreateRefund(r) PROVE row'[q] = row[q]
    BY <2>1, <2>2 DEF CreateRefund
  <2>3. ASSUME NEW r \in Refunds, RequestRefundRecheck(r) PROVE row'[q] = row[q]
    BY <2>1, <2>3 DEF RequestRefundRecheck
  <2>4. ASSUME NEW r \in Refunds, Claims(r) PROVE row'[q] = row[q]
    BY <2>1, <2>4 DEF Claims, ClaimSubmit, ClaimReconcile, CanSubmit, CanReconcile, Claim
  <2>5. ASSUME NEW w \in Workers, SaveApplied(w) PROVE row'[q] = row[q]
    <3>1. q # worker[w].refund
      BY <2>1, <2>5 DEF SaveApplied, LeaseValid, RowOK
    <3> QED
      BY <2>1, <2>5, <3>1 DEF SaveApplied
  <2>6. CASE Tick
    BY <2>1, <2>6, AgedOK DEF Tick
  <2>7. ASSUME NEW w \in Workers, Continue(w), ~SaveApplied(w) PROVE row' = row
    BY <2>7 DEF Continue, SendRequest, ServeSubmit, ServeLookup, Unauthorized,
                ReceiveAnswer, CallFails, SaveRejected
  <2>8. ASSUME NEW r \in Refunds, LateSubmit(r) \/ Resolve(r) PROVE row' = row
    BY <2>8 DEF LateSubmit, Resolve
  <2>9. ASSUME NEW w \in Workers, Crash(w) \/ Stall(w) PROVE row' = row
    BY <2>9 DEF Crash, Stall
  <2> QED
    BY <1>1, <2>2, <2>3, <2>4, <2>5, <2>6, <2>7, <2>8, <2>9 DEF Next
<1>2. IInv /\ [Next]_vars => [FinalStep]_vars
  BY <1>1
<1> QED
  BY <1>2, Invariance, PTL DEF Spec, FinalIsFinal

--------------------------------------------------------------------------------
\* The lease of a worker that keeps going

\* Two workers never hold the same version of a row.
UniqueClaims ==
  \A v, w \in Workers :
    /\ v # w /\ worker[v].pc # "idle" /\ worker[w].pc # "idle"
    /\ worker[v].refund = worker[w].refund
    => worker[v].claimed.version # worker[w].claimed.version

\* The lease loses one tick for every tick of the HTTP call, and no other.
LeaseKept(me, x) ==
  me.pc # "idle" /\ ~me.stalled =>
    /\ x.version = me.claimed.version /\ x.token = me.claimed.token
    /\ x.lease = me.claimed.lease
    /\ me.pc = "claimed" => x.lease = LeaseDuration
    /\ me.pc \in {"calling", "waiting"} =>
         x.lease + me.age >= LeaseDuration /\ me.age <= RequestTimeout
    /\ me.pc = "returned" => x.lease + RequestTimeout >= LeaseDuration

LeasesKept == \A w \in Workers : LeaseKept(worker[w], row[worker[w].refund])

LInv == IInv /\ UniqueClaims /\ LeasesKept

\* A lease that is kept has time left: it is at least twice the timeout.
LEMMA LeaseLeft ==
  ASSUME LInv, NEW w \in Workers, worker[w].pc # "idle", ~worker[w].stalled
  PROVE  /\ LeaseValid(row[worker[w].refund], worker[w].claimed)
         /\ row[worker[w].refund].lease > 0
<1> DEFINE me == worker[w]
           x == row[worker[w].refund]
<1>1. LeaseKept(me, x) /\ ClaimOK(me.claimed, x) /\ me \in WorkerStates /\ x \in Rows
  BY WorkerKnown DEF LInv, LeasesKept, IInv, ClaimsOK
<1>2. me.pc \in {"claimed", "calling", "waiting", "returned"} /\ me.age \in Nat
  BY WorkerKnown DEF LInv, WorkerStates
<1>3. x.lease \in Nat /\ x.lease + RequestTimeout >= LeaseDuration
  BY <1>1, <1>2, OptionsValidate DEF LeaseKept, Rows
<1>4. x.lease > 0
  BY <1>3, OptionsValidate
<1>5. x.token # 0 /\ x.token = me.claimed.token /\ x.version = me.claimed.version
  BY <1>1 DEF LeaseKept, ClaimOK, WorkerStates, Rows
<1>6. me.claimed.lease > 0
  BY <1>1, <1>4 DEF LeaseKept
<1> QED
  BY <1>4, <1>5, <1>6 DEF LeaseValid

\* A row that moves on touches no lease, if whoever holds it is stalled.
LEMMA LeasesOfOthers ==
  ASSUME LInv, NEW r \in Refunds, NEW x, row' = [row EXCEPT ![r] = x],
         NEW v \in Workers,
         worker[v].refund = r => worker[v].pc = "idle" \/ worker[v].stalled
  PROVE  LeaseKept(worker[v], row'[worker[v].refund])
<1>1. row \in [Refunds -> Rows] /\ worker[v].refund \in Refunds
  BY WorkerKnown DEF LInv, IInv, TypeOK
<1>2. LeaseKept(worker[v], row[worker[v].refund])
  BY DEF LInv, LeasesKept
<1>3. CASE worker[v].refund = r
  BY <1>3 DEF LeaseKept
<1>4. CASE worker[v].refund # r
  BY <1>1, <1>2, <1>4
<1> QED
  BY <1>3, <1>4

\* A worker goes on with its round, or drops it.
LEMMA LeaseWorkerMoves ==
  ASSUME LInv, IInv', NEW w \in Workers, NEW me, worker' = [worker EXCEPT ![w] = me],
         row' = row, LeaseKept(me, row[me.refund]),
         me.pc # "idle" => /\ worker[w].pc # "idle"
                           /\ me.claimed = worker[w].claimed
                           /\ me.refund = worker[w].refund
  PROVE  LInv'
<1>1. worker'[w] = me /\ \A v \in Workers : v # w => worker'[v] = worker[v]
  BY DEF LInv, IInv, TypeOK
<1>2. UniqueClaims'
  BY <1>1 DEF LInv, UniqueClaims
<1>3. LeasesKept'
  BY <1>1 DEF LInv, LeasesKept
<1> QED
  BY <1>2, <1>3 DEF LInv

\* A row changes that no worker can hold.
LEMMA LeaseRowMoves ==
  ASSUME LInv, IInv', NEW r \in Refunds, NEW x, row' = [row EXCEPT ![r] = x],
         worker' = worker, row[r].status # "PROCESSING" \/ row[r].manualReview
  PROVE  LInv'
<1>1. ASSUME NEW v \in Workers, worker[v].refund = r
      PROVE  worker[v].pc = "idle" \/ worker[v].stalled
  <2> SUFFICES ASSUME worker[v].pc # "idle", ~worker[v].stalled PROVE FALSE
    OBVIOUS
  <2>1. row[r].version = worker[v].claimed.version
    BY <1>1 DEF LInv, LeasesKept, LeaseKept
  <2>2. ClaimOK(worker[v].claimed, row[r])
    BY <1>1 DEF LInv, IInv, ClaimsOK
  <2> QED
    BY <2>1, <2>2 DEF ClaimOK
<1>2. UniqueClaims'
  BY DEF LInv, UniqueClaims
<1>3. LeasesKept'
  BY <1>1, LeasesOfOthers DEF LeasesKept
<1> QED
  BY <1>2, <1>3 DEF LInv

\* A due row is claimed: nobody who keeps going holds it.
LEMMA LeaseClaim ==
  ASSUME LInv, IInv', NEW w \in Workers, NEW r \in Refunds, NEW x \in Rows, NEW lookup,
         Claim(w, r, x, lookup), row[r].lease = 0, x.version > row[r].version,
         x.lease = LeaseDuration
  PROVE  LInv'
<1> DEFINE me == Holding(r, lookup, x)
<1>1. row' = [row EXCEPT ![r] = x] /\ worker' = [worker EXCEPT ![w] = me]
  BY DEF Claim
<1>2. /\ me.pc = "claimed" /\ me.claimed = x /\ me.refund = r
  BY DEF Holding
<1> HIDE DEF me
<1>3. worker'[w] = me /\ \A v \in Workers : v # w => worker'[v] = worker[v]
  BY <1>1 DEF LInv, IInv, TypeOK
<1>4. row'[r] = x
  BY <1>1 DEF LInv, IInv, TypeOK
<1>5. ASSUME NEW v \in Workers, worker[v].refund = r
      PROVE  worker[v].pc = "idle" \/ worker[v].stalled
  BY <1>5, LeaseLeft
<1>6. ASSUME NEW v \in Workers, v # w
      PROVE  LeaseKept(worker'[v], row'[worker'[v].refund])
  BY <1>1, <1>3, <1>5, <1>6, LeasesOfOthers
<1>7. LeaseKept(me, x)
  BY <1>2 DEF LeaseKept
<1>8. LeasesKept'
  BY <1>2, <1>3, <1>4, <1>6, <1>7 DEF LeasesKept
<1>9. ASSUME NEW v \in Workers, worker[v].pc # "idle", worker[v].refund = r
      PROVE  worker[v].claimed.version # x.version
  <2>1. ClaimOK(worker[v].claimed, row[r]) /\ worker[v].claimed \in Rows /\ row[r] \in Rows
    BY <1>9, WorkerKnown DEF LInv, IInv, ClaimsOK
  <2> QED
    BY <2>1 DEF ClaimOK, Rows
<1>10. UniqueClaims'
  <2> SUFFICES ASSUME NEW u \in Workers, NEW v \in Workers, u # v,
                      worker'[u].pc # "idle", worker'[v].pc # "idle",
                      worker'[u].refund = worker'[v].refund
               PROVE  worker'[u].claimed.version # worker'[v].claimed.version
    BY DEF UniqueClaims
  <2>1. CASE u = w
    BY <1>2, <1>3, <1>9, <2>1
  <2>2. CASE v = w
    BY <1>2, <1>3, <1>9, <2>2
  <2>3. CASE u # w /\ v # w
    BY <1>3, <2>3 DEF LInv, UniqueClaims
  <2> QED
    BY <2>1, <2>2, <2>3
<1> QED
  BY <1>8, <1>10 DEF LInv

\* The holder saves: nobody else who keeps going holds the row.
LEMMA LeaseSave ==
  ASSUME LInv, IInv', NEW w \in Workers, SaveApplied(w)
  PROVE  LInv'
<1> DEFINE r == worker[w].refund
<1>1. PICK x : row' = [row EXCEPT ![r] = x]
  BY DEF SaveApplied
<1>2. /\ worker[w].pc # "idle" /\ worker' = [worker EXCEPT ![w] = Idle]
      /\ row[r].version = worker[w].claimed.version
  BY DEF SaveApplied, LeaseValid
<1>3. worker'[w] = Idle /\ \A v \in Workers : v # w => worker'[v] = worker[v]
  BY <1>2 DEF LInv, IInv, TypeOK
<1>4. ASSUME NEW v \in Workers, v # w, worker[v].refund = r
      PROVE  worker[v].pc = "idle" \/ worker[v].stalled
  <2> SUFFICES ASSUME worker[v].pc # "idle", ~worker[v].stalled PROVE FALSE
    OBVIOUS
  <2>1. row[r].version = worker[v].claimed.version
    BY <1>4 DEF LInv, LeasesKept, LeaseKept
  <2> QED
    BY <1>2, <1>4, <2>1 DEF LInv, UniqueClaims
<1>5. LeasesKept'
  <2>1. ASSUME NEW v \in Workers, v # w
        PROVE  LeaseKept(worker'[v], row'[worker'[v].refund])
    BY <1>1, <1>3, <1>4, <2>1, WorkerKnown, LeasesOfOthers DEF LInv
  <2>2. LeaseKept(worker'[w], row'[worker'[w].refund])
    BY <1>3, IdleType DEF LeaseKept
  <2> QED
    BY <2>1, <2>2 DEF LeasesKept
<1>6. UniqueClaims'
  BY <1>3, IdleType DEF LInv, UniqueClaims
<1> QED
  BY <1>5, <1>6 DEF LInv

\* Time passes: only for workers that are stalled or within their HTTP call.
LEMMA LeaseTick ==
  ASSUME LInv, IInv', Tick
  PROVE  LInv'
<1>1. /\ row' = [r \in Refunds |-> Aged(row[r])]
      /\ worker' = [w \in Workers |-> AgedWorker(worker[w])]
      /\ \A w \in Workers : Punctual(worker[w])
  BY DEF Tick
<1>2. ASSUME NEW w \in Workers
      PROVE  /\ worker[w] \in WorkerStates /\ worker'[w] = AgedWorker(worker[w])
             /\ worker'[w].pc = worker[w].pc /\ worker'[w].refund = worker[w].refund
             /\ worker'[w].stalled = worker[w].stalled
             /\ worker'[w].claimed.version = worker[w].claimed.version
  <2>1. worker[w] \in WorkerStates /\ worker'[w] = AgedWorker(worker[w])
    BY <1>1, WorkerKnown DEF LInv
  <2>2. worker[w].claimed \in Rows
    BY WorkerKnown DEF LInv
  <2> QED
    BY <2>1, <2>2, AgedWorkerOK, AgedOK
<1>3. UniqueClaims'
  BY <1>2 DEF LInv, UniqueClaims
<1>4. ASSUME NEW w \in Workers, worker'[w].pc # "idle", ~worker'[w].stalled
      PROVE  LeaseKept(worker'[w], row'[worker'[w].refund])
  <2> DEFINE me == worker[w]
             x == row[worker[w].refund]
  <2>1. me \in WorkerStates /\ x \in Rows /\ me.claimed \in Rows /\ me.age \in Nat
    BY WorkerKnown DEF LInv
  <2>2. me.pc # "idle" /\ ~me.stalled
    BY <1>2, <1>4
  <2>3. me.pc \in {"calling", "waiting"} /\ me.age < RequestTimeout
    BY <1>1, <2>2 DEF Punctual
  <2>4. LeaseKept(me, x)
    BY DEF LInv, LeasesKept
  <2>5. row'[worker'[w].refund] = Aged(x)
    BY <1>1, <1>2, WorkerKnown DEF LInv
  <2>6. /\ worker'[w].pc = me.pc /\ worker'[w].claimed = Aged(me.claimed)
        /\ worker'[w].age = MinOf(me.age + 1, MaxAge)
    BY <1>2, <2>3, AgedWorkerOK
  <2>7. worker'[w].age = me.age + 1
    BY <2>1, <2>3, <2>6, OptionsValidate, MaxWaitBounds DEF MinOf, MaxAge, MaxOf
  <2>8. /\ Aged(x).version = x.version /\ Aged(x).token = x.token
        /\ Aged(x).lease = Decremented(x.lease)
        /\ Aged(me.claimed).version = me.claimed.version
        /\ Aged(me.claimed).token = me.claimed.token
        /\ Aged(me.claimed).lease = Decremented(me.claimed.lease)
    BY <2>1, AgedOK
  <2>9. /\ x.version = me.claimed.version /\ x.token = me.claimed.token
        /\ x.lease = me.claimed.lease /\ x.lease + me.age >= LeaseDuration
    BY <2>2, <2>3, <2>4 DEF LeaseKept
  <2>10. x.lease \in Nat
    BY <2>1, OptionsValidate DEF Rows
  <2> HIDE DEF me, x
  <2>11. /\ Decremented(x.lease) + (me.age + 1) >= LeaseDuration
         /\ me.age + 1 <= RequestTimeout
    BY <2>1, <2>3, <2>9, <2>10, OptionsValidate DEF Decremented
  <2> QED
    BY <2>3, <2>5, <2>6, <2>7, <2>8, <2>9, <2>11 DEF LeaseKept
<1>5. LeasesKept'
  BY <1>4 DEF LeasesKept, LeaseKept
<1> QED
  BY <1>3, <1>5 DEF LInv

\* The steps of a round that leave the row alone.
LEMMA LeaseContinue ==
  ASSUME LInv, IInv', NEW w \in Workers, Continue(w) \/ Crash(w) \/ Stall(w), ~SaveApplied(w)
  PROVE  LInv'
<1> DEFINE old == worker[w]
           x == row[worker[w].refund]
<1>1. /\ old \in WorkerStates /\ x \in Rows /\ old.age \in Nat /\ LeaseKept(old, x)
      /\ worker \in [Workers -> WorkerStates]
  BY WorkerKnown DEF LInv, LeasesKept, IInv, TypeOK
<1>2. CASE SendRequest(w)
  <2> DEFINE me == [old EXCEPT !.pc = "calling", !.age = 0]
  <2>1. worker' = [worker EXCEPT ![w] = me] /\ old.pc = "claimed" /\ row' = row
    BY <1>1, <1>2 DEF SendRequest, WorkerStates
  <2>2. /\ me.pc = "calling" /\ me.age = 0 /\ me.claimed = old.claimed
        /\ me.refund = old.refund /\ me.stalled = old.stalled
    BY <1>1 DEF WorkerStates
  <2> HIDE DEF me
  <2>3. LeaseKept(me, x)
    BY <1>1, <2>1, <2>2, OptionsValidate DEF LeaseKept
  <2> QED
    BY <2>1, <2>2, <2>3, LeaseWorkerMoves
<1>3. CASE ServeSubmit(w) \/ ServeLookup(w) \/ Unauthorized(w)
  <2>1. PICK ans : worker' = [worker EXCEPT ![w].pc = "waiting", ![w].answer = ans]
    BY <1>3 DEF ServeSubmit, ServeLookup, Unauthorized
  <2> DEFINE me == [old EXCEPT !.pc = "waiting", !.answer = ans]
  <2>2. worker' = [worker EXCEPT ![w] = me] /\ old.pc = "calling" /\ row' = row
    BY <1>1, <1>3, <2>1 DEF ServeSubmit, ServeLookup, Unauthorized, WorkerStates
  <2>3. /\ me.pc = "waiting" /\ me.age = old.age /\ me.claimed = old.claimed
        /\ me.refund = old.refund /\ me.stalled = old.stalled
    BY <1>1 DEF WorkerStates
  <2> HIDE DEF me
  <2>4. LeaseKept(me, x)
    BY <1>1, <2>2, <2>3 DEF LeaseKept
  <2> QED
    BY <2>2, <2>3, <2>4, LeaseWorkerMoves
<1>4. CASE ReceiveAnswer(w) \/ CallFails(w)
  <2>1. PICK ans : worker' = [worker EXCEPT ![w] =
                                [old EXCEPT !.pc = "returned", !.age = 0, !.answer = ans]]
    <3>1. CASE ReceiveAnswer(w)
      <4>1. worker' = [worker EXCEPT ![w] = [old EXCEPT !.pc = "returned", !.age = 0]]
        BY <1>1, <3>1 DEF ReceiveAnswer, WorkerStates
      <4>2. [old EXCEPT !.pc = "returned", !.age = 0]
              = [old EXCEPT !.pc = "returned", !.age = 0, !.answer = old.answer]
        BY <1>1 DEF WorkerStates
      <4> QED
        BY <4>1, <4>2
    <3>2. CASE CallFails(w)
      BY <1>1, <3>2 DEF CallFails, WorkerStates
    <3> QED
      BY <1>4, <3>1, <3>2
  <2> DEFINE me == [old EXCEPT !.pc = "returned", !.age = 0, !.answer = ans]
  <2>2. worker' = [worker EXCEPT ![w] = me] /\ old.pc \in {"calling", "waiting"} /\ row' = row
    BY <1>4, <2>1 DEF ReceiveAnswer, CallFails
  <2>3. /\ me.pc = "returned" /\ me.claimed = old.claimed
        /\ me.refund = old.refund /\ me.stalled = old.stalled
    BY <1>1 DEF WorkerStates
  <2> HIDE DEF me
  <2>4. LeaseKept(me, x)
    BY <1>1, <2>2, <2>3, OptionsValidate DEF LeaseKept, Rows
  <2> QED
    BY <2>2, <2>3, <2>4, LeaseWorkerMoves
<1>5. CASE SaveRejected(w) \/ Crash(w)
  <2>1. worker' = [worker EXCEPT ![w] = Idle] /\ row' = row
    BY <1>5 DEF SaveRejected, Crash
  <2>2. LeaseKept(Idle, row[Idle.refund])
    BY IdleType DEF LeaseKept
  <2> QED
    BY <2>1, <2>2, IdleType, LeaseWorkerMoves
<1>6. CASE Stall(w)
  <2> DEFINE me == [old EXCEPT !.stalled = TRUE]
  <2>1. worker' = [worker EXCEPT ![w] = me] /\ old.pc # "idle" /\ row' = row
    BY <1>1, <1>6 DEF Stall, WorkerStates
  <2>2. me.claimed = old.claimed /\ me.refund = old.refund /\ me.stalled
    BY <1>1 DEF WorkerStates
  <2> HIDE DEF me
  <2>3. LeaseKept(me, row[me.refund])
    BY <2>2 DEF LeaseKept
  <2> QED
    BY <2>1, <2>2, <2>3, LeaseWorkerMoves
<1> QED
  BY <1>2, <1>3, <1>4, <1>5, <1>6 DEF Continue

\* LInv is inductive.
LEMMA LeaseNext ==
  ASSUME LInv, [Next]_vars
  PROVE  LInv'
<1>1. IInv'
  BY NextStep DEF LInv
<1>2. row \in [Refunds -> Rows]
  BY DEF LInv, IInv, TypeOK
<1>3. ASSUME NEW r \in Refunds, CreateRefund(r) PROVE LInv'
  BY <1>1, <1>3, LeaseRowMoves DEF CreateRefund
<1>4. ASSUME NEW r \in Refunds, RequestRefundRecheck(r) PROVE LInv'
  BY <1>1, <1>4, LeaseRowMoves DEF RequestRefundRecheck
<1>5. ASSUME NEW r \in Refunds, NEW w \in Workers, ClaimSubmit(w, r) PROVE LInv'
  <2> DEFINE x == SubmitClaimed(row[r])
  <2>1. /\ x \in Rows /\ x.version > row[r].version /\ row[r].lease = 0
        /\ Claim(w, r, x, FALSE)
    BY <1>5, <1>2, SubmitClaimedOK DEF ClaimSubmit, CanSubmit, Due, LInv, IInv, RowsOK
  <2>2. x.lease = LeaseDuration
    BY DEF SubmitClaimed
  <2> HIDE DEF x
  <2> QED
    BY <1>1, <2>1, <2>2, LeaseClaim
<1>6. ASSUME NEW r \in Refunds, NEW w \in Workers, ClaimReconcile(w, r) PROVE LInv'
  <2> DEFINE x == ReconcileClaimed(row[r])
  <2>1. /\ x \in Rows /\ x.version > row[r].version /\ row[r].lease = 0
        /\ Claim(w, r, x, TRUE)
    BY <1>6, <1>2, ReconcileClaimedOK DEF ClaimReconcile, CanReconcile, Due, LInv, IInv, RowsOK
  <2>2. x.lease = LeaseDuration
    BY <1>2 DEF ReconcileClaimed, Rows
  <2> HIDE DEF x
  <2> QED
    BY <1>1, <2>1, <2>2, LeaseClaim
<1>7. ASSUME NEW r \in Refunds, LateSubmit(r) \/ Resolve(r) PROVE LInv'
  BY <1>1, <1>7 DEF LateSubmit, Resolve, LInv, UniqueClaims, LeasesKept
<1>8. ASSUME NEW w \in Workers, SaveApplied(w) PROVE LInv'
  BY <1>1, <1>8, LeaseSave
<1>9. ASSUME NEW w \in Workers, Continue(w) \/ Crash(w) \/ Stall(w), ~SaveApplied(w)
      PROVE LInv'
  BY <1>1, <1>9, LeaseContinue
<1>10. CASE Tick
  BY <1>1, <1>10, LeaseTick
<1>11. CASE UNCHANGED vars
  BY <1>1, <1>11 DEF vars, LInv, UniqueClaims, LeasesKept
<1> QED
  BY <1>3, <1>4, <1>5, <1>6, <1>7, <1>8, <1>9, <1>10, <1>11 DEF Next, Claims

\* With a lease of at least twice the request timeout (Options.Validate), a
\* worker that is not suspended still owns its row when it saves, for any number
\* of workers and refunds.
THEOREM LeasesHeld == Spec => []LeaseHeld
<1>1. Init => LInv
  <2>1. Init => UniqueClaims /\ LeasesKept
    BY IdleType DEF Init, UniqueClaims, LeasesKept, LeaseKept
  <2> QED
    BY <2>1, InitOK DEF LInv
<1>2. LInv /\ [Next]_vars => LInv'
  BY LeaseNext
<1>3. LInv => LeaseHeld
  BY LeaseLeft DEF LeaseHeld
<1> QED
  BY <1>1, <1>2, <1>3, PTL DEF Spec

--------------------------------------------------------------------------------
\* What one step does to one refund

\* Nothing but the passing of time happens to refund q.
Kept(q) ==
  /\ row'[q] = row[q] \/ row'[q] = Aged(row[q])
  /\ event'[q] = event[q] /\ audit'[q] = audit[q]

\* An UPDATE that is no save, with the event its trigger emits.
Updated(q, new) ==
  /\ row'[q] = new /\ event'[q] = EmitRefundOutbox(row[q], new, event[q])
  /\ audit'[q] = audit[q]

\* The save of worker w, which holds the lease and decided for `out`.
Saved(q, w, out) ==
  /\ row[q].status = "PROCESSING" /\ ~row[q].manualReview
  /\ GoodOutcome(row[q], worker[w].answer, out)
  /\ row'[q] = Applied(row[q], out, worker[w].age)
  /\ event'[q] = EmitRefundOutbox(row[q], row'[q], event[q])
  /\ \/ audit'[q] = audit[q]
     \/ /\ worker[w].claimed.status = "PROCESSING"
        /\ audit'[q] = Audit(worker[w].claimed, worker[w].answer, out)

RowStep(q) ==
  \/ Kept(q)
  \/ /\ CreateRefund(q) /\ row[q].status = "NONE" /\ row'[q] = Created(row[q])
     /\ event'[q] = "created" /\ audit'[q] = audit[q]
  \/ /\ row[q].status = "PROCESSING" /\ row[q].manualReview
     /\ Updated(q, Rechecked(row[q]))
  \/ CanSubmit(row[q]) /\ Updated(q, SubmitClaimed(row[q]))
  \/ CanReconcile(row[q]) /\ Updated(q, ReconcileClaimed(row[q]))
  \/ \E w \in Workers : \E out \in Outcomes : Saved(q, w, out)

\* These are all the ways a refund changes.
LEMMA RowSteps ==
  ASSUME IInv, [Next]_vars, NEW q \in Refunds
  PROVE  RowStep(q)
<1>1. /\ row \in [Refunds -> Rows] /\ event \in [Refunds -> EventKinds]
      /\ audit \in [Refunds -> Audits]
  BY DEF IInv, TypeOK
<1>2. ASSUME NEW r \in Refunds, CreateRefund(r) PROVE RowStep(q)
  BY <1>1, <1>2 DEF CreateRefund, RowStep, Kept
<1>3. ASSUME NEW r \in Refunds, RequestRefundRecheck(r) PROVE RowStep(q)
  BY <1>1, <1>3 DEF RequestRefundRecheck, RowStep, Kept, Updated
<1>4. ASSUME NEW r \in Refunds, Claims(r) PROVE RowStep(q)
  BY <1>1, <1>4 DEF Claims, ClaimSubmit, ClaimReconcile, Claim, RowStep, Kept, Updated
<1>5. ASSUME NEW w \in Workers, SaveApplied(w) PROVE RowStep(q)
  <2> DEFINE r == worker[w].refund
             ans == worker[w].answer
  <2>1. PICK out \in Decide(worker[w].claimed, ans, worker[w].lookup) :
          /\ row' = [row EXCEPT ![r] = Applied(row[r], out, worker[w].age)]
          /\ event' = [event EXCEPT ![r] =
               EmitRefundOutbox(row[r], Applied(row[r], out, worker[w].age), event[r])]
          /\ audit' = IF worker[w].lookup
                      THEN [audit EXCEPT ![r] = Audit(worker[w].claimed, ans, out)]
                      ELSE audit
    BY <1>5 DEF SaveApplied
  <2>2. worker[w].pc = "returned" /\ LeaseValid(row[r], worker[w].claimed)
    BY <1>5 DEF SaveApplied
  <2>3. GoodOutcome(row[r], ans, out) /\ row[r].status = "PROCESSING"
    BY <2>2, SaveIsGood
  <2>4. r \in Refunds /\ ~row[r].manualReview /\ worker[w].claimed.status = "PROCESSING"
    BY <2>2, WorkerKnown DEF IInv, ClaimsOK, ClaimOK, LeaseValid
  <2>5. out \in Outcomes
    BY <2>3 DEF GoodOutcome
  <2> HIDE DEF r
  <2>6. CASE q = r
    <3>1. Saved(q, w, out)
      BY <1>1, <2>1, <2>3, <2>4, <2>6 DEF Saved
    <3> QED
      BY <2>5, <3>1 DEF RowStep
  <2>7. CASE q # r
    <3>1. Kept(q)
      BY <1>1, <2>1, <2>4, <2>7 DEF Kept
    <3> QED
      BY <3>1 DEF RowStep
  <2> QED
    BY <2>6, <2>7
<1>6. CASE Tick
  BY <1>1, <1>6 DEF Tick, RowStep, Kept
<1>7. ASSUME NEW w \in Workers, Continue(w), ~SaveApplied(w)
      PROVE  UNCHANGED <<row, event, audit>>
  BY <1>7 DEF Continue, SendRequest, ServeSubmit, ServeLookup, Unauthorized,
              ReceiveAnswer, CallFails, SaveRejected
<1>8. ASSUME NEW r \in Refunds, LateSubmit(r) \/ Resolve(r)
      PROVE  UNCHANGED <<row, event, audit>>
  BY <1>8 DEF LateSubmit, Resolve
<1>9. ASSUME NEW w \in Workers, Crash(w) \/ Stall(w)
      PROVE  UNCHANGED <<row, event, audit>>
  BY <1>9 DEF Crash, Stall
<1>10. CASE UNCHANGED <<row, event, audit>>
  BY <1>10 DEF RowStep, Kept
<1>11. CASE UNCHANGED vars
  BY <1>10, <1>11 DEF vars
<1> QED
  BY <1>2, <1>3, <1>4, <1>5, <1>6, <1>7, <1>8, <1>9, <1>10, <1>11 DEF Next

--------------------------------------------------------------------------------
\* What subscribers and operators are told

\* The last event of LastEventMatchesRow, of one refund.
Told(x) ==
  CASE x.status = "NONE" -> {"none"}
    [] x.status = "PENDING" -> {"created"}
    [] x.status = "PROCESSING" /\ x.manualReview -> {"manual_review"}
    [] x.status = "PROCESSING" /\ ~x.manualReview -> {"processing", "recheck_requested"}
    [] x.status = "SUCCEEDED" -> {"succeeded"}
    [] OTHER -> {"failed"}

\* The triggers emit the event that the new row calls for, or the last one still
\* does.
LEMMA EventStep ==
  ASSUME IInv, [Next]_vars, NEW q \in Refunds, event[q] \in Told(row[q])
  PROVE  event'[q] \in Told(row'[q])
<1>1. row[q] \in Rows /\ RowOK(row[q])
  BY DEF IInv, TypeOK, RowsOK
<1>2. CASE Kept(q)
  BY <1>1, <1>2, AgedOK DEF Kept, Told
<1>3. CASE row'[q] = Created(row[q]) /\ event'[q] = "created"
  <2>1. row'[q].status = "PENDING"
    BY <1>1, <1>3 DEF Created, Rows
  <2> QED
    BY <1>3, <2>1 DEF Told
<1>4. CASE /\ row[q].status = "PROCESSING" /\ row[q].manualReview
           /\ Updated(q, Rechecked(row[q]))
  <2>1. row'[q].status = "PROCESSING" /\ ~row'[q].manualReview /\ row'[q] = Rechecked(row[q])
    BY <1>1, <1>4 DEF Rechecked, Rows, Updated
  <2> QED
    BY <1>4, <2>1 DEF Told, Updated, EmitRefundOutbox
<1>5. CASE CanSubmit(row[q]) /\ Updated(q, SubmitClaimed(row[q]))
  <2>1. /\ row[q].status \in {"PENDING", "FAILED"} /\ ~row[q].manualReview
        /\ row'[q].status = "PROCESSING" /\ ~row'[q].manualReview
        /\ row'[q] = SubmitClaimed(row[q])
    BY <1>1, <1>5 DEF CanSubmit, RowOK, Updated, SubmitClaimed
  <2> QED
    BY <1>5, <2>1 DEF Told, Updated, EmitRefundOutbox
<1>6. CASE CanReconcile(row[q]) /\ Updated(q, ReconcileClaimed(row[q]))
  <2>1. /\ row[q].status = "PROCESSING" /\ ~row[q].manualReview
        /\ row'[q].status = "PROCESSING" /\ ~row'[q].manualReview
        /\ row'[q] = ReconcileClaimed(row[q])
    BY <1>1, <1>6 DEF CanReconcile, Updated, ReconcileClaimed, Rows
  <2> QED
    BY <1>6, <2>1 DEF Told, Updated, EmitRefundOutbox
<1>7. ASSUME NEW w \in Workers, NEW out \in Outcomes, Saved(q, w, out)
      PROVE  event'[q] \in Told(row'[q])
  <2>1. /\ row'[q].status = out.status /\ row'[q].manualReview = out.manualReview
        /\ out.status \in {"PROCESSING", "SUCCEEDED", "FAILED"}
    BY <1>7 DEF Saved, Applied, Outcomes
  <2> QED
    BY <1>7, <2>1 DEF Saved, GoodOutcome, Told, EmitRefundOutbox
<1> QED
  BY <1>2, <1>3, <1>4, <1>5, <1>6, <1>7, RowSteps DEF RowStep

\* The trigger emit_refund_outbox keeps up with the row through every update, so
\* that the last event about a refund tells its status, and whether it waits for
\* a person.
THEOREM EventsMatchRows == Spec => []LastEventMatchesRow
<1>1. LastEventMatchesRow <=> \A r \in Refunds : event[r] \in Told(row[r])
  BY DEF LastEventMatchesRow, Told
<1>2. Init => LastEventMatchesRow
  <2>1. NoRow.status = "NONE"
    BY DEF NoRow
  <2> QED
    BY <1>1, <2>1 DEF Init, Told
<1>3. IInv /\ LastEventMatchesRow /\ [Next]_vars => LastEventMatchesRow'
  <2> SUFFICES ASSUME IInv, LastEventMatchesRow, [Next]_vars
               PROVE  \A r \in Refunds : event'[r] \in Told(row'[r])
    BY DEF LastEventMatchesRow, Told
  <2> QED
    BY <1>1, EventStep
<1> QED
  BY <1>2, <1>3, Invariance, PTL DEF Spec

\* Every reconciliation_results row explains what the lookup did to the refund.
THEOREM AuditsExplain == Spec => AuditExplainsChange
<1> DEFINE Explained(q) ==
             /\ audit'[q].result = "matched" =>
                  /\ audit'[q].external = "PROCESSING"
                  /\ row'[q].status = row[q].status /\ ~row'[q].manualReview
             /\ row'[q].status # row[q].status =>
                  audit'[q].result = IF row'[q].retryable THEN "retry_scheduled"
                                                          ELSE "corrected"
             /\ audit'[q].result = "manual_review" <=> row'[q].manualReview
<1>1. ASSUME IInv, [Next]_vars, NEW q \in Refunds, audit'[q] # audit[q]
      PROVE  Explained(q)
  <2>1. PICK w \in Workers : \E out \in Outcomes : Saved(q, w, out)
    BY <1>1, RowSteps DEF RowStep, Kept, Updated
  <2>2. PICK out \in Outcomes : Saved(q, w, out)
    BY <2>1
  <2> DEFINE ans == worker[w].answer
             c == worker[w].claimed
  <2>3. /\ row[q].status = "PROCESSING" /\ c.status = "PROCESSING"
        /\ audit'[q] = Audit(c, ans, out) /\ GoodOutcome(row[q], ans, out)
        /\ row'[q].status = out.status /\ row'[q].retryable = out.retryable
        /\ row'[q].manualReview = out.manualReview
    BY <1>1, <2>2 DEF Saved, Applied
  <2>4. /\ audit'[q].external = External(ans)
        /\ audit'[q].result =
             IF out.manualReview THEN "manual_review"
             ELSE IF out.status = "FAILED" /\ out.retryable THEN "retry_scheduled"
             ELSE IF out.status # c.status THEN "corrected"
             ELSE IF ans.error # "none" THEN "provider_error"
             ELSE IF ans.status = "UNKNOWN" THEN "unknown"
             ELSE "matched"
    BY <2>3 DEF Audit
  <2> HIDE DEF ans, c
  <2>5. out.manualReview \in BOOLEAN /\ out.retryable \in BOOLEAN
    BY DEF Outcomes
  <2> QED
    BY <2>3, <2>4, <2>5 DEF GoodOutcome, External
<1>2. IInv /\ [Next]_vars => [AuditStep]_vars
  BY <1>1 DEF AuditStep
<1> QED
  BY <1>2, Invariance, PTL DEF Spec, AuditExplainsChange

--------------------------------------------------------------------------------
\* The money the provider paid out

\* The provider knows nothing of a refund that was not created, and nothing is
\* on its way.
Unknown(r) == row[r].status = "NONE" => record[r] = NotFound /\ late[r] = 0

\* A refund that failed for good failed for one of three reasons.
GivenUp(r) ==
  row[r].status = "FAILED" /\ ~row[r].retryable =>
    row[r].lastError \in {"declined", "rejected", "exhausted"}

MoneyOK == \A r \in Refunds : Unknown(r) /\ GivenUp(r)

\* No worker is busy with a refund that was not created.
LEMMA NobodyIsBusy ==
  ASSUME IInv, NEW w \in Workers, worker[w].pc # "idle"
  PROVE  row[worker[w].refund].status # "NONE"
<1>1. ClaimOK(worker[w].claimed, row[worker[w].refund])
  BY DEF IInv, ClaimsOK
<1> QED
  BY <1>1, WorkerKnown DEF ClaimOK, RowOK, Rows

\* So the provider does not hear of it.
LEMMA UnknownStep ==
  ASSUME IInv, [Next]_vars, NEW q \in Refunds, row[q].status = "NONE", Unknown(q)
  PROVE  record'[q] = record[q] /\ late'[q] = late[q]
<1>1. record \in [Refunds -> Records] /\ late \in [Refunds -> Nat]
  BY DEF IInv, TypeOK
<1>2. record[q] = NotFound /\ late[q] = 0
  BY DEF Unknown
<1>3. ASSUME NEW w \in Workers, worker[w].pc # "idle"
      PROVE  worker[w].refund # q /\ Orphaned(w)[q] = late[q]
  <2>1. worker[w].refund # q
    BY <1>3, NobodyIsBusy
  <2> QED
    BY <1>1, <2>1, WorkerKnown DEF Orphaned
<1>4. ASSUME NEW w \in Workers, ServeSubmit(w)
      PROVE  record'[q] = record[q] /\ late'[q] = late[q]
  BY <1>1, <1>3, <1>4 DEF ServeSubmit
<1>5. ASSUME NEW w \in Workers, CallFails(w) \/ Crash(w)
      PROVE  record'[q] = record[q] /\ late'[q] = late[q]
  BY <1>3, <1>5 DEF CallFails, Crash
<1>6. ASSUME NEW w \in Workers, Continue(w), ~ServeSubmit(w), ~CallFails(w)
      PROVE  record' = record /\ late' = late
  BY <1>6 DEF Continue, SendRequest, ServeLookup, Unauthorized,
              ReceiveAnswer, SaveApplied, SaveRejected
<1>7. ASSUME NEW r \in Refunds, LateSubmit(r)
      PROVE  record'[q] = record[q] /\ late'[q] = late[q]
  BY <1>1, <1>2, <1>7 DEF LateSubmit
<1>8. ASSUME NEW r \in Refunds, Resolve(r)
      PROVE  record'[q] = record[q] /\ late'[q] = late[q]
  <2>1. r # q
    BY <1>2, <1>8 DEF Resolve, Resolutions, NotFound
  <2> QED
    BY <1>1, <1>8, <2>1 DEF Resolve
<1>9. ASSUME NEW r \in Refunds, CreateRefund(r) \/ RequestRefundRecheck(r) \/ Claims(r)
      PROVE  record' = record /\ late' = late
  BY <1>9 DEF CreateRefund, RequestRefundRecheck, Claims, ClaimSubmit, ClaimReconcile, Claim
<1>10. ASSUME NEW w \in Workers, Stall(w) PROVE record' = record /\ late' = late
  BY <1>10 DEF Stall
<1>11. CASE Tick \/ UNCHANGED vars
  BY <1>11 DEF Tick, vars
<1> QED
  BY <1>4, <1>5, <1>6, <1>7, <1>8, <1>9, <1>10, <1>11 DEF Next

\* What a step may do to the status, the attempts and the end of a refund.
LEMMA RowProgress ==
  ASSUME IInv, [Next]_vars, NEW q \in Refunds
  PROVE  /\ row'[q].status = "NONE" => row[q].status = "NONE"
         /\ row'[q].attempts >= row[q].attempts
         /\ GivenUp(q) => GivenUp(q)'
<1>1. row[q] \in Rows /\ RowOK(row[q])
  BY DEF IInv, TypeOK, RowsOK
<1>2. CASE Kept(q)
  BY <1>1, <1>2, AgedOK DEF Kept, GivenUp, Rows
<1>3. CASE row'[q] = Created(row[q])
  <2>1. row'[q].status = "PENDING" /\ row'[q].attempts = row[q].attempts
    BY <1>1, <1>3 DEF Created, Rows
  <2> QED
    BY <1>1, <2>1 DEF GivenUp, Rows
<1>4. CASE row[q].status = "PROCESSING" /\ Updated(q, Rechecked(row[q]))
  <2>1. row'[q].status = "PROCESSING" /\ row'[q].attempts = row[q].attempts
    BY <1>1, <1>4 DEF Rechecked, Rows, Updated
  <2> QED
    BY <1>1, <2>1 DEF GivenUp, Rows
<1>5. CASE Updated(q, SubmitClaimed(row[q]))
  <2>1. row'[q].status = "PROCESSING" /\ row'[q].attempts = row[q].attempts + 1
    BY <1>5 DEF Updated, SubmitClaimed
  <2> QED
    BY <1>1, <2>1 DEF GivenUp, Rows
<1>6. CASE CanReconcile(row[q]) /\ Updated(q, ReconcileClaimed(row[q]))
  <2>1. row'[q].status = "PROCESSING" /\ row'[q].attempts = row[q].attempts
    BY <1>1, <1>6 DEF CanReconcile, Updated, ReconcileClaimed, Rows
  <2> QED
    BY <1>1, <2>1 DEF GivenUp, Rows
<1>7. ASSUME NEW w \in Workers, NEW out \in Outcomes, Saved(q, w, out)
      PROVE  /\ row'[q].status # "NONE" /\ row'[q].attempts >= row[q].attempts
             /\ GivenUp(q)'
  <2>1. /\ row'[q].status = out.status /\ row'[q].retryable = out.retryable
        /\ row'[q].lastError = out.lastError /\ row'[q].attempts = row[q].attempts
    BY <1>7 DEF Saved, Applied
  <2> QED
    BY <1>1, <1>7, <2>1 DEF Saved, GoodOutcome, GivenUp, Outcomes, Rows
<1> QED
  BY <1>2, <1>3, <1>4, <1>5, <1>6, <1>7, RowSteps DEF RowStep

\* MoneyOK is inductive.
LEMMA MoneyStep ==
  ASSUME IInv, MoneyOK, [Next]_vars
  PROVE  MoneyOK'
<1> SUFFICES ASSUME NEW q \in Refunds PROVE Unknown(q)' /\ GivenUp(q)'
  BY DEF MoneyOK
<1>1. Unknown(q) /\ GivenUp(q)
  BY DEF MoneyOK
<1>2. GivenUp(q)' /\ (row'[q].status = "NONE" => row[q].status = "NONE")
  BY <1>1, RowProgress
<1>3. Unknown(q)'
  BY <1>1, <1>2, UnknownStep DEF Unknown
<1> QED
  BY <1>2, <1>3

\* What the provider paid stays reserved on the payment, but for the two ways in
\* which the workers give a refund up that the provider may still execute.
THEOREM PaidStaysReserved == Spec => []PaidIsReserved
<1>1. Init => MoneyOK
  <2>1. NoRow.status = "NONE"
    BY DEF NoRow
  <2> QED
    BY <2>1 DEF Init, MoneyOK, Unknown, GivenUp
<1>2. IInv /\ MoneyOK /\ [Next]_vars => MoneyOK'
  BY MoneyStep
<1>3. IInv /\ MoneyOK => PaidIsReserved
  <2> SUFFICES ASSUME IInv, MoneyOK, NEW r \in Refunds, record[r].status = "SUCCEEDED"
               PROVE  Reserved(row[r]) \/ row[r].lastError \in {"rejected", "exhausted"}
    BY DEF PaidIsReserved
  <2>1. Unknown(r) /\ GivenUp(r) /\ VerdictOK(row[r], record[r])
    BY DEF MoneyOK, IInv, VerdictsOK
  <2>2. row[r].status # "NONE"
    BY <2>1 DEF Unknown, NotFound
  <2> QED
    BY <2>1, <2>2 DEF GivenUp, VerdictOK, Reserved
<1> QED
  BY <1>1, <1>2, <1>3, Invariance, PTL DEF Spec

--------------------------------------------------------------------------------
\* The refunds of one payment together

\* Fewer refunds are fewer units of money.
LEMMA FewerUnits ==
  ASSUME NEW R, NEW S, S \subseteq R, IsFiniteSet(Units(R))
  PROVE  /\ IsFiniteSet(Units(S))
         /\ Cardinality(Units(S)) \in Nat
         /\ Cardinality(Units(S)) <= Cardinality(Units(R))
<1>1. Units(S) \in SUBSET Units(R)
  BY DEF Units
<1> QED
  BY <1>1, FS_Subset, FS_CardinalityType

\* One more refund adds its amount at most.
LEMMA OneRefundMore ==
  ASSUME NEW S, NEW r \in Refunds, IsFiniteSet(Units(S))
  PROVE  /\ IsFiniteSet(Units(S \cup {r}))
         /\ Cardinality(Units(S \cup {r})) <= Cardinality(Units(S)) + Amount[r]
<1> DEFINE n == Amount[r]
           mine == {r} \X (1..n)
<1>1. n \in Nat \ {0}
  BY RefundsAssumption
<1>2. Units(S \cup {r}) = Units(S) \cup mine
  BY DEF Units
<1>3. IsFiniteSet(1..n) /\ Cardinality(1..n) = n
  <2>1. 1 \in Int /\ n \in Int /\ ~(1 > n) /\ n - 1 + 1 = n
    BY <1>1
  <2> HIDE DEF n
  <2>2. IsFiniteSet(1..n) /\ Cardinality(1..n) = IF 1 > n THEN 0 ELSE n - 1 + 1
    BY <2>1, FS_Interval
  <2> QED
    BY <2>1, <2>2
<1>4. IsFiniteSet(mine) /\ Cardinality(mine) = n
  <2>1. IsFiniteSet({r}) /\ Cardinality({r}) = 1
    BY FS_Singleton
  <2>2. IsFiniteSet(mine) /\ Cardinality(mine) = Cardinality({r}) * Cardinality(1..n)
    BY <1>3, <2>1, FS_Product
  <2>3. 1 * n = n
    BY <1>1
  <2> QED
    BY <1>3, <2>1, <2>2, <2>3
<1>5. IsFiniteSet(Units(S) \cap mine)
  <2>1. Units(S) \cap mine \in SUBSET mine
    OBVIOUS
  <2> QED
    BY <1>4, <2>1, FS_Subset
<1>6. /\ IsFiniteSet(Units(S) \cup mine)
      /\ Cardinality(Units(S) \cup mine) =
           Cardinality(Units(S)) + Cardinality(mine) - Cardinality(Units(S) \cap mine)
  BY <1>4, FS_Union
<1>7. Cardinality(Units(S)) \in Nat /\ Cardinality(Units(S) \cap mine) \in Nat
  BY <1>5, FS_CardinalityType
<1> HIDE DEF n, mine
<1>8. Cardinality(Units(S) \cup mine) <= Cardinality(Units(S)) + n
  BY <1>1, <1>4, <1>6, <1>7
<1> QED
  BY <1>2, <1>6, <1>8 DEF n

\* What is reserved on a payment is finite and within its amount: this is what
\* CreateRefund checks under the lock of the payment row.
Within(p) == IsFiniteSet(Units(ReservedOn(p))) /\ ReservedAmount(p) <= PaymentAmount[p]

ReservedWithin == \A p \in Payments : Within(p)

\* A refund that frees its amount never takes it back.
LEMMA FreedForGood ==
  ASSUME IInv, [Next]_vars, NEW q \in Refunds, ~CreateRefund(q), Reserved(row'[q])
  PROVE  Reserved(row[q])
<1>1. row[q] \in Rows /\ RowOK(row[q])
  BY DEF IInv, TypeOK, RowsOK
<1>2. CASE Kept(q)
  BY <1>1, <1>2, AgedOK DEF Kept, Reserved, Rows
<1>3. CASE row[q].status = "PROCESSING"
  BY <1>3 DEF Reserved
<1>4. CASE CanSubmit(row[q])
  BY <1>4 DEF CanSubmit, Reserved
<1>5. CASE CanReconcile(row[q])
  BY <1>3, <1>5 DEF CanReconcile
<1> QED
  BY <1>2, <1>3, <1>4, <1>5, RowSteps DEF RowStep, Saved

\* ReservedWithin is inductive.
LEMMA ReservedStep ==
  ASSUME IInv, ReservedWithin, [Next]_vars
  PROVE  ReservedWithin'
<1> SUFFICES ASSUME NEW p \in Payments PROVE Within(p)'
  BY DEF ReservedWithin
<1> DEFINE before == ReservedOn(p)
           after == ReservedOn(p)'
<1>1. IsFiniteSet(Units(before)) /\ Cardinality(Units(before)) <= PaymentAmount[p]
  BY DEF ReservedWithin, Within, ReservedAmount
<1>2. PaymentAmount[p] \in Nat
  BY RefundsAssumption
<1>3. \A q \in after : q \in Refunds /\ PaymentOf[q] = p /\ Reserved(row'[q])
  BY DEF ReservedOn, Reserved
<1>4. \A q \in Refunds : PaymentOf[q] = p /\ Reserved(row[q]) => q \in before
  BY DEF ReservedOn
<1>5. Within(p)' <=> IsFiniteSet(Units(after)) /\ Cardinality(Units(after)) <= PaymentAmount[p]
  BY DEF Within, ReservedAmount, Units
<1> HIDE DEF before, after
<1>6. CASE after \subseteq before
  BY <1>1, <1>2, <1>5, <1>6, FewerUnits, FS_CardinalityType
<1>7. ASSUME NEW r \in Refunds, CreateRefund(r), PaymentOf[r] = p
      PROVE  Within(p)'
  <2>1. after \subseteq before \cup {r}
    <3>1. ASSUME NEW q \in after, q # r PROVE Reserved(row[q])
      <4>1. row'[q] = row[q]
        BY <1>3, <1>7, <3>1 DEF CreateRefund, IInv, TypeOK
      <4> QED
        BY <1>3, <4>1
    <3> QED
      BY <1>3, <1>4, <3>1
  <2>2. Amount[r] \in Nat /\ Cardinality(Units(before)) \in Nat
    BY <1>1, RefundsAssumption, FS_CardinalityType
  <2>3. Amount[r] <= PaymentAmount[p] - Cardinality(Units(before))
    BY <1>7 DEF CreateRefund, ReservedAmount, before
  <2>4. /\ IsFiniteSet(Units(before \cup {r}))
        /\ Cardinality(Units(before \cup {r})) <= Cardinality(Units(before)) + Amount[r]
    BY <1>1, OneRefundMore
  <2>5. /\ IsFiniteSet(Units(after))
        /\ Cardinality(Units(after)) <= Cardinality(Units(before \cup {r}))
        /\ Cardinality(Units(after)) \in Nat /\ Cardinality(Units(before \cup {r})) \in Nat
    BY <2>1, <2>4, FewerUnits, FS_CardinalityType
  <2> QED
    BY <1>2, <1>5, <2>2, <2>3, <2>4, <2>5
<1>8. CASE \A r \in Refunds : CreateRefund(r) => PaymentOf[r] # p
  BY <1>3, <1>4, <1>6, <1>8, FreedForGood
<1> QED
  BY <1>7, <1>8

\* Whatever is paid for a payment, by whichever of its refunds, fits into it, as
\* long as the workers have given none of them up as rejected or exhausted.
THEOREM PaidWithinTheRest == Spec => []OverpaidOnlyAfterGivingUp
<1>1. Init => ReservedWithin
  <2> SUFFICES ASSUME Init, NEW p \in Payments PROVE Within(p)
    BY DEF ReservedWithin
  <2>1. ReservedOn(p) = {}
    BY DEF Init, ReservedOn, Reserved, NoRow
  <2>2. Units({}) = {}
    BY DEF Units
  <2>3. PaymentAmount[p] \in Nat
    BY RefundsAssumption
  <2> QED
    BY <2>1, <2>2, <2>3, FS_EmptySet DEF Within, ReservedAmount
<1>2. IInv /\ ReservedWithin /\ [Next]_vars => ReservedWithin'
  BY ReservedStep
<1>3. IInv /\ ReservedWithin /\ PaidIsReserved => OverpaidOnlyAfterGivingUp
  <2> SUFFICES ASSUME PaidIsReserved, ReservedWithin, NEW p \in Payments,
                      \A r \in Refunds : PaymentOf[r] = p =>
                        row[r].lastError \notin {"rejected", "exhausted"}
               PROVE  PaidAmount(p) <= PaymentAmount[p]
    BY DEF OverpaidOnlyAfterGivingUp
  <2>1. PaidOn(p) \subseteq ReservedOn(p)
    BY DEF PaidOn, ReservedOn, PaidIsReserved
  <2>2. IsFiniteSet(Units(ReservedOn(p))) /\ Cardinality(Units(ReservedOn(p))) <= PaymentAmount[p]
    BY DEF ReservedWithin, Within, ReservedAmount
  <2>3. PaymentAmount[p] \in Nat
    BY RefundsAssumption
  <2> QED
    BY <2>1, <2>2, <2>3, FewerUnits, FS_CardinalityType DEF PaidAmount
<1> QED
  BY <1>1, <1>2, <1>3, Invariance, PaidStaysReserved, PTL DEF Spec

--------------------------------------------------------------------------------
\* The submissions that were ever sent

\* The worker has claimed refund q for a submission that it has not sent yet.
Posting(me, q) == me.refund = q /\ me.pc = "claimed" /\ ~me.lookup

Posters(q) == {w \in Workers : Posting(worker[w], q)}

PostsOf(q) == posts[q] + Cardinality(Posters(q))

\* The submissions sent, with those about to be: this is inductive.
PInv == \A q \in Refunds : PostsOf(q) <= row[q].attempts

One(p) == IF p THEN 1 ELSE 0

\* Posters can be counted: there are finitely many workers.
LEMMA PostersFinite ==
  ASSUME NEW q
  PROVE  IsFiniteSet(Posters(q)) /\ Cardinality(Posters(q)) \in Nat
<1>1. Posters(q) \in SUBSET Workers /\ IsFiniteSet(Workers)
  BY RefundsAssumption DEF Posters
<1>2. IsFiniteSet(Posters(q))
  BY <1>1, FS_Subset
<1> QED
  BY <1>2, FS_CardinalityType

\* One worker comes to have a submission in hand, or gets rid of one.
LEMMA PostersMove ==
  ASSUME IInv, NEW q, NEW w \in Workers, NEW me, worker' = [worker EXCEPT ![w] = me]
  PROVE  /\ Cardinality(Posters(q))' \in Nat
         /\ Cardinality(Posters(q))' + One(Posting(worker[w], q))
              = Cardinality(Posters(q)) + One(Posting(me, q))
<1>1. worker'[w] = me /\ \A v \in Workers : v # w => worker'[v] = worker[v]
  BY DEF IInv, TypeOK
<1>2. Posters(q)' = {v \in Workers : Posting(worker'[v], q)}
  BY DEF Posters, Posting
<1>3. IsFiniteSet(Posters(q)) /\ Cardinality(Posters(q)) \in Nat
  BY PostersFinite
<1>4. CASE Posting(me, q) /\ ~Posting(worker[w], q)
  <2>1. Posters(q)' = Posters(q) \cup {w} /\ w \notin Posters(q)
    BY <1>1, <1>2, <1>4 DEF Posters
  <2>2. Cardinality(Posters(q))' = Cardinality(Posters(q)) + 1
    BY <1>3, <2>1, FS_AddElement
  <2> QED
    BY <1>3, <1>4, <2>2 DEF One
<1>5. CASE ~Posting(me, q) /\ Posting(worker[w], q)
  <2>1. Posters(q)' = Posters(q) \ {w} /\ w \in Posters(q)
    BY <1>1, <1>2, <1>5 DEF Posters
  <2>2. IsFiniteSet(Posters(q)') /\ Cardinality(Posters(q)') = Cardinality(Posters(q)) - 1
    BY <1>3, <2>1, FS_RemoveElement
  <2>3. Cardinality(Posters(q)') \in Nat
    BY <2>2, FS_CardinalityType
  <2> QED
    BY <1>3, <1>5, <2>2, <2>3 DEF One
<1>6. CASE Posting(me, q) <=> Posting(worker[w], q)
  <2>1. Posters(q)' = Posters(q)
    BY <1>1, <1>2, <1>6 DEF Posters
  <2> QED
    BY <1>3, <1>6, <2>1 DEF One
<1> QED
  BY <1>4, <1>5, <1>6

\* A worker goes on, drops its round or is suspended, and sends nothing.
LEMMA PostsKept ==
  ASSUME IInv, NEW q \in Refunds, NEW w \in Workers, NEW me, posts' = posts,
         worker' = [worker EXCEPT ![w] = me], Posting(me, q) => Posting(worker[w], q)
  PROVE  PostsOf(q)' <= PostsOf(q)
<1>1. /\ Cardinality(Posters(q))' \in Nat /\ Cardinality(Posters(q)) \in Nat
      /\ Cardinality(Posters(q))' + One(Posting(worker[w], q))
           = Cardinality(Posters(q)) + One(Posting(me, q))
  BY PostersMove, PostersFinite
<1>2. posts[q] \in Nat
  BY DEF IInv, TypeOK
<1> QED
  BY <1>1, <1>2 DEF PostsOf, One

\* Sending turns a submission in hand into one that was sent.
LEMMA PostsSend ==
  ASSUME IInv, NEW q \in Refunds, NEW w \in Workers, SendRequest(w)
  PROVE  PostsOf(q)' <= PostsOf(q)
<1> DEFINE me == [worker[w] EXCEPT !.pc = "calling", !.age = 0]
<1>1. /\ worker \in [Workers -> WorkerStates] /\ worker[w] \in WorkerStates
      /\ posts \in [Refunds -> Nat] /\ worker[w].refund \in Refunds
  BY WorkerKnown DEF IInv, TypeOK
<1>2. /\ worker' = [worker EXCEPT ![w] = me] /\ worker[w].pc = "claimed"
      /\ posts' = IF worker[w].lookup THEN posts
                  ELSE [posts EXCEPT ![worker[w].refund] = @ + 1]
  BY <1>1 DEF SendRequest, WorkerStates
<1>3. ~Posting(me, q)
  BY <1>1 DEF Posting, WorkerStates
<1> HIDE DEF me
<1>4. /\ Cardinality(Posters(q))' \in Nat /\ Cardinality(Posters(q)) \in Nat
      /\ Cardinality(Posters(q))' + One(Posting(worker[w], q))
           = Cardinality(Posters(q)) + One(Posting(me, q))
  BY <1>2, PostersMove, PostersFinite
<1>5. posts[q] \in Nat /\ posts'[q] = posts[q] + One(Posting(worker[w], q))
  BY <1>1, <1>2 DEF Posting, One
<1> QED
  BY <1>3, <1>4, <1>5 DEF PostsOf, One

\* So no step of a worker that has claimed its row adds a submission to those that
\* are sent or about to be.
LEMMA PostsContinue ==
  ASSUME IInv, NEW q \in Refunds, NEW w \in Workers, Continue(w) \/ Crash(w) \/ Stall(w)
  PROVE  PostsOf(q)' <= PostsOf(q)
<1>1. worker \in [Workers -> WorkerStates] /\ worker[w] \in WorkerStates
  BY WorkerKnown DEF IInv, TypeOK
<1>2. CASE SendRequest(w)
  BY <1>2, PostsSend
<1>3. ASSUME NEW ans, worker' = [worker EXCEPT ![w].pc = "waiting", ![w].answer = ans],
             posts' = posts
      PROVE  PostsOf(q)' <= PostsOf(q)
  <2> DEFINE me == [worker[w] EXCEPT !.pc = "waiting", !.answer = ans]
  <2>1. worker' = [worker EXCEPT ![w] = me]
    BY <1>1, <1>3 DEF WorkerStates
  <2>2. ~Posting(me, q)
    BY <1>1 DEF Posting, WorkerStates
  <2> HIDE DEF me
  <2> QED
    BY <1>3, <2>1, <2>2, PostsKept
<1>4. CASE ServeSubmit(w) \/ ServeLookup(w) \/ Unauthorized(w)
  <2>1. posts' = posts
    BY <1>4 DEF ServeSubmit, ServeLookup, Unauthorized
  <2>2. PICK ans : worker' = [worker EXCEPT ![w].pc = "waiting", ![w].answer = ans]
    BY <1>4 DEF ServeSubmit, ServeLookup, Unauthorized
  <2> QED
    BY <1>3, <2>1, <2>2
<1>5. CASE ReceiveAnswer(w)
  <2> DEFINE me == [worker[w] EXCEPT !.pc = "returned", !.age = 0]
  <2>1. worker' = [worker EXCEPT ![w] = me] /\ posts' = posts
    BY <1>1, <1>5 DEF ReceiveAnswer, WorkerStates
  <2>2. ~Posting(me, q)
    BY <1>1 DEF Posting, WorkerStates
  <2> HIDE DEF me
  <2> QED
    BY <2>1, <2>2, PostsKept
<1>6. CASE CallFails(w)
  <2> DEFINE me == [worker[w] EXCEPT !.pc = "returned", !.age = 0, !.answer = TransportError]
  <2>1. worker' = [worker EXCEPT ![w] = me] /\ posts' = posts
    BY <1>1, <1>6 DEF CallFails, WorkerStates
  <2>2. ~Posting(me, q)
    BY <1>1 DEF Posting, WorkerStates
  <2> HIDE DEF me
  <2> QED
    BY <2>1, <2>2, PostsKept
<1>7. CASE SaveApplied(w) \/ SaveRejected(w) \/ Crash(w)
  <2>1. worker' = [worker EXCEPT ![w] = Idle] /\ posts' = posts
    BY <1>7 DEF SaveApplied, SaveRejected, Crash
  <2>2. ~Posting(Idle, q)
    BY IdleType DEF Posting
  <2> QED
    BY <2>1, <2>2, PostsKept
<1>8. CASE Stall(w)
  <2> DEFINE me == [worker[w] EXCEPT !.stalled = TRUE]
  <2>1. worker' = [worker EXCEPT ![w] = me] /\ posts' = posts
    BY <1>1, <1>8 DEF Stall, WorkerStates
  <2>2. Posting(me, q) => Posting(worker[w], q)
    BY <1>1 DEF Posting, WorkerStates
  <2> HIDE DEF me
  <2> QED
    BY <2>1, <2>2, PostsKept
<1> QED
  BY <1>2, <1>4, <1>5, <1>6, <1>7, <1>8 DEF Continue

\* A claim for submission makes a submission, and counts it as an attempt.
LEMMA PostsClaim ==
  ASSUME IInv, NEW q \in Refunds, NEW r \in Refunds, Claims(r), PostsOf(q) <= row[q].attempts
  PROVE  PostsOf(q)' <= row'[q].attempts
<1>1. /\ posts \in [Refunds -> Nat] /\ row \in [Refunds -> Rows]
      /\ row[q].attempts \in Nat /\ Cardinality(Posters(q)) \in Nat
  BY PostersFinite, OptionsValidate DEF IInv, TypeOK, Rows
<1>2. PICK w \in Workers : ClaimSubmit(w, r) \/ ClaimReconcile(w, r)
  BY DEF Claims
<1>3. CASE ClaimSubmit(w, r)
  <2> DEFINE me == Holding(r, FALSE, SubmitClaimed(row[r]))
  <2>1. /\ worker' = [worker EXCEPT ![w] = me] /\ posts' = posts
        /\ row' = [row EXCEPT ![r] = SubmitClaimed(row[r])]
    BY <1>3 DEF ClaimSubmit, Claim
  <2>2. /\ Cardinality(Posters(q))' \in Nat
        /\ Cardinality(Posters(q))' + One(Posting(worker[w], q))
             = Cardinality(Posters(q)) + One(Posting(me, q))
    BY <2>1, PostersMove
  <2>3. CASE q = r
    <3>1. row'[q].attempts = row[q].attempts + 1
      BY <1>1, <2>1, <2>3 DEF SubmitClaimed
    <3> HIDE DEF me
    <3>2. Cardinality(Posters(q))' <= Cardinality(Posters(q)) + 1
      BY <1>1, <2>2 DEF One
    <3> QED
      BY <1>1, <2>1, <2>2, <3>1, <3>2 DEF PostsOf
  <2>4. CASE q # r
    <3>1. row'[q] = row[q] /\ ~Posting(me, q)
      BY <1>1, <2>1, <2>4 DEF Holding, Posting
    <3> QED
      BY <1>1, <2>1, <2>2, <3>1 DEF PostsOf, One
  <2> QED
    BY <2>3, <2>4
<1>4. CASE ClaimReconcile(w, r)
  <2> DEFINE me == Holding(r, TRUE, ReconcileClaimed(row[r]))
  <2>1. /\ worker' = [worker EXCEPT ![w] = me] /\ posts' = posts
        /\ row' = [row EXCEPT ![r] = ReconcileClaimed(row[r])]
    BY <1>4 DEF ClaimReconcile, Claim
  <2>2. /\ Cardinality(Posters(q))' \in Nat
        /\ Cardinality(Posters(q))' + One(Posting(worker[w], q))
             = Cardinality(Posters(q)) + One(Posting(me, q))
    BY <2>1, PostersMove
  <2>3. row'[q].attempts = row[q].attempts /\ ~Posting(me, q)
    BY <1>1, <2>1 DEF Holding, Posting, ReconcileClaimed, Rows
  <2> QED
    BY <1>1, <2>1, <2>2, <2>3 DEF PostsOf, One
<1> QED
  BY <1>2, <1>3, <1>4

\* A refund is never submitted more often than its row counts, for any number of
\* workers, crashes, timeouts, lost leases and retries.
THEOREM PostsAreAttempts == Spec => []PostsWithinAttempts
<1>1. Init => PInv
  <2> SUFFICES ASSUME Init, NEW r \in Refunds PROVE PostsOf(r) <= row[r].attempts
    BY DEF PInv
  <2>1. Posters(r) = {}
    BY IdleType DEF Init, Posters, Posting
  <2>2. posts[r] = 0 /\ row[r].attempts = 0
    BY DEF Init, NoRow
  <2> QED
    BY <2>1, <2>2, FS_EmptySet DEF PostsOf
<1>2. IInv /\ PInv /\ [Next]_vars => PInv'
  <2> SUFFICES ASSUME IInv, PInv, [Next]_vars, NEW q \in Refunds
               PROVE  PostsOf(q)' <= row'[q].attempts
    BY DEF PInv
  <2>1. PostsOf(q) <= row[q].attempts
    BY DEF PInv
  <2>2. /\ posts \in [Refunds -> Nat] /\ posts' \in [Refunds -> Nat]
        /\ row[q].attempts \in Nat /\ row'[q].attempts \in Nat
        /\ row'[q].attempts >= row[q].attempts
        /\ Cardinality(Posters(q)) \in Nat
    <3>1. IInv'
      BY NextStep
    <3> QED
      BY <3>1, PostersFinite, RowProgress, OptionsValidate DEF IInv, TypeOK, Rows
  <2>3. Cardinality(Posters(q))' \in Nat
    <3>1. Posters(q)' \in SUBSET Workers /\ IsFiniteSet(Workers)
      BY RefundsAssumption DEF Posters
    <3> QED
      BY <3>1, FS_Subset, FS_CardinalityType
  <2>4. ASSUME PostsOf(q)' <= PostsOf(q) PROVE PostsOf(q)' <= row'[q].attempts
    BY <2>1, <2>2, <2>3, <2>4 DEF PostsOf
  <2>5. ASSUME NEW w \in Workers, Continue(w) \/ Crash(w) \/ Stall(w)
        PROVE  PostsOf(q)' <= row'[q].attempts
    BY <2>4, <2>5, PostsContinue
  <2>6. ASSUME NEW r \in Refunds, Claims(r) PROVE PostsOf(q)' <= row'[q].attempts
    BY <2>1, <2>6, PostsClaim
  <2>7. ASSUME NEW r \in Refunds,
               CreateRefund(r) \/ RequestRefundRecheck(r) \/ LateSubmit(r) \/ Resolve(r)
        PROVE  posts' = posts /\ worker' = worker
    BY <2>7 DEF CreateRefund, RequestRefundRecheck, LateSubmit, Resolve
  <2>8. CASE posts' = posts /\ Posters(q)' = Posters(q)
    BY <2>2, <2>4, <2>8 DEF PostsOf
  <2>9. CASE posts' = posts /\ worker' = worker
    BY <2>8, <2>9 DEF Posters
  <2>10. CASE Tick
    <3>1. ASSUME NEW w \in Workers PROVE Posting(worker'[w], q) <=> Posting(worker[w], q)
      <4>1. worker'[w] = AgedWorker(worker[w]) /\ worker[w] \in WorkerStates
        BY <2>10, WorkerKnown DEF Tick
      <4> QED
        BY <4>1, AgedWorkerOK DEF Posting
    <3>2. posts' = posts /\ Posters(q)' = Posters(q)
      BY <2>10, <3>1 DEF Tick, Posters
    <3> QED
      BY <2>8, <3>2
  <2> QED
    BY <2>5, <2>6, <2>7, <2>9, <2>10 DEF Next, vars
<1>3. IInv /\ PInv => PostsWithinAttempts
  <2> SUFFICES ASSUME IInv, PInv, NEW r \in Refunds PROVE posts[r] <= row[r].attempts
    BY DEF PostsWithinAttempts
  <2>1. PostsOf(r) <= row[r].attempts /\ Cardinality(Posters(r)) \in Nat
    BY PostersFinite DEF PInv
  <2>2. posts[r] \in Nat /\ row[r].attempts \in Nat
    BY OptionsValidate DEF IInv, TypeOK, Rows
  <2> QED
    BY <2>1, <2>2 DEF PostsOf
<1> QED
  BY <1>1, <1>2, <1>3, Invariance, PTL DEF Spec

================================================================================

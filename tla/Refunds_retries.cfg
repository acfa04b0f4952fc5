CONSTANTS
  Refunds = {r1}
  Workers = {w1}
  Payments <- MCPayments
  PaymentOf <- MCPaymentOf
  Amount <- MCAmount
  PaymentAmount <- MCPaymentAmount
  Total = 1
  RetryAfter = 2
  MaxAttempts = 2
  MaxCheckFailures = 2
  LeaseDuration = 2
  RequestTimeout = 1
  CheckInterval = 1
  InitialBackoff = 1
  MaxBackoff = 2
  StuckAfter = 2
  MaxFaults = 1
SPECIFICATION FairSpec
INVARIANTS RetryableCanRun VerdictIsReal LastEventMatchesRow
PROPERTIES AuditExplainsChange EventuallySettled

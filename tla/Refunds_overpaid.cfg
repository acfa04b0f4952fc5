CONSTANTS
  Refunds = {r1, r2}
  Workers = {w1}
  Payments <- MCPayments
  PaymentOf <- MCPaymentOf
  Amount <- MCAmount
  PaymentAmount <- MCPaymentAmount
  Total = 1
  RetryAfter = 1
  MaxAttempts = 2
  MaxCheckFailures = 1
  LeaseDuration = 2
  RequestTimeout = 1
  CheckInterval = 1
  InitialBackoff = 2
  MaxBackoff = 2
  StuckAfter = 1
  MaxFaults = 0
SPECIFICATION UnresolvedSpec
INVARIANT PaidWithinPayment

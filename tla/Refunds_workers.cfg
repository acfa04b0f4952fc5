CONSTANTS
  Refunds = {r1}
  Workers = {w1, w2}
  Payments <- MCPayments
  PaymentOf <- MCPaymentOf
  Amount <- MCAmount
  PaymentAmount <- MCPaymentAmount
  Total = 1
  RetryAfter = 1
  MaxAttempts = 2
  MaxCheckFailures = 1
  LeaseDuration = 2
  RequestTimeout = 1
  CheckInterval = 1
  InitialBackoff = 2
  MaxBackoff = 2
  StuckAfter = 2
  MaxFaults = 1
SPECIFICATION Spec
SYMMETRY WorkerSymmetry
INVARIANTS TypeOK LeaseHeld FreshDecision SavesAccepted PostsWithinAttempts PaidIsReserved
PROPERTY FinalIsFinal

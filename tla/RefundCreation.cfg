CONSTANTS
  Clients <- MCClients
  Keys <- MCKeys
  Payments <- MCPayments
  PaidPayments <- MCPaidPayments
  PaymentAmount <- MCPaymentAmount
  Request <- MCRequest
  MaxFaults = 1
SPECIFICATION FairSpec
INVARIANTS WithinPayment InsertNeverConflicts
PROPERTIES ImplementsBook EveryRequestAnswered

CONSTANTS
  Creators <- MCCreators
  Cancellers <- MCCancellers
  Keys <- MCKeys
  KeyOf <- MCKeyOf
  HashOf <- MCHashOf
  StatusOf <- MCStatusOf
  TargetOf <- MCTargetOf
  MaxFaults = 1
SPECIFICATION Spec
INVARIANTS OnePaymentPerKey EventsMatchPayments
PROPERTY SettledStays

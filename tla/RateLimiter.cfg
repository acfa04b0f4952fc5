CONSTANTS
  Clients <- MCClients
  Scopes <- MCScopes
  ScopeOf <- MCScopeOf
  Limit = 1
  Interval = 4
  Second = 2
  MaxTime = 6
  MaxRequests = 3
SPECIFICATION Spec
INVARIANTS RefusedForCause RemainingIsReal ObedientRefusedTwice

CONSTANTS
  Creators <- TwoCreators
  Cancellers <- TwoCancellers
  Keys <- MCKeys
  KeyOf <- TwoKeyOf
  HashOf <- TwoHashOf
  StatusOf <- TwoStatusOf
  TargetOf <- TwoTargetOf
  MaxFaults = 0
SPECIFICATION Spec
INVARIANT CancelledOnce

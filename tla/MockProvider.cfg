CONSTANTS
  Operations = {o1, o2}
  Bodies = {b1, b2}
  RetryAfter = 1
SPECIFICATION Spec
INVARIANT ToldIsKept
PROPERTY KeepsPromise

CONSTANTS
  Events = {e1}
  Subs = {s1, s2}
  Workers = {w1, w2}
  BatchSize = 1
  LockFor = 1
  MaxAttempts = 2
  InitialBackoff = 1
  MaxBackoff = 2
  MaxFaults = 1
  MaxToggles = 1
SPECIFICATION FairSpec
INVARIANTS DeliveredReachedAll HistoryIsTrue AttemptsBounded
PROPERTIES ClosedStaysClosed RecordedNotResent EventuallyClosed

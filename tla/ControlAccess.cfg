\* Up to three queued writes, one of the settings, a retry and two starts of
\* the service.  The app may stop with nothing left to do.
SPECIFICATION MCSpec
CHECK_DEADLOCK FALSE
CONSTANTS
  w1 = w1
  w2 = w2
  w3 = w3
  s1 = s1
  Bridged = {w1, w2, w3}
  Direct = {s1}
  KeyOf <- SomeEqual
  MaxRetries = 1
  MaxOwners = 2
INVARIANTS
  WritesReachTheCheckedService
  ExecutedAtMostOnce
  QueuedWritesDoNotOverlap
PROPERTIES
  NoLateWrite
  QueuedWritesEnd

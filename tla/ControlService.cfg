\* Two clients, three calls of any method, departures and a shutdown, fair.
SPECIFICATION FairSpec
CONSTRAINT InOrder
CONSTANTS
  k1 = k1
  k2 = k2
  k3 = k3
  a = a
  b = b
  Client = {a, b}
  Call = {k1, k2, k3}
  NoCall = none
INVARIANTS
  AnsweredOnce
  AccessEndsWithConnection
  CompletionFindsItsOperation
  PayloadLifetime
  NoDanglingCallback
  HonestReply
PROPERTIES
  NoWriteAfterUncertainCleanup
  WritesAreAnswered
  ShutdownCompletes

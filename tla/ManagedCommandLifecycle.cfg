\* One command from Begin to delivery under every failure.
SPECIFICATION FairSpec
CONSTANTS
  Op = {c1}
  Faults = {"lost", "closed", "owner", "deadline", "read", "setup", "reject", "crash"}
INVARIANTS
  ConfirmedCleanup
  SettledVerdict
PROPERTIES
  EventuallyDelivered
  LockEventuallyFree
  ImplementsRunner

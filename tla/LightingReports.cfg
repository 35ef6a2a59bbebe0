\* A failed write of a profile, against docs/keyboard-automation.md: violated.
SPECIFICATION Spec
CHECK_DEADLOCK FALSE
CONSTANTS
  Name = {p}
  NoName = NoName
  MaxEvents = 3
INVARIANT
  FailedWritesAreReported

\* One command, no failure of the environment: only a client that leaves.
SPECIFICATION Spec
CONSTANTS
  Op = {c1}
  Faults = {}
INVARIANT
  CertainCleanupStaysUsable

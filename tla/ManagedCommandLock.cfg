\* Two commands of two helpers contend for the lock; a helper may die or give
\* up at any moment.
SPECIFICATION Spec
CONSTANTS
  Op = {c1, c2}
  Faults = {"deadline", "crash"}
SYMMETRY Commands
INVARIANTS
  OneBackendAtATime

\* What the dashboard announces, against what it shows: violated.
SPECIFICATION Spec
CONSTANTS
  Handler = {h1, h2, h3}
  Nobody = Nobody
  MaxWrites = 2
INVARIANTS
  AnnouncedResultIsShown

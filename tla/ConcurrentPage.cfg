\* Three handlers at the same time, two writes, fair.
SPECIFICATION FairSpec
CONSTANTS
  Handler = {h1, h2, h3}
  Nobody = Nobody
  MaxWrites = 2
PROPERTIES
  GraphicsResultIsShown
  BusyEnds

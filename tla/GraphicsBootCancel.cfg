\* One request over two boots.
SPECIFICATION Spec
CONSTANTS
  MaxRequests = 1
  MaxBoots = 1
PROPERTIES
  ReportedCancelHolds

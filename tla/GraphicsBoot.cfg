\* Three requests over four boots.
SPECIFICATION Spec
CONSTANTS
  MaxRequests = 3
  MaxBoots = 3
INVARIANTS
  OneShot
  AcceptedRequestIsKept
  HardwareIsGuarded
PROPERTIES
  CancelHolds

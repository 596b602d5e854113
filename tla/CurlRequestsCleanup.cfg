\* Is the easy handle always cleaned up?
CONSTANTS
  GiftTries = 2
  OtherKinds = {"password", "mydata", "current"}
  MaxRequests = 2
  MaxParts = 1
SPECIFICATION Spec
INVARIANT AlwaysCleanup
CHECK_DEADLOCK FALSE

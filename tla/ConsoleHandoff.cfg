\* The whole start with one failing request, then two packages over the two
\* receiving threads, two tries per wake-up, one heartbeat.
CONSTANTS
  Lacking = {3}
  MaxFailures = 1
  MaxBeats = 1
  GiftTries = 2
  MaxPackages = 2
SPECIFICATION Spec
INVARIANT TypeOK
INVARIANT LoginFirst
INVARIANT HandlesAccounted
PROPERTY RungServed
PROPERTY NotifierReturns
CHECK_DEADLOCK FALSE

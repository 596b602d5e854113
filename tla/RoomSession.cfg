SPECIFICATION Safety
CONSTANTS
  r1 = r1
  r2 = r2
  Rooms <- MCRooms
  NoRoom = NoRoom
  NoOne = NoOne
  GiftTries = 1
  MaxSessions = 2
  MaxChunks = 2
  MaxBeats = 1
SYMMETRY Symmetric
INVARIANTS
  TypeOK
  NothingRunsAfterFinalize
  PackagesOfOneSession
  TokenOfItsRoom
  CurlNotShared
  CallbacksSetBeforeUse
PROPERTIES
  KilledOnlyAfterTimeout
  ImplementsVisits
CHECK_DEADLOCK FALSE

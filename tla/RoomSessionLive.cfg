SPECIFICATION Spec
CONSTANTS
  r1 = r1
  r2 = r2
  Rooms <- MCRooms
  NoRoom = NoRoom
  NoOne = NoOne
  GiftTries = 1
  MaxSessions = 2
  MaxChunks = 1
  MaxBeats = 1
PROPERTIES
  UIReturns
CHECK_DEADLOCK FALSE

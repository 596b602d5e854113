\* Two tabs of gifts, two users, three handlers, two documents of one star each.
CONSTANTS
  Tabs = {"t1", "t2"}
  GiftsOf <- TwoTabs
  Asks <- AsksTyped
  Users = {"u1", "u2"}
  None = None
  MaxStars = 1
  MaxHandlers = 3
  MaxDocuments = 2
SPECIFICATION Spec
INVARIANT TypeOK
INVARIANT WrongGiftOnlyByNesting
INVARIANT LoginOfItsDocument
CHECK_DEADLOCK FALSE

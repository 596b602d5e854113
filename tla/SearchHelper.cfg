\* Two pages, three families, five singers, one of them listed twice; expired after 30 days.
CONSTANTS
  pagecount_ = 3
  lastactive_ = 30
  Page <- Site
  Singers <- SingersOf
  LastDay <- Days
  WithRoom = {51, 72}
SPECIFICATION Spec
INVARIANT TypeOK
INVARIANT RowsRight
INVARIANT FinishedFamiliesWritten
CHECK_DEADLOCK FALSE

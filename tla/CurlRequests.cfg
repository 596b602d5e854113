\* Four requests of any number of helpers: rooms entered, a token of two tries
\* redeemed, a request of another caller in between.
CONSTANTS
  GiftTries = 2
  OtherKinds = {"mydata"}
  MaxRequests = 4
  MaxParts = 2
SPECIFICATION Spec
INVARIANT TypeOK
INVARIANT ResponseOfOneRequest
INVARIANT LoginOfOneResponse
INVARIANT LeakedOnlyByFailure
INVARIANT NoticeAfterSuccess
CHECK_DEADLOCK FALSE

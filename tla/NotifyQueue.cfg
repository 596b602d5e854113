\* The receiving thread may be terminated at any step; the window queue holds
\* one message.
CONSTANTS
  recv = recv
  base = base
  UI = UI
  NoOne = NoOne
  Producers <- MCProducers
  Killable <- MCKillable
  MaxNotify = 2
  PostLimit = 1
SPECIFICATION Spec
INVARIANT TypeOK
INVARIANT MutexInv
INVARIANT QueueInv
INVARIANT StrandedOnlyByTermination
PROPERTY ImplementsLogSafety
PROPERTY ImplementsLogFairness
PROPERTY HandlerReturns
CHECK_DEADLOCK FALSE

\* Five objects, cut into chunks in every way, with one reconnect at
\* any moment.
CONSTANTS
  Stream <- MCStream
  Level <- MCLevel
  Objects <- MCObjects
  Cmd <- MCCmd
  Content <- MCContent
  BufferSize = 6
  MaxConnects = 1
SPECIFICATION SpecNotify
INVARIANT TypeOK
INVARIANT FrameInv
INVARIANT PackageIsTailOfObject
INVARIANT EachObjectOnce
INVARIANT TypeOKNotify
INVARIANT LossOnlyByTear
INVARIANT TokenOnce
INVARIANT CallsInOrder
CHECK_DEADLOCK FALSE

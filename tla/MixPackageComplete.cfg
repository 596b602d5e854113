\* The stream of GiftNotify.cfg with no reconnect: is every package a complete object?
CONSTANTS
  Stream <- MCStream
  Level <- MCLevel
  Objects <- MCObjects
  Cmd <- MCCmd
  Content <- MCContent
  BufferSize = 6
  MaxConnects = 0
SPECIFICATION SpecNotify
INVARIANT EveryPackageComplete
CHECK_DEADLOCK FALSE

\* The stream with a brace in a chat text, received whole: is every package a complete object?
CONSTANTS
  Stream <- ChatStream
  Level <- ChatLevel
  Objects <- ChatObjects
  BufferSize = 14
  MaxConnects = 0
SPECIFICATION Spec
INVARIANT UntornPackageComplete
CHECK_DEADLOCK FALSE

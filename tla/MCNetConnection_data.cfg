SPECIFICATION Spec
CONSTANTS
  Base = 8
  IntSize = 1
  ShortSize = 1
  BufferSize = 4
  Message <- ShortMessage
  MaxMessages = 1
PROPERTIES
  ServerDataReachesCallback
CHECK_DEADLOCK FALSE

SPECIFICATION ClientSpec
CONSTANTS
  Base = 16
  IntSize = 1
  ShortSize = 1
  BufferSize = 4
  Message <- ShortMessage
  MaxMessages = 1
  MessageId = 1
  Messages <- SomeMessages
  MaxSends = 2
INVARIANTS
  UndisturbedBeginsAsGiven
  FramesSurviveOverlap
PROPERTIES
  ClosedIsClosed
  AttemptIsResolved
  ReceiverEnds
CHECK_DEADLOCK FALSE

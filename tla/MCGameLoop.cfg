SPECIFICATION Spec
CONSTANTS
  started = started
  h1 = h1
  h2 = h2
  Events <- OneEvent
  Handlers <- TwoHandlers
  MaxSent = 2
  MaxDepth = 2
  Intervals = {1}
  Repeats = {2}
  Durations = {0}
  Delays = {0, 3}
  DeltaTimes = {1, 2}
  MaxDelta = 2
  MaxTimers = 2
  MaxCalls = 4
  MaxThrows = 1
CHECK_DEADLOCK FALSE
INVARIANTS
  TypeOK
  AsyncInOrder
  HeardOnce
  NobodyIsSkipped
  RemovedIsGone
  FiresAtMostItsTimes
  KeepsTime
PROPERTIES
  QueueIsDrained
  TimersEnd

SPECIFICATION EventsSpec
CONSTANTS
  Main = main
  callback = callback
  receiver = receiver
  Raisers <- AllThreads
  MaxRaised = 3
  FirstCapacity = 1
INVARIANTS
  NothingLostAlone
PROPERTIES
  HandedOverOnce

SPECIFICATION Spec
CONSTANTS
  Base = 3
  IntSize = 2
  ShortSize = 1
  Names = {"receiveBuffer", "tempBuffer"}
  NewCapacity = 1
  MaxCapacity = 2
  Numbers <- SmallNumbers
  Arrays <- SmallArrays
INVARIANTS
  IndicesInOrder
  IntsSurvive
PROPERTIES
  ImplementsByteQueue

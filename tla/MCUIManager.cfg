SPECIFICATION Spec
CONSTANTS
  hall = hall
  table = table
  lost = lost
  tips = tips
  warning = warning
  None = None
  Normal <- NormalWindows
  Popup <- PopupWindows
  Viewless <- LostWindow
  d1 = d1
  d2 = d2
  Data <- TwoData
  MaxStack = 3
  MaxNested = 2
SYMMETRY Symmetry
CHECK_DEADLOCK FALSE
INVARIANTS
  TypeOK
  ScreenShowsTheTop
  BackWithItsData
  PeekFindsAWindow

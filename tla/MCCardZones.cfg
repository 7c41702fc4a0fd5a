SPECIFICATION Spec
CONSTANTS
  Hands <- SomeHands
  MaxDeals = 3
  MaxPool = 6
CHECK_DEADLOCK FALSE
INVARIANTS
  ScreenShowsTheHand
  SelectionIsWhatSticksOut
  ClicksReachTheirZone
PROPERTIES
  PlayedIsHeld

SPECIFICATION Spec
CONSTANTS
  Combos <- SomeCombos
  MaxCompared = 3
INVARIANTS
  CompareIsAntisymmetric
  BeatsIsTransitive
  OnlyBombsBeatOtherShapes
CHECK_DEADLOCK FALSE

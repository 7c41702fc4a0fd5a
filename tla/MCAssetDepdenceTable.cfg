SPECIFICATION Spec
CONSTANTS
  Number = 4
  Assets <- SomeAssets
  Graphs <- Acyclic
CHECK_DEADLOCK FALSE
INVARIANTS
  TablesAgree
  LineDependencies
  DependenciesKept
  PackedOnce
  LoaderFindsItsBundles

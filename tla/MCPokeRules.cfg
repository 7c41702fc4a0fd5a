SPECIFICATION HandsSpec
CONSTANT Games <- ShortAndWrapping
INVARIANTS
  HandsTypeOK
  GroupsMatchRules
  RunsFollowTheRules
  ShortRunsAreRecognised
  MainPokeLeadsTheRun
CHECK_DEADLOCK FALSE

SPECIFICATION HandsSpec
CONSTANT Games <- OneDeck
INVARIANT RunsAreConsecutive
CHECK_DEADLOCK FALSE

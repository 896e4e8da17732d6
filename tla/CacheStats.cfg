SPECIFICATION SSpec
CONSTANTS
  LineNos = {0, 1, 2}
  MaxAccesses = 6
  Sets <- SmallSets
  Ways <- SmallWays
INVARIANTS
  NoDuplicates
  NoLostStore
  CleanIsBacked
  TrafficAgrees
  WritebacksPaidFor
CHECK_DEADLOCK FALSE

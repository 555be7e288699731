SPECIFICATION FairSpec
CONSTANTS
  Days = 3
  Schedulers = {s1, s2, s3, s4, s5}
  MaxCrashes = 2
INVARIANTS Alone TradesEachDay NothingAfterEnd
PROPERTIES StopEnds
CHECK_DEADLOCK FALSE

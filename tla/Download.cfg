SPECIFICATION FairSpec
CONSTANTS
  t1 = t1
  t2 = t2
  t3 = t3
  k1 = k1
  k2 = k2
  Threads <- MCThreads
  Keys <- MCKeys
  Asks <- MCAsks
  Outcomes <- MCOutcomes
  MaxTimeouts = 6
  MaxConcurrent = 2
  Workloads <- MCWorkloads
INVARIANTS AnswersAreOwn HandedOutIsTracked
PROPERTY EveryRequestEnds
CHECK_DEADLOCK FALSE

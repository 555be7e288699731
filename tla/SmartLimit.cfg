SPECIFICATION FairSmartSpec
CONSTANTS
  Steps = 3
  MaxFailures = 2
INVARIANTS OneWorking 
PROPERTY SmartLimitEnds
CHECK_DEADLOCK FALSE

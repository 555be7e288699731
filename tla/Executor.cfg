SPECIFICATION FairSpec
CONSTANTS
  MaxFills = 3
  MaxCancels = 1
  MaxFaults = 2
PROPERTIES EventsHandled CashIsCorrected
CHECK_DEADLOCK FALSE

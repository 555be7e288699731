SPECIFICATION FairSpec
CONSTANTS
  i1 = i1
  Ids <- OneId
  QueueSize = 1
  MaxFailures = 1
  Outcomes = {"unpriced", "canceled", "error", "expired", "dropped"}
INVARIANTS FilledOnce OutstandingAreActive NewOrdersDistinct
PROPERTIES ImplementsOrderBook FillIsRecorded EndIsRecorded
CHECK_DEADLOCK FALSE

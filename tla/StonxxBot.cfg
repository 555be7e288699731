SPECIFICATION Spec
CONSTANTS
  s1 = s1
  s2 = s2
  cron = cron
  executor = executor
  Symbols <- OneSymbol
  Callers <- MCCallers
  Seed = 1
  Prices <- MCPrices
  LastDay = 3
  MaxCrashes = 2
INVARIANTS PendingFitsBooks PaperCashCovers 
PROPERTY PlanNotLost
CHECK_DEADLOCK FALSE

SPECIFICATION ExpirySpec
CONSTANTS
  call = call
  put = put
  index = index
  S = S
  X = X
  NoPrice = NoPrice
  Options = {call, put, index}
  Underlyings = {S, X}
  Indices = {X}
  Terms <- Contracts
  Multiplier = 2
  Budget = 6
  EarlyAssignment = TRUE
  MaxDteDays = 1
  MaxExtrinsic = 1
  TradingDays = {2, 4}
  Markets <- Prices
  MaxOrders = 3
INVARIANT NoneOverstays
PROPERTIES WorthIsKept ExercisesAreSupported
CHECK_DEADLOCK FALSE

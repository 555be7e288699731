SPECIFICATION RebalancerSpec
CONSTANTS
    a1 = a1
    a2 = a2
    a3 = a3
    Assets <- ThreeAssets
    Alphabet <- InOrder
    Multiplier <- Shares
    Whole = 10
    Slippage = 1
    Threshold = 2
    Fee = 1
    Modes <- AllModes
    Markets <- Prices
    Endowments <- Accounts
    MaxMoves = 2
    MaxFailures = 1
INVARIANT OrdersAreCovered
PROPERTIES Balances
CHECK_DEADLOCK FALSE

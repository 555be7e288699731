CONSTANTS
    Orders <- MCOrders
    Terms <- MCTerms
    NoOrder = "none"
    Assets = {"F", "S"}
    Futures = {"F"}
    Budget = 20
    Margin = 3
    MaxSpread = 30
    Patience = 2
    CancelsWithoutBars = TRUE
    Periods <- MCPeriods
    LastPeriod = 3
    MaxRoots = 2
SPECIFICATION Spec
INVARIANTS BooksAgree CashIsProceeds
PROPERTIES FillsAreFair NoExitLeftWhenFlat ImplementsContingent
CHECK_DEADLOCK FALSE

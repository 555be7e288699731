SPECIFICATION Spec
CONSTANTS
    a1 = a1
    a2 = a2
    Assets <- TwoAssets
    Cash = INR
    Sizes <- TwoSizes
    Threads = {"stream", "executor"}
    MaxTrades = 2
    MaxFailures = 1
PROPERTY Converges

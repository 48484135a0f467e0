SPECIFICATION Spec
CONSTANTS
    None = None
    PaymentIds = {p1}
    Paths <- MCPaths
    Pairs = {ab, ac}
    Rates <- MCRates
    Decimals = {0, 1}
    Amounts = {10450, 10499, 10500}
    AmountsIn = {7000}
    Deviations = {0, 50}
    Thresholds = {0, 1}
    DefaultThreshold = 2
    MaxRates = 2
    MaxTime = 2
INVARIANTS
    SwapsSettleAtTheRate

SPECIFICATION Spec
CONSTANTS
    usdc = usdc
    other = other
    p1 = p1
    p2 = p2
    p3 = p3
    None = None
    PaymentIds = {p1, p2, p3}
    Merchants = {m1}
    ClientKeys = {k1, k2}
    Tokens = {usdc}
    DefaultToken = usdc
    Tolerance <- OneTolerance
    Amounts = {1}
    Receipts <- NoChoices
    Durations = {1}
    LimitChoices <- NoChoices
    WindowSecs = 2
    MaxPerWindow = 2
    MaxBatch = 2
    MaxTime = 4
INVARIANT WindowRespected
PROPERTY KeysAnswer
SYMMETRY PaymentSymmetry

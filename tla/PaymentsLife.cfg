SPECIFICATION FairSpec
CONSTANTS
    usdc = usdc
    other = other
    p1 = p1
    p2 = p2
    p3 = p3
    None = None
    PaymentIds = {p1}
    Merchants = {m1}
    ClientKeys = {k1}
    Tokens = {usdc, other}
    DefaultToken = usdc
    Tolerance <- MCTolerance
    Amounts = {0, 4}
    Receipts = {1, 3, 4, 6, 7}
    Durations = {1, 2}
    LimitChoices <- MCLimits
    WindowSecs = 2
    MaxPerWindow = 1
    MaxBatch = 1
    MaxTime = 3
INVARIANTS
    TypeOK
    StatusIsTrue
PROPERTIES
    LifeCycle
    PendingEnds

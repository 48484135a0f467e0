SPECIFICATION Spec
CONSTANTS
    None = None
    PaymentIds = {p1}
    Customers = {c1}
    Arbitrators = {a1, a2, a3}
    Tokens = {gov}
    UsdcToken = gov
    PaymentAmounts = {100}
    RefundAmounts = {100}
    Stakes = {0, 10, 20}
    Deadlines = {0}
    Funds = {70}
    FeeBps = 100
    SlashBps = 1000
    MaxRefunds = 1
    MaxDisputes = 1
    MaxHeld = 130
    MaxTime = 1
INVARIANTS
    TallyExact
    StakeJustice
SYMMETRY ArbitratorSymmetry
CHECK_DEADLOCK FALSE

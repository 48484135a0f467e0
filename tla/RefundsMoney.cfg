SPECIFICATION Spec
CONSTANTS
    None = None
    PaymentIds = {p1, p2}
    Customers = {c1}
    Arbitrators <- NoOne
    Tokens = {usdc}
    UsdcToken = usdc
    PaymentAmounts = {200}
    RefundAmounts = {0, 100, 200}
    Stakes <- NoOne
    Deadlines = {0}
    Funds = {100}
    FeeBps = 100
    SlashBps = 1000
    MaxRefunds = 2
    MaxDisputes = 2
    MaxHeld = 100
    MaxTime = 0
INVARIANTS
    TypeOK
    RefundsBounded
    PaidIsRecorded
    ListsExact
    DisputeNamesItsRefund
PROPERTIES
    Final
    ImplementsClaims
SYMMETRY PaymentSymmetry
CHECK_DEADLOCK FALSE

SPECIFICATION Spec
CONSTANTS
    None = None
    Plans = {gold}
    Merchants = {m1, m2}
    Payers = {alice}
    Amounts = {3}
    Metered = {4}
    Intervals = {2}
    Fees = {5000, 20000}
    Caps = {0, 2}
    Balances = {4}
    MaxRetries = 2
    RetryInterval = 1
    MaxSubs = 1
    MaxTime = 5
INVARIANTS
    TypeOK
    ChargesPaced
    CapHolds
PROPERTIES
    LifeCycle
    PaidFromTheCharge

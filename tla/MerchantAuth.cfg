SPECIFICATION Spec
CONSTANTS
    Customers = {alice}
    Merchants = {m1, m2}
    Limits = {0, 3}
    Periods = {0, 2, 3}
    Amounts = {0, 1, 2}
    MaxTime = 5
INVARIANTS
    TypeOK
    PulledWithinLimit
    ReadAgreesWithPull
PROPERTIES
    ImplementsAllowance

SPECIFICATION Spec
CONSTANTS
    StreamIds = {s1}
    Senders = {snd}
    Receivers = {r1}
    Rates = {1, 3}
    Amounts = {2, 5}
    MaxBatchCancel = 1
    MaxTime = 4
    MaxDeposited = 5
INVARIANTS
    TypeOK
    PaidForElapsedTime
PROPERTIES
    EntitlementKept
    RateCutKeepsDuration
    ImplementsEscrow

SPECIFICATION Spec
CONSTANTS
    StreamIds = {s1, s2}
    Senders = {snd}
    Receivers = {r1}
    Rates = {1, 3}
    Amounts = {2, 5}
    MaxBatchCancel = 1
    MaxTime = 3
    MaxDeposited = 5
INVARIANT DepositsBacked

SPECIFICATION Spec
CONSTANTS
    StreamIds = {s1, s2}
    Senders = {snd}
    Receivers = {r1}
    Rates = {1}
    Amounts = {2}
    MaxBatchCancel = 2
    MaxTime = 1
    MaxDeposited = 4
INVARIANTS
    Conserved
PROPERTIES
    DistributionNeedsApproval
    WithdrawAllDrains
SYMMETRY StreamSymmetry

SPECIFICATION Spec
CONSTANTS
    LinkIds = {l1, l2}
    Merchants = {m1, m2}
    Amounts = {1, 2}
    Limits = {1}
    Prices = {1}
    Expiries = {0}
    MaxUses = 2
    MaxTime = 1
    None = None
SYMMETRY Symmetry
INVARIANTS
    UsesKeepTheTerms

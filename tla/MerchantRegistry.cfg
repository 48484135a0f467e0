SPECIFICATION FairSpec
CONSTANTS
    None = None
    boss = boss
    shop = shop
    Accounts = {boss, shop}
    Roles <- MCRoles
    Merchants = {shop}
    Addresses = {x}
    Durations = {0, 2}
    PayoutDelay = 3
    MaxTime = 3
INVARIANTS
    TypeOK
    IndexExact
    KeyNamesAnAdmin
    SuspensionOnRecord
    PayoutChangesApart
PROPERTIES
    SuspensionEnds

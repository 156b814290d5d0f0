SPECIFICATION Spec
CONSTANTS
    alice = alice
    rig1 = rig1
    rig2 = rig2
    Nobody = Nobody
    Workers = {rig1, rig2}
    Logins = {alice}
    LoginOf <- MCLoginOf
    Second = 1
    SmallWindow = 2
    LargeWindow = 4
    Expiration = 4
    StatsInterval = 1
    MaxTime = 5
    MaxShares = 2
SYMMETRY Symmetry
INVARIANTS
    TypeOK
    WindowsKept
    AccountsFresh
PROPERTIES
    ReportsRight
CHECK_DEADLOCK FALSE

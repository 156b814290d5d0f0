SPECIFICATION Spec
CONSTANTS
    first = first
    second = second
    Rounds = {first, second}
    MinDepth = 2
    ImmatureDepth = 2
    Depth = 4
    BlockReward = 8
    UncleReward = 3
    Drift = {0, 1}
    ReorgLimit = 3
    LastFind = 2
    MaxHead = 7
    MaxFaults = 1
INVARIANTS
    ImmatureFollowsLog

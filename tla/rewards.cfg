SPECIFICATION Spec
CONSTANTS
    alice = alice
    bob = bob
    pool = pool
    dev = dev
    None = None
    Miners = {alice, bob}
    FeeAddresses = {alice, pool}
    DonationAccount = dev
    FeeNum = 1
    FeeDen = 10
    DonationNum = 1
    DonationDen = 4
    WeiPerShannon = 5
    FirstReward = 128
    HeightStep = 2
    HeightMax = 5
    UncleDepth = 2
    TxFees = {0, 17}
    MaxUncles = 1
    LastHeight = 7
    MaxShares = 2
    MaxRounds = 2
INVARIANTS
    TypeOK
    CreditsFollowRevenue
    MinersGetTheirPart
CHECK_DEADLOCK FALSE

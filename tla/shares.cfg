SPECIFICATION Spec
CONSTANTS
    alice = alice
    bob = bob
    plain = plain
    again = again
    block = block
    late = late
    Clients = {alice, bob}
    ShareIds = {plain, again, block, late}
    Nonces = {plain, block, late}
    Works = {plain, block, late}
    NonceOf <- MCWorkOf
    WorkOf <- MCWorkOf
    Blocks = {block, again, late}
    HeightOf <- MCHeightOf
    FirstHeight = 2
    LastHeight = 4
    PowBacklog = 1
    Wrap = 16
    MaxLag = 1
    MaxFaults = 1
SYMMETRY Symmetry
INVARIANTS
    TypeOK
    CountedOnce
    SharesKept
    CandidatesNameRounds
    BlocksRecorded
CHECK_DEADLOCK FALSE

SPECIFICATION FairSpec
CONSTANTS
    alice = alice
    bob = bob
    Logins = {alice, bob}
    Threshold = 1
    Credits = {1, 2}
    MaxEarned = 3
INVARIANTS
    TypeOK
    Conservation
    PendingIsListed
    BooksAgree
    NoDoublePay
    PaidWasSent
PROPERTIES
    WriteAhead
    OneAtATime
    StartsClean
    LedgerSpec
    PayeesServed
CHECK_DEADLOCK FALSE

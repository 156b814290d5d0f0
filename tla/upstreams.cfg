SPECIFICATION UpstreamsFairSpec
CONSTANTS
    caller = caller
    Count = 2
    SickAt = 3
    AliveAt = 2
    Callers = {caller}
    MaxErrors = 1
INVARIANTS
    UpstreamsTypeOK
PROPERTIES
    WellAfterChecksInARow
    FollowsHealth

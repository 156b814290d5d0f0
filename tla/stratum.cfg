SPECIFICATION FairSpec
CONSTANTS
    first = first
    timer = timer
    found = found
    push1 = push1
    push2 = push2
    Sessions = {first}
    Fetchers = {timer, found}
    Starter = found
    Pushes = {push1, push2}
    MaxJobs = 3
    LastHeight = 2
INVARIANTS
    TypeOK
    LastHeightHasJob
PROPERTIES
    BroadcastArrives
CHECK_DEADLOCK FALSE

SPECIFICATION Spec
CONSTANTS
    alice = alice
    bob = bob
    Logins = {alice, bob}
    Threshold = 1
    Credits = {1, 2}
    MaxEarned = 3
INVARIANT UnlockedWhenReported
CHECK_DEADLOCK FALSE

SPECIFICATION Spec
CONSTANTS
    Nonce = {n1, n2}
    FreshWindow = 1
    Skew = 2
    MaxClock = 3
    MaxRuns = 2
CHECK_DEADLOCK FALSE
SYMMETRY Symmetry
INVARIANTS TypeOK ReplayBounded StatusHonest OldNoncesIdle
PROPERTIES GenuineAccepted ImplementsDelivery

SPECIFICATION Spec
CONSTANTS
    FreshWindow = 1
    Skew = 1
    MaxClock = 4
CHECK_DEADLOCK FALSE
INVARIANT RejectionExitsOne

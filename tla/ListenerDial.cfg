SPECIFICATION Spec
CONSTANTS
    Nonce = {n1}
    FreshWindow = 1
    Skew = 1
    MaxClock = 1
    MaxRuns = 1
CHECK_DEADLOCK FALSE
PROPERTY ConnectFailsForCause

SPECIFICATION FairSpec
CONSTANTS
    Nonce = {n1}
    FreshWindow = 1
    Skew = 1
    MaxClock = 2
    MaxRuns = 2
CHECK_DEADLOCK FALSE
PROPERTIES SignalEnds LossNoticed

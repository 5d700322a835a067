SPECIFICATION Spec
CONSTANTS
    h1 = h1
    h2 = h2
    x = x
    Device = {d1, d2}
    Nonce = {n1, n2, n3}
    None = None
    MaxRuns = 2
    Key <- MCKey
    HomeKey <- MCHomeKey
    Words <- MCWords
    Digest <- MCDigest
SYMMETRY Symmetry
CHECK_DEADLOCK FALSE
INVARIANTS TypeOK SavedIsIssued
PROPERTY ImplementsPairingCommit

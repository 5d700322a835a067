SPECIFICATION Spec
CONSTANTS
    Proc = {p1, p2}
    Key = {k1, k2}
    ServerKey = {s1, s2}
    ServerUrl = {u1}
    RelayUrl = {r1}
    None = None
    Absent = Absent
    Empty = Empty
    Torn = Torn
SYMMETRY Symmetry
CHECK_DEADLOCK FALSE
INVARIANTS TypeOK PairingConfirmed IdentityConsistent SignerConsistent Inv
PROPERTIES InitKeepsIdentity NoLostUpdate InitRepairs ImplementsPairingCommit

SPECIFICATION Spec
CONSTANTS
    Proc = {p1, p2}
    Key = {k1, k2}
    ServerKey = {s1}
    ServerUrl = {u1}
    RelayUrl = {r1}
    None = None
    Absent = Absent
    Empty = Empty
    Torn = Torn
CHECK_DEADLOCK FALSE
INVARIANT MnemonicRecoversIdentity

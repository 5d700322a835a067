SPECIFICATION Spec
CONSTANTS
    P = 23
    B = 1
    N = 19
    Width = 32
CHECK_DEADLOCK FALSE
INVARIANTS EncodingIsKey ExactlySigned

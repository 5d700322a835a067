SPECIFICATION Spec
CONSTANTS
    Key = {device, server, other}
    Device = device
    Server = server
    C = C
    V = V
    Nul = Nul
    Char <- MCChar
    ConvName <- MCConvName
    Name <- MCName
    Lead <- MCLead
    Nonce = {n1}
    Half = 4
    FreshWindow = 1
CHECK_DEADLOCK FALSE
INVARIANTS TypeOK AcceptedIsSigned RoundTrip ReadersAgree FreshIsNear

SPECIFICATION ConfigFileSpec
CONSTANTS
    Keys = {g1, g2}
    Registrars = {r1, r2}
    Unset = Unset
    MaxChain = 3
    MaxEdits = 1
INVARIANT
    AcceptedVerifies
CHECK_DEADLOCK FALSE

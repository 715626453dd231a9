SPECIFICATION DocumentsSpec
CONSTANTS
    Symbols <- Letters
    Beginnings <- Openings
    MaxSymbols = 3

    Keys = {g1, g2}
    Registrars = {r1, r2}
    Unset = Unset
    MaxChain = 3
    MaxEdits = 1
INVARIANTS
    ParseIsExact
    UsedAsSigned
    SignedIsAccepted
PROPERTY
    ParseReturns
CHECK_DEADLOCK FALSE

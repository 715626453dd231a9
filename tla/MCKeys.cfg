SPECIFICATION KeysSpec
CONSTANTS
    Users = {alice, bob}
    Seeds = {s1, s2}
    Readers = {t1}
    RoundLimit = 4
    Nil = Nil

    DialingRounds = {0, 1}
    MaxIntros = 2

    Processes = {p1, p2, p3}
    MaxKeys = 2
    Absent = Absent
    Torn = Torn

    one = one
    NumPKGs = 2
    Clients = {c1, c2}
    Names = {one}
    Username <- SameName
    MaxRound = 3
    MaxFailures = 1
    NoReveal = NoReveal
SYMMETRY Symmetry
INVARIANTS
    KeyDetermined
    ForwardSecrecy
    UnracedReadIsExact
    
    SeedsAgree
    IntroIsWhole
    
    RoundKeysKept
    OneOwner
CHECK_DEADLOCK FALSE

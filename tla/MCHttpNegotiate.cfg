CONSTANTS
    c1 = c1
    c2 = c2
    s1 = s1
    s2 = s2
    alice = alice
    key = key
    forged = forged
    plain = plain
    typed = typed
    Nil = Nil
    Calls = {c1, c2}
    Services = {s1, s2}
    Configs <- MCConfigs
    Strays <- MCStrays
    Principal = alice
    TicketKey = key
    Names = {plain, typed}
    TicketName = plain
    MicrosPerSecond = 2
    Skew = 1
    MaxTime = 3
SPECIFICATION Spec
INVARIANTS AcceptedByServer ServedOnce NoFalseReplay CallSucceeds
CHECK_DEADLOCK FALSE
SYMMETRY MCSymmetry

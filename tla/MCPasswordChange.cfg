CONSTANTS
    Nil = Nil
    s1 = s1
    s2 = s2
    p0 = p0
    p1 = p1
    p2 = p2
    alice = alice
    alice2 = alice2
    bob = bob
    Servers = {s1, s2}
    Passwords = {p0, p1, p2}
    InitialPassword = p0
    Me = alice
    MeOtherType = alice2
    Other = bob
    Configs <- MCConfigs
    Skew = 1
    MaxCalls = 2
    MaxTries = 2
    MaxTime = 2
SPECIFICATION Spec
INVARIANTS ResultIsOurs CredentialInStep ChangeSucceeds
CHECK_DEADLOCK FALSE
SYMMETRY MCSymmetry

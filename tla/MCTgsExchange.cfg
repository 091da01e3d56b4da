\* TgsExchange: two realms that refer to each other at will.
CONSTANTS
    Realms <- MCRealms
    Home = "A"
    NoRealm = NoRealm
    Services <- MCServices
    Users <- MCUsers
    ResolvedRealm <- MCResolvedRealm
    MaxReferrals = 2
    MaxCalls = 2
    MaxKeys = 3
SPECIFICATION FairSpec
INVARIANTS TraceIsChain ResultIsRequested LimitIsExact PresentedWhereValid
PROPERTIES TracesEnd
CHECK_DEADLOCK FALSE

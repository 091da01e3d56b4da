\* TgsExchange: whom authenticators name.
CONSTANTS
    Realms <- MCRealms
    Home = "A"
    NoRealm = NoRealm
    Services <- MCServices
    Users <- MCUsers
    ResolvedRealm <- MCResolvedRealm
    MaxReferrals = 2
    MaxCalls = 2
    MaxKeys = 3
SPECIFICATION Spec
INVARIANTS AuthenticatorNamesClient
CHECK_DEADLOCK FALSE

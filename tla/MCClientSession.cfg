CONSTANTS
    home = home
    foreign = foreign
    web = web
    remote = remote
    Realms = {home, foreign}
    Home = home
    Services = {remote}
    RealmOf <- MCRealmOf
    NoSession = NoSession
    S4U = S4U
    NoGoal = NoGoal
    Life = 6
    RenewLife = 7
    KdcAhead = 1
    RetryDelay = 1
    MaxExchange = 0
    OtherLogins <- MCOtherLogins
    Instants = {0, 5, 6}
SPECIFICATION FairSpec
INVARIANTS PrimaryMirrored
PROPERTIES PrimaryNeverDowngraded ExchangesStartValid RefreshLeavesWindow DestroyIsFinal DestroyStopsTask CallsReturn

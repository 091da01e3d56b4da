CONSTANTS
    home = home
    foreign = foreign
    web = web
    remote = remote
    Realms = {home}
    Home = home
    Services = {web}
    RealmOf <- MCRealmOf
    NoSession = NoSession
    S4U = S4U
    NoGoal = NoGoal
    Life = 18
    RenewLife = 27
    KdcAhead = 0
    RetryDelay = 1
    MaxExchange = 1
    OtherLogins = {}
    Instants <- MCEveryTick
SPECIFICATION PromptSpec
PROPERTIES KeptAlive

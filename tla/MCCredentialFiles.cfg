CONSTANTS
    Nil = Nil
    p1 = p1
    p2 = p2
    Processes = {p1, p2}
    Configs <- MCConfigs
    KeytabName <- MCKeytabName
    Stamps = {1, 3}
    Kvnos = {2, 3}
    Offers <- MCOffers
    Now = 2
    TimeLimit = 8
    ConfigKey = "pa_type"
    Cuts = {9, 26, 30}
    MaxTickets = 1
    MaxKeys = 2
    MaxChanges = 2
SPECIFICATION FilesSpec
CONSTRAINT MCWorthwhile
INVARIANTS FileIsLatest DamageIsNoticed KeysFound
PROPERTY ReloadedIsSaved
CHECK_DEADLOCK FALSE

CONSTANTS
    v1 = v1
    v2 = v2
    v3 = v3
    shared = shared
    local = local
    HTTP = HTTP
    R = R
    alice = alice
    bob = bob
    addr1 = addr1
    Validators = {v1, v2, v3}
    Caches = {shared, local}
    SharedCaches = {shared}
    CacheOf <- MCCacheOf
    KeytabEntries <- MCKeytabEntries
    NoOverride = NoOverride
    KeytabPrincipal = NoOverride
    NoAddress = NoAddress
    ClientAddress <- MCClientAddress
    RequireClientAddress <- MCRequireAddress
    NoAddresses = NoAddresses
    Requests <- MCRequests
    NoRequest = NoRequest
    MaxClockSkew = 1
    MaxDelay = 1
    MaxAge = 3
    MaxTime = 7
SPECIFICATION ValidatorSpec
CONSTRAINT MCSides
INVARIANTS RetentionCoversReplays
PROPERTIES AcceptedWhileCurrent PurgingIsInvisible

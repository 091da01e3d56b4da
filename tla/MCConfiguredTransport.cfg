\* ConfiguredTransport: the configurations come from files, none is given
\* directly.
CONSTANTS
    Hosts = {1, 2, 3}
    Ipv6Hosts = {2}
    Malformed = Malformed
    NoTarget = NoTarget
    NotSearched = NotSearched
    Unresolvable = {3}
    DnsOverride = TRUE
    SrvAnswers <- MCSrvAnswers
    Configs = {}
    Missing = Missing
    Lower <- MCLower
    Lines <- MCLines
    Paths <- MCPaths
    Sources <- MCSources
    Domains <- MCDomains
    DefaultRealm = "A"
    Sizes <- MCSizes
    MAX_UDP_DATAGRAM = 8
    MaxCalls = 2
SPECIFICATION FairConfSpec
INVARIANTS  RepliesAreOurs ResendsOnlyAfterFailure ErrorMeansExhausted TooBigIsLastResort
PROPERTIES CallsEnd
CHECK_DEADLOCK FALSE

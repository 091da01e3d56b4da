\* AsExchange: a KDC in order, and one with odd, repeated and late answers.
CONSTANTS
    Supported <- MCSupported
    Accounts <- MCAccounts
    EtypeLists <- MCEtypeLists
    Keytabs <- MCKeytabs
    Services <- MCServices
    DefaultSalt = "default"
    NoKey = NoKey
    Cases <- MCCases
    MaxVersion = 2
    MaxReplies = 2
SPECIFICATION Spec
INVARIANTS SessionIsOurs AnswerIsBound NoDowngrade LoginSucceeds
CHECK_DEADLOCK FALSE

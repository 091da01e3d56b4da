CONSTANTS
    Nil = Nil
    k1 = k1
    k2 = k2
    kx = kx
    Keys = {k1, k2, kx}
    Supported = {k1, k2}
    Payloads <- MCPayloads
    Usages = {24, 25}
    Seqs = {1}
    Ecs = {0, 1}
    Rrcs = {0, 7}
    ChecksumLen = 2
    Overhead = 2
    MaxTokens = 2
    MaxBuilt = 1
    MaxCalls = 4
SPECIFICATION Spec
INVARIANTS Authentic Delivered SealedIsSecret
CHECK_DEADLOCK FALSE
SYMMETRY MCSymmetry

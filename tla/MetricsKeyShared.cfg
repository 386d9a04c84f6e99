SPECIFICATION Spec
CONSTANTS
    k1 = k1
    k2 = k2
    h1 = h1
    h2 = h2
    h3 = h3
    Key = {k1, k2}
    NoKey = NoKey
    Thread = {h1, h2}
    Sweeper = Sweeper
    MaxLive = 1
    MaxSessions = 3
    MaxFaults = 0
SYMMETRY Symmetric
INVARIANT NeverSharesFiles
CHECK_DEADLOCK FALSE

SPECIFICATION Spec
CONSTANTS
    Me = me
    Gateway = g
    LinkHosts = {g, h, k}
    FarHosts = {f}
    CacheSize = 2
    Ports = {1, 2, 3}
    Callbacks = {ca, cb}
    MaxBindings = 2
    MaxTries = 2
    MaxPings = 2
    MaxOps = 5
    MaxInFlight = 2
    None = None
SYMMETRY NetSymmetry
CONSTRAINT OneSubject
INVARIANTS
    PingTellsTruth
    ArpNamesOnce
    DatagramsReachOwner
CHECK_DEADLOCK FALSE

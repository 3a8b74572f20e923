SPECIFICATION FairSyncSpec
CONSTANTS
    ThreadMax = 4
    Policies = {}
    Stoppers = {}
    None = None
    Workers = {1, 2, 3}
    InitialCount = 1
    WaitersMax = 1
    MaxSignals = 2
    CanWait = {1, 2, 3}
    CanSignal = {1, 2, 3}
INVARIANTS
    HolderAlone
    NeverOverAdmits
    QueueSound
PROPERTIES
    LockComesFree

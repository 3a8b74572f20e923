SPECIFICATION FairSpec
CONSTANTS
    ThreadMax = 4
    Policies = {}
    Stoppers = {}
    None = None
    ProcessMax = 3
    MaxFds = 1
    NumHandles = 2
    MaxOpens = 1
INVARIANTS
    FindsItself
    ReturnedLeavesNothingOpen
PROPERTIES
    ProcessesFinish

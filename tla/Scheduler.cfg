SPECIFICATION FairSchedulerSpec
CONSTANTS
    ThreadMax = 5
    Policies = {"rr", "fcfs", "priority"}
    Stoppers <- AllThreads
    None = None
INVARIANTS
    CurrentRuns
PROPERTIES
    TerminatedForGood
    RoundRobinServes

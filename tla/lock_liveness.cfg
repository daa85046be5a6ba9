SPECIFICATION FairSpec
CONSTANTS
    NoPod = NoPod
    Workflow = {w1, w2}
    Pod = {w1, w2}
    PodOf <- OwnPods
    LockTimeout = 0
    Faults = {"edit"}
    MaxCrashes = 1
PROPERTIES
    LockMovesOn

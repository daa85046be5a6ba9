SPECIFICATION Spec
CONSTANTS
    NoPod = NoPod
    Workflow = {w1, w2}
    Pod = {w1, w2}
    PodOf <- OwnPods
    LockTimeout = 2
    Faults = {"api", "panic", "write"}
    MaxCrashes = 1
INVARIANTS
    ExclusiveWhileFresh
PROPERTIES
    LockIsLease
    LockDiscipline
    PurgeSparesFresh
SYMMETRY PodSymmetry

SPECIFICATION FairSpec
CONSTANTS
    Syncer = {s1, s2, s3}
    Limits = {1, 2}
    MaxManagers = 2
INVARIANTS
    TypeOK
    SlotsExact
    CountersExact
    NoIdleSlot
PROPERTIES
    ManagersAreSlots
    QueueServed

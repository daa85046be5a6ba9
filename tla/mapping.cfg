CONSTANTS
    Target = {t1, t2}
    Source = {s1}
    MaxFailures = 1
    Delays <- BackoffTicks
    FailedDelay = 1
    Hour = 2
    World <- FewWorlds
    Faulty = TRUE
SPECIFICATION FairSpec
INVARIANTS NoLostWakeup
PROPERTIES RecoversWhenHealthy OutageNoticed

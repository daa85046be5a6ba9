CONSTANTS
    Modes = {"Scheduled", "Manual"}
    HasClients = TRUE
    Period = 2
    MaxRetries = 2
    MaxBackoff = 3
    Faults = {"outage", "sync", "pause", "trigger", "untrigger", "delete", "clusters"}
SPECIFICATION FairSpec
INVARIANTS NoLostWakeup NoSyncAfterDeletion
PROPERTIES SyncsForever TriggerServed DeletionCompletes

CONSTANTS
    Modes = {"Scheduled"}
    HasClients = FALSE
    Period = 2
    MaxRetries = 2
    MaxBackoff = 3
    Faults = {}
SPECIFICATION FairSpec
PROPERTIES SomeTimeCompleted

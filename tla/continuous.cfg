CONSTANTS
    MaxWorkers = 2
    Specs <- MCSpecs
    Workers <- MCWorkers
    ScaleToZero = TRUE
    SyncCRDs = TRUE
    SyncData = TRUE
    MaxEdits = 1
    MaxFaults = 1
SPECIFICATION FairSpec
PROPERTIES SuccessMeansCopied Converges DataArrives
CHECK_DEADLOCK FALSE

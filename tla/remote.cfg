CONSTANTS
    MaxUpsets = 2
SPECIFICATION FairSpec
PROPERTIES RecordedMeansDeployed ClearedMeansGone DisabledIsCleared EnabledIsServed RsyncKeyMounted OutcomeReported

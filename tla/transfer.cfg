CONSTANTS
    File = {f1, f2}
    MaxRetries = 2
    SamplePercent = 50
SPECIFICATION FairSpec
INVARIANTS SuccessMeansTransferred FullMeansEqual
PROPERTIES FinalPhaseSticks CallReturns

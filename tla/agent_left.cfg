CONSTANTS
    MaxUpsets = 1
SPECIFICATION FairSpec
PROPERTIES NothingLeftBehind

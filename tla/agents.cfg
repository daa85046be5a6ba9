CONSTANTS
    Agent = {a1, a2, a3}
    MaxMishaps = 2
SPECIFICATION FairSpec
PROPERTIES
    ElectionIsLease
    AgentsRecover

CONSTANTS
    web = web
    db = db
    Workload = {web, db}
    Kind <- KindOf
    MaxReplicas = 2
    MaxTrouble = 1
SPECIFICATION Spec
INVARIANTS CountKept SuccessMeansMoved StageCopies
 

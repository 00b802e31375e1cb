SPECIFICATION FairSpec
CONSTANTS
    Requests = {1, 2, 3}
    Kinds <- Committing
    FirstData = 2
    EndData = 5
    MayFail = FALSE
INVARIANTS
    TypeOK
    LiveIntact
    ScanValid
PROPERTIES
    GarbageGoes

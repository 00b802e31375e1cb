SPECIFICATION FairSpec
CONSTANTS
    Requests = {1, 2, 3}
    Kinds <- AllKinds
    FirstData = 2
    EndData = 4
    MayFail = TRUE
PROPERTIES
    ComesToRest

SPECIFICATION Spec
CONSTANTS
    Requests = {1, 2, 3}
    Kinds <- ReadAndCommit
    FirstData = 2
    EndData = 5
    MayFail = FALSE
INVARIANTS
    LiveIntact

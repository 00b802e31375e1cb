SPECIFICATION Spec
CONSTANTS
    d = d
    e = e
    f = f
    hidden = hidden
    Names = {d, e, f, hidden}
    Paths <- TreeAndHidden
    Hidden <- HiddenName
    Contents = {c1, c2}
    Handles = {h1, h2}
    Policies = {TRUE, FALSE}
    Habits = {}
    MaxFaults = 1
    Empty = Empty
    Directory = Directory
    Absent = Absent
    Closed = Closed
SYMMETRY Symmetric
INVARIANTS
    TypeOK
    VisibleAgrees
    StagedCommittable
    NothingForgotten
    AcknowledgedIsCommitted
    UnmountKeepsEverything
PROPERTIES
    FailureIsSticky

SPECIFICATION Spec
CONSTANTS
    f = f
    g = g
    empty = empty
    one = one
    two = two
    Names = {f, g}
    Contents = {one, two}
    BlockCount <- MCBlockCount
    FirstData = 2
    EndData = 5
    Coalescing = TRUE
    TornMetadata = TRUE
    MaxGeneration = 4
    MaxFaults = 1
    Blank = Blank
    Torn = Torn
    Absent = Absent
INVARIANT RecoveryPointReadable

SPECIFICATION FairSpec
CONSTANTS
    f = f
    g = g
    empty = empty
    one = one
    two = two
    Names = {f, g}
    Contents = {one, two}
    BlockCount <- MCBlockCount
    FirstData = 2
    EndData = 5
    Coalescing = FALSE
    TornMetadata = TRUE
    MaxGeneration = 4
    MaxFaults = 2
    Blank = Blank
    Torn = Torn
    Absent = Absent
INVARIANT TypeOK
INVARIANT BothGenerationsReadable
INVARIANT ExtentsDisjoint
PROPERTY ImplementsAtomicStore
PROPERTY PutFailsOnlyAfterCollecting
PROPERTY OperationsReturn

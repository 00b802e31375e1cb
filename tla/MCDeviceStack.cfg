SPECIFICATION FairSpec
CONSTANTS
    d1 = d1
    d2 = d2
    m1 = m1
    m2 = m2
    x = x
    y = y
    Data = {d1, d2}
    Meta = {m1, m2}
    Values = {x, y}
    Blank = Blank
    Torn = Torn
    Absent = Absent
    MaxFaults = 2
INVARIANTS
    TypeOK
    CacheTruthful
    NewestKept
    NoHammering
PROPERTIES
    EraseAfterFlush
    QuietIsFlushed

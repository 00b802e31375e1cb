\* Three faults are what a call must not absorb, two what it must.
SPECIFICATION Spec
CONSTANTS
    Count = 3
    Split = 1
    Values = {x, y}
    Blank = Blank
    Torn = Torn
    MaxExtent = 2
    MaxFaults = 3
SYMMETRY Symmetry
INVARIANTS
    StoredAsReported
    RetriesAbsorb

SPECIFICATION Spec
CONSTANTS
    a = a
    b = b
    c = c
    d = d
    m = m
    s = s
    t = t
    two = two
    three = three
    Names = {a, b, c, d, m}
    Small = {s, t}
    Large = {two, three}
    Encoded <- MCEncoded
    Capacity = 3
    BlockCount <- MCBlockCount
    FirstData = 2
    EndData = 11
    Batches <- MixedBatches
    MaxGeneration = 5
    MaxFaults = 1
    Blank = Blank
    Torn = Torn
    Absent = Absent
INVARIANTS
    TypeOK
    BothManifestsResolve
PROPERTIES
    PackingNeverGrows
    ImplementsAtomicStore

SPECIFICATION Spec
CONSTANTS
    a = a
    b = b
    c = c
    d = d
    m = m
    s = s
    t = t
    two = two
    three = three
    Names = {a, b, c, d, m}
    Small = {s, t}
    Large = {two, three}
    Encoded <- MCEncoded
    Capacity = 2
    BlockCount <- MCBlockCount
    FirstData = 2
    EndData = 8
    Batches <- MCBatches
    MaxGeneration = 8
    MaxFaults = 0
    Blank = Blank
    Torn = Torn
    Absent = Absent
INVARIANT CopyIsPossible

SPECIFICATION Spec
CONSTANTS
    w1 = w1
    w2 = w2
    w3 = w3
    w4 = w4
    Writer = {w1, w2, w3, w4}
    size <- MCSize
    CAP = 4
    None = None
    MaxStarts = 2
CHECK_DEADLOCK FALSE
INVARIANTS
    AckedWhole
    LinesWhole

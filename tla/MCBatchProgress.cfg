\* One batch of before the log, one new one, two passes side by side, one outage or process death.
CONSTANTS
    a1 = a1
    a2 = a2
    p1 = p1
    p2 = p2
    Batches = {1, 2}
    Artists = {a1, a2}
    Passes = {p1, p2}
    Old = {a1}
    Partial = FALSE
    MaxMishaps = 1
SPECIFICATION FairSpec
INVARIANTS LogIsSound
PROPERTIES BatchFinishes
CHECK_DEADLOCK FALSE

\* One batch of one artist and one process death.
CONSTANTS
    a1 = a1
    p1 = p1
    Batches = {1}
    Artists = {a1}
    Passes = {p1}
    Old = {}
    Partial = FALSE
    MaxMishaps = 1
SPECIFICATION FairSpec
PROPERTIES CatchUpsAreLogged
CHECK_DEADLOCK FALSE

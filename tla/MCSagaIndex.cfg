\* Two requests, every index row within one tick's limit.
CONSTANTS
    r1 = r1
    r2 = r2
    Requests = {r1, r2}
    Slots = 1
    HistoryLimit = 1
    RefreshLimit = 2
    MaxFaults = 1
    MaxRepublish = 1
    MaxFacts = 4
SPECIFICATION Spec
INVARIANTS IndexIsSound
PROPERTIES WonIsNotRepeated IndexSettles
CHECK_DEADLOCK FALSE

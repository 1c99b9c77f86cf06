\* One refresh, two deliveries and one process death.
CONSTANTS
    r1 = r1
    w1 = w1
    Requests = {r1}
    Workers = {w1}
    MaxDeliver = 2
    MaxFaults = 0
    MaxExits = 0
    MaxLapses = 0
    Fetchers = {TRUE}
    MaxRuns = 0
    MaxRetries = 0
    MaxCrashes = 1
    Sweeps = TRUE
    Batches = FALSE
SPECIFICATION FairSpec
PROPERTIES MirrorRecovers
CHECK_DEADLOCK FALSE

\* One refresh, three deliveries, a pool that may leave, one process death anywhere, the sweeper and the boot reconciliation.
CONSTANTS
    r1 = r1
    w1 = w1
    Requests = {r1}
    Workers = {w1}
    MaxDeliver = 3
    MaxFaults = 0
    MaxExits = 1
    MaxLapses = 0
    Fetchers = {TRUE,FALSE}
    MaxRuns = 0
    MaxRetries = 0
    MaxCrashes = 1
    Sweeps = TRUE
    Batches = TRUE
SPECIFICATION FairSpec
INVARIANTS RowsAreSound
PROPERTIES  RowsSettle
CHECK_DEADLOCK FALSE

\* Two refreshes and two goroutines where nothing fails, or one refresh with one failing call, one missed ack deadline and one retry.
CONSTANTS
    r1 = r1
    r2 = r2
    w1 = w1
    w2 = w2
    Requests = {r1,r2}
    Workers = {w1,w2}
    MaxDeliver = 2
    MaxFaults = 1
    MaxExits = 0
    MaxLapses = 1
    Fetchers = {TRUE,FALSE}
    MaxRuns = 1
    MaxRetries = 1
    MaxCrashes = 0
    Sweeps = FALSE
    Batches = TRUE
    Fetches = {w1,w2}
    MaxLaunches = 3
    MaxDeaths = 1
    MaxGraces = 1
    Callers = {w1,w2}
    Registry <- RegistryOfTwo
    Slots = 2
    FetchRetries = 1
    Profiles = 2
    MaxClock = 1
    MaxDelay = 1
    MaxStreak = 2
    Ids <- FourArtists
    PoolSize = 2
    BatchSize = 3
SPECIFICATION PartSpec
SYMMETRY Symmetry
INVARIANTS  ArtistIsReleased BrowsersAreAccounted FetchesAreSound EveryIdIsReturned 
PROPERTIES CooldownIsExact
CHECK_DEADLOCK FALSE

\* Three rows of a stream, any of which may be unencodable, a pass of two, two process deaths, one
\* expired window, one lost store.
CONSTANTS
    s1 = s1
    Streams = {s1}
    MaxEvents = 3
    MaxNative = 1
    MaxBatch = 2
    BatchSize = 2
    MaxCrashes = 2
    MaxExpiries = 1
    Unencodable = TRUE
    StoreLoss = TRUE
SPECIFICATION FairSpec
INVARIANTS MirrorIsSound FlipIsSound
PROPERTIES EveryRowDrains
CHECK_DEADLOCK FALSE

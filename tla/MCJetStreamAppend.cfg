\* Two racing calls of up to two events each, two attempts each, and two aggregate types
\* that contend for one aggregate ID.
CONSTANTS
    c1 = c1
    c2 = c2
    s1 = s1
    t1 = t1
    t2 = t2
    Calls = {c1, c2}
    Streams = {s1}
    Types = {t1, t2}
    MaxBatch = 2
    MaxAttempts = 2
    MaxMsgs = 2
SPECIFICATION FairSpec
INVARIANTS VersionsConsecutive SuccessIsComplete
PROPERTIES ConflictIsFinal ImplementsEventLog CallsReturn
CHECK_DEADLOCK FALSE

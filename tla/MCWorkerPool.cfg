\* One provider of two goroutines, two requests of which one may be a poison message, two
\* deliveries, one missed deadline, one lost answer.
CONSTANTS
    m1 = m1
    m2 = m2
    p1 = p1
    Messages = {m1, m2}
    Poisons = {{}, {m2}}
    Providers = {p1}
    Slots = 2
    MaxDeliver = 2
    MaxFaults = 1
    MaxLapses = 1
SPECIFICATION FairSpec
INVARIANTS NoSendAfterClose ClosedIsEmpty HeartbeatsHaveHolders
PROPERTIES ShutsDown EveryMessageEnds
CHECK_DEADLOCK FALSE

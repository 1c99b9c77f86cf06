\* Two callers, two artists, two requests, an interval of two and a window of one.
CONSTANTS
    c1 = c1
    c2 = c2
    a1 = a1
    a2 = a2
    q1 = q1
    q2 = q2
    Callers = {c1,c2}
    Artists = {a1,a2}
    Requests = {q1,q2}
    Window = 1
    Interval = 2
    MaxEvents = 4
    MaxFaults = 1
    MaxRebuilds = 1
SPECIFICATION Spec
SYMMETRY Symmetry
INVARIANTS SnapshotsAreSound
PROPERTIES TailsStayShort ImplementsStore
CHECK_DEADLOCK FALSE

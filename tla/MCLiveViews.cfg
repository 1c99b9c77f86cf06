\* One page, two batches of one member, three changes of rows and batches together.
CONSTANTS
    c1 = c1
    Clients = {c1}
    Batches = {1, 2}
    Members = 1
    Passes = {p1}
    p1 = p1
    MaxChanges = 3
SPECIFICATION LiveSpec
INVARIANTS ViewsAreReal
PROPERTIES ProgressNeverFalls 
CHECK_DEADLOCK FALSE

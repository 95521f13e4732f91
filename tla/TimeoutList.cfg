SPECIFICATION Spec
CONSTANTS
    Neighbour = {1, 2, 4}
    my_id = 3
    updates_periodic_interval = 2
    TICKS = 2
    Garbage = 0
    MaxTime = 17
    MaxWakes = 4
INVARIANTS
    HeadHasDeadline
    SendsInTime
    RemovesInTime
    OneNodeEach
    NotTooEarly
\* The clock stops at MaxTime.
CHECK_DEADLOCK FALSE

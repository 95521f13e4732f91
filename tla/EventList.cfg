SPECIFICATION EmulatorSpec
CONSTANTS
    nsimmax = 3
    ARRIVALS = {0, 3}
    DELAYS = {0, 2}
    INCREMENTS = {0, 4}
    EXACT = 64
    MaxPackets = 4
    Horizon = 12
INVARIANTS
    Chronological
    CannotReorder
PROPERTIES
    ImplementsMedium
\* The run ends when nsimmax messages were offered or Horizon is reached.
CHECK_DEADLOCK FALSE

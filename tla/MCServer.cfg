SPECIFICATION FairSpec
CONSTANTS
    Conns = {c1, c2, c3}
    MAX_CONNECTIONS = 1
INVARIANTS
    TypeOK
    CounterExact
    WithinLimit
    OneAfterSignal
PROPERTIES
    SignalEnds
CHECK_DEADLOCK FALSE

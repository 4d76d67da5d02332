SPECIFICATION Spec
CONSTANTS
    M = 4
    Nodes <- MCNodes
    Msgs = {m1}
    KeyOf <- MCKeyOf
    VirtualNodes <- MCVirtualNodes
    None = None
    REPLICATION_FACTOR = 3
    SUCCESSOR_LIST_SIZE = 3
    LookupsStray = FALSE
    Quotas <- MCOneCrash
INVARIANT ReplicasForEach
CHECK_DEADLOCK FALSE

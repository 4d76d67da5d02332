SPECIFICATION Spec
CONSTANTS
    M = 4
    Nodes <- MCNodes
    Msgs = {m1, m2}
    KeyOf <- MCKeyOf
    VirtualNodes <- MCVirtualNodes
    None = None
    REPLICATION_FACTOR = 3
    SUCCESSOR_LIST_SIZE = 3
    LookupsStray = TRUE
    Quotas <- MCQuotas
SYMMETRY MCSymmetry
INVARIANTS
    TypeOK
    AckedSurvives
    SurvivesOneFault
    EnoughReplicas
    MailboxFound
    PollComplete
CHECK_DEADLOCK FALSE

SPECIFICATION FairSpec
CONSTANTS
    Nodes = {n1, n2}
    Boot = n1
    Peers = {p1, p2}
    Texts = {1}
    Sends = {s1, s2}
    None = None
    MaxClock = 1
    Quotas <- MCQuotas
INVARIANTS
    TypeOK
    ShownOnce
    RightKey
    RecordedWasStored
    CopiesPerPress
    ReadOnce
PROPERTIES
    PollEnds
    ImplementsInbox

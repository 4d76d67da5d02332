SPECIFICATION FairSpec
CONSTANTS
    Tasks = {t1, t2}
    Hosts = {h1, h2}
    None = None
    MAX_CONNECTIONS_PER_HOST = 1
    MAX_RETRIES = 3
    MaxPending = 2
INVARIANTS
    TypeOK
    CountCovers
    LimitHolds
PROPERTIES
    CallsReturn

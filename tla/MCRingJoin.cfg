SPECIFICATION FairSpec
CONSTANTS
    M = 3
    Nodes <- MCNodes
    None = None
    SUCCESSOR_LIST_SIZE = 2
    MAX_RETRIES = 10
    MaxDrops = 0
    Boot = 0
    FixIdx <- MCFixIdx
    MaxCrashes = 0
INVARIANTS
    TypeOK
    JoinInv
    PredBehindSucc
    OneOrderedRing
PROPERTIES
    SuccessorOnlyCloser
    Converges

SPECIFICATION MCFormedSpec
CONSTANTS
    M = 3
    None = None
    SUCCESSOR_LIST_SIZE = 3
    MAX_RETRIES = 10
    Boot = 0
    FixIdx <- MCFixIdx
    Nodes <- MCNodes
    MaxDrops = 0
    MaxCrashes = 1
PROPERTIES
    SelfHeals

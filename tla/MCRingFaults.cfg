SPECIFICATION FairSpec
CONSTANTS
    M = 3
    Nodes <- MCTwoNodes
    None = None
    SUCCESSOR_LIST_SIZE = 3
    MAX_RETRIES = 10
    MaxDrops = 2
    Boot = 0
    FixIdx <- MCFixIdx
    MaxCrashes = 2
INVARIANTS
    OfflineIsAlone
    ListWithoutSelf
PROPERTIES
    NeverAloneAgain
    RoundsEnd

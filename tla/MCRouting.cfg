SPECIFICATION Spec
CONSTANTS
    M = 4
    Nodes <- MCNodes
    None = None
    SUCCESSOR_LIST_SIZE = 3
    MAX_RETRIES = 10
    MaxDrops = 1
    Callers <- MCCallers
    Targets <- MCTargets
    FixIdx <- MCFixIdx
INVARIANTS
    TypeOK
    LookupCorrect
    SuccessorFingerKept
PROPERTIES
    HopsAdvance

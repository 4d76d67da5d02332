SPECIFICATION FairSpec
CONSTANTS
    MaxOpen = 3
INVARIANTS
    TypeOK
    OneChart
PROPERTIES
    OpenShows
CHECK_DEADLOCK FALSE

SPECIFICATION Spec
CONSTANTS
    Tasks = {t1, t2}
    Hosts = {h1}
    None = None
    MAX_CONNECTIONS_PER_HOST = 2
    MAX_RETRIES = 3
    MaxPending = 2
SYMMETRY MCSymmetry
INVARIANTS
    AutoCleanup

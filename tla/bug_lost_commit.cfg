SPECIFICATION Spec
CONSTANTS
    Clients = {c, d}
    Nobody = Nobody
    MaxCalls = 3
INVARIANTS
    CommitIsHonest
CHECK_DEADLOCK FALSE

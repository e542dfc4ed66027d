SPECIFICATION Spec
CONSTANTS
    Clients = {c, d}
    Nobody = Nobody
    MaxCalls = 4
INVARIANTS
    ToldIsTrue
    FlagIsAutocommit
PROPERTIES
    LeftWorkEnds
CHECK_DEADLOCK FALSE

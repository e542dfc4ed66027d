SPECIFICATION Spec
CONSTANTS
    Calls = {a, b, c}
    Kinds = {"query", "queryResult", "tables", "keys", "typeInfo", "info", "cancel", "close"}
    Mishaps = {"refused", "lost", "badParam", "badCall", "noResults", "streams", "closeSync", "hasty"}
    MaxSets = 3
    Nobody = Nobody
SYMMETRY Symmetry
INVARIANTS
    TypeOK
    NoIdleBacklog
    OverlapIsFromNextSets
    ResultsClosed
CHECK_DEADLOCK FALSE

SPECIFICATION Spec
CONSTANTS
    Calls = {a, b, c, d}
    Kinds = {"query", "queryResult", "typeInfo", "info", "close"}
    Mishaps = {"refused", "lost", "closeSync"}
    MaxSets = 1
    Nobody = Nobody
INVARIANTS
    AnsweredLast
    ConnectedHasConn
PROPERTY
    Serial
CHECK_DEADLOCK FALSE

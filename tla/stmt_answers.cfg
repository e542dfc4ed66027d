SPECIFICATION Spec
CONSTANTS
    Calls = {a, b}
    Nobody = Nobody
    Shapes = {"plain", "chunked", "streaming"}
    Kinds = {"executeParams", "nonQueryParams", "execute", "nonQuery", "direct",
             "prepare", "primaryKeys", "foreignKeys", "procedures",
             "procedureColumns", "cancel", "drop", "closeCursor", "resetParams",
             "stream", "bind", "setAttr", "bindSync", "executeSync",
             "closeSync", "cancelSync", "catalogSync", "sync"}
    Core = {"executeParams", "execute", "bind"}
    MaxRare = 2
    BadParams = TRUE
    MaxChunks = 1
PROPERTIES
    EveryCallAnswered
CHECK_DEADLOCK FALSE

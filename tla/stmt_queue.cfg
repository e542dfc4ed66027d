SPECIFICATION Spec
CONSTANTS
    Calls = {a, b, c}
    Nobody = Nobody
    Shapes = {"plain", "chunked", "streaming"}
    Kinds = {"executeParams", "nonQueryParams", "execute", "nonQuery", "direct",
             "prepare", "primaryKeys", "foreignKeys", "procedures",
             "procedureColumns", "cancel", "drop", "closeCursor", "resetParams",
             "stream", "bind", "setAttr", "bindSync", "executeSync",
             "closeSync", "cancelSync", "catalogSync", "sync"}
    Core = {"executeParams", "execute", "bind"}
    MaxRare = 1
    BadParams = FALSE
    MaxChunks = 1
SYMMETRY Symmetry
INVARIANTS
    TypeOK
    QueueSerial
    BuffersOutliveReads
    ErrorsAreOwn
    EndlessOnlyWhenClosed
    DroppedIsFreed
    BindsAreExecuted
CHECK_DEADLOCK FALSE

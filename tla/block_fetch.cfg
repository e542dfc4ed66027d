SPECIFICATION Spec
CONSTANTS
    Calls = {a, b, c}
    Sizes = {1, 3}
    Styles <- OneStyle
    Counts = {1, 3}
    Ends <- TwoSets
    MaxErrors = 1
    Waits = TRUE
INVARIANTS
    TypeOK
    OnceInOrder
    NothingLost
    EndIsEnd
PROPERTY
    EveryCallAnswered
CHECK_DEADLOCK FALSE

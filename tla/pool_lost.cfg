SPECIFICATION Spec
CONSTANTS
    c1 = c1  c2 = c2  c3 = c3  c4 = c4
    d1 = d1  d2 = d2  d3 = d3  d4 = d4
    s1 = s1  s2 = s2
    Strs <- TwoStrs
    StrOf <- HalfEach
    Clients = {c1, c2, c3}
    Conns = {d1, d2, d3}
    MaxSize = 2
    NewSizes = {}
    InitCounts = {2}
    AutoClean = TRUE
    Uses = {"closeSync", "tx", "initAsync"}
    Faults = {"open", "lost"}
    Nested = 1
    Bound = 1
    Nobody = Nobody
SYMMETRY SymmetryTwo
INVARIANTS TypeOK ExclusiveUse ListedOnce IdleHasNoTransaction
CHECK_DEADLOCK FALSE

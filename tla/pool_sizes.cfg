SPECIFICATION Spec
CONSTANTS
    c1 = c1  c2 = c2  c3 = c3  c4 = c4
    d1 = d1  d2 = d2  d3 = d3  d4 = d4
    s1 = s1  s2 = s2
    Strs <- OneStr
    StrOf <- AllToOne
    Clients = {c1, c2, c3}
    Conns = {d1, d2, d3, d4}
    MaxSize = 2
    NewSizes = {1, 3}
    InitCounts = {1, 2, 3}
    AutoClean = TRUE
    Uses = {"openSync", "closeSync", "init", "initAsync"}
    Faults = {"open"}
    Nested = 1
    Bound = 2
    Nobody = Nobody
SYMMETRY SymmetryOne
INVARIANTS SizeIsExact
CHECK_DEADLOCK FALSE

SPECIFICATION LiveSpec
CONSTANTS
    c1 = c1  c2 = c2  c3 = c3  c4 = c4
    d1 = d1  d2 = d2  d3 = d3  d4 = d4
    s1 = s1  s2 = s2
    Strs <- OneStr
    StrOf <- AllToOne
    Clients = {c1, c2, c3, c4}
    Conns = {d1, d2, d3}
    MaxSize = 2
    NewSizes = {}
    InitCounts = {}
    AutoClean = FALSE
    Uses = {"closeSync", "tx"}
    Faults = {}
    Nested = 0
    Bound = 1
    Nobody = Nobody
INVARIANTS UsedIsHeld
PROPERTIES FairService EveryRequestServed

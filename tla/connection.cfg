SPECIFICATION Spec
CONSTANTS
    Conns = {c1}
    Objs = {o1, o2}
    Works = {w1, w2}
    Dbcs = {d1, d2}
    Stmts = {h1, h2}
    Null = Null
SYMMETRY Symmetry
INVARIANTS
    OwnHandles
    NoLeak
    WorkHasItsConnection
    ConnectedIsTrue
CHECK_DEADLOCK FALSE

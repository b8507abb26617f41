CONSTANTS
    Call = {c1, c2, c3, c4}
    Key = {k1}
    Id = {x, y, z}
    Limit = 2
    Span = 2
    MaxTime = 2
SPECIFICATION GateSpec
INVARIANTS SlotsRight
SYMMETRY Same
CHECK_DEADLOCK FALSE

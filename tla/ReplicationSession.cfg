SPECIFICATION Spec
CONSTANTS
    Ent = {e1, e2}
    Value = {v1, v2}
    StateHistory = 2
    Ordered = FALSE
    MaxTick = 4
    MaxWire = 3
    MaxChanges = 3
    MaxConns = 2
SYMMETRY Symmetry
INVARIANTS PeersExact OneMoment Recovers
PROPERTY NeverBack
CHECK_DEADLOCK FALSE

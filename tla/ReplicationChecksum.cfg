SPECIFICATION Spec
CONSTANTS
    Ent = {1}
    Value = {0, 1}
    StateHistory = 4
    Ordered = TRUE
    MaxTick = 7
    MaxWire = 2
    MaxChanges = 3
    MaxConns = 1
INVARIANTS NoChecksumFailure
CHECK_DEADLOCK FALSE

SPECIFICATION FairSpec
CONSTANTS
    Call = {1, 2}
    Event = {"event"}
    Fn = "function"
    Delayed = 0
    Thread <- MCThread
    Waits = {0, 1, 2}
    MaxHeld = 1
    MaxPerPoll = 1
    MaxFired = 2
    MaxConns = 2
    MaxChanges = 1
INVARIANTS NothingIsDropped WaitsAreExact HeardInOrder
PROPERTY CallersReturn
CHECK_DEADLOCK FALSE

SPECIFICATION FairSpec
CONSTANTS
    Chunk = {0, 2}
    MinRadius = 0
    LoadRadius = 1
    DropRadius = 2
    MaxInFlight = 1
    Places = {0, 1, 3}
    Foci <- OneFocus
    Malformed = {2}
    Reloads = 1
INVARIANTS BudgetExact WorldAgrees
PROPERTIES HeldOutlives AreaIsThere Settles
CHECK_DEADLOCK FALSE

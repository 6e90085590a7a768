SPECIFICATION Spec
CONSTANTS
    Chunk = {0, 2}
    MinRadius = 1
    LoadRadius = 1
    DropRadius = 2
    MaxInFlight = 1
    Places = {3}
    Foci <- OneFocus
    Blocks = {0}
    Scene = {"first", "second"}
    FirstScene = "first"
    OnDisk <- Files
    Version = {3}
    MayDigOut = FALSE
    MaxShaped = 2
    MaxSaves = 1
CHECK_DEADLOCK FALSE
INVARIANTS NoHoles

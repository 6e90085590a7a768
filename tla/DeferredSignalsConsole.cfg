SPECIFICATION FairSpec
CONSTANTS
    part = part
    event = event
    destroying = destroying
    custom = custom
    console = console
    Nobody = Nobody
    a = a
    b = b
    t = t
    u = u
    Conns = {a}
    Tasks = {}
    Signals = {console}
    Instances = {}
    Owner <- OwnerOf
    Hooks = {}
    Console = console
    MaxDeferredDepth = 2
    ConsoleRaises = TRUE
    LateConnect = FALSE
    MaxQueued = 1
PROPERTY DrainEnds

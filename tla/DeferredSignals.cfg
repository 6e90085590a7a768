SPECIFICATION FairSpec
CONSTANTS
    part = part
    event = event
    destroying = destroying
    custom = custom
    console = console
    Nobody = Nobody
    a = a
    b = b
    t = t
    u = u
    Conns = {a, b}
    Tasks = {t, u}
    Signals = {event, destroying, custom, console}
    Instances = {part}
    Owner <- OwnerOf
    Hooks = {destroying}
    Console = console
    MaxDeferredDepth = 1
    ConsoleRaises = FALSE
    LateConnect = FALSE
    MaxQueued = 1
INVARIANTS ListsExact
PROPERTIES DestroyedIsSilent OneOrder DrainEnds

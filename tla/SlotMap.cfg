SPECIFICATION SlotSpec
CONSTANTS
    Objects = {a, b, c, d}
    None = None
    MaxSlots = 2
    MaxCopies = 2
    MaxRestores = 3
    LastGeneration = 20
SYMMETRY Symmetry
INVARIANTS Unaliased FreeExact
PROPERTY ImplementsHandles

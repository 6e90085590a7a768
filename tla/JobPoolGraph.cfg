SPECIFICATION Spec
CONSTANTS
    Workers = {w1, w2}
    Slots = {s1, s2, s3, s4}
    Jobs = {v, x, y, z}
    Deps <- GraphDeps
    Body <- GraphBody
    Main = Main  None = None
    SizeLimit = 16  IndexLimit = 16  MaxRangesPerWave = 3
    w1 = w1  w2 = w2  s1 = s1  s2 = s2  s3 = s3  s4 = s4  v = v  x = x  y = y  z = z
SYMMETRY Symmetry
INVARIANT ShutdownRunsEverything
PROPERTY ImplementsJobGraph

SPECIFICATION WorldSpec
CONSTANTS
    MaxInstances = 6
    MaxEdited = 4
    Names = {"Part", "Tree"}
    Tags = {"hot"}
    CorpseUse = {}
CONSTRAINT Bounded
INVARIANTS TreeExact NamesInChildOrder HeardIsTrue
PROPERTY WholeSubtrees

SPECIFICATION WorldSpec
CONSTANTS
    MaxInstances = 3
    MaxEdited = 3
    Names = {"Part"}
    Tags = {"hot"}
    CorpseUse = {"adopt"}
INVARIANT ParentListsChild

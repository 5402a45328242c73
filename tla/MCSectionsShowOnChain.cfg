\* One document is enough.
CONSTANTS
    Docs <- SomeDocs
    InputsSets <- SomeSets
    MaxCommitted = 1
    LargestU32 = 2
    Line = {a}
    MaxLeaves = 1
SPECIFICATION CommitmentsSpec
CHECK_DEADLOCK FALSE
INVARIANT SectionsShowOnChain

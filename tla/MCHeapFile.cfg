SPECIFICATION Spec
CONSTANTS
    Pages <- MCPages
    Contents <- MCContents
    Size <- MCSize
    MaxFile = 7
    None = None
INVARIANTS
    TypeOK
    ReadsLastWrite
    OneOwner
    NoSpaceLost
    FreeListSaved

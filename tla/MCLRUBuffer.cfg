SPECIFICATION Spec
CONSTANTS
    blank = blank
    text = text
    Key <- MCMoreKeys
    Contents <- MCContents
    Blank = blank
    Capacity = 2
    MaxPins = 1
    NoKey = NoKey
INVARIANTS
    TypeOK
    CleanMatchesDisk
    WritableIsCached
PROPERTIES
    ImplementsPageStore
    FlushMakesDurable
    GetRestoresCapacity
CONSTRAINT TwoPins

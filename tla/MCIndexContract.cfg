SPECIFICATION Spec
CONSTANTS
    None = None
    MaxCopies <- MCCopies
    Order = 3
    PageCapacity = 2
    OverflowCapacity = 2
    BucketCapacity = 2
    Hash <- MCHash
    HashBits = 4
    StopWords = {0}
    BlockDocumentLimit = 2
    BlockPageSize = 3
    WindowWords = 2
    PostingPageSize = 2
    TextOf <- MCTexts
    VocabularyLimits = {0, 2}
    Oversample = 1
    VectorPageSize = 4
    VectorOf <- MCVectors
    Queries <- MCQueries
    MaxListed = 5
    MaxNumbered = 6
INVARIANTS
    TypeOK
    EqualityAnswers
    RangeAnswers
    TreeShape
    FencesBound
    DirectoryConsistent
    SpatialAnswers
    TextAnswers
    KnnAnswers
PROPERTIES
    VocabularyKept

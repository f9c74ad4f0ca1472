SPECIFICATION Spec
CONSTANTS
    None = None
    Inputs <- MCInputs
    WordsOf <- MCWords
    VectorOf <- MCVectors
    Asked <- MCAsked
    MaxRows = 3
    StopWords = {0}
    BlockDocumentLimit = 2
    BlockPageSize = 3
    WindowWords = 2
    PostingPageSize = 2
    VocabularyLimit = 0
    Oversample = 4
    VectorPageSize = 4
    K0 = 60
INVARIANTS
    TypeOK
    FusedOrder
    RowsShown

SPECIFICATION Spec
CONSTANTS
    docs = docs
    imgs = imgs
    name = name
    path = path
    Words = {docs, imgs, name, path}
    Tables <- OneTable
    Cols <- PlainCols
    Values = {v}
    Types = {bplus, knn}
    Unlabelled = {knn}
    Raising = {bplus}
    Failing = {knn}
    MaxRows = 1
    MaxLive = 2
    MaxRegistered = 2
    MaxOverlap = 1
    MaxFailures = 2
SYMMETRY MCSymmetry
INVARIANTS
    TypeOK
    RegisteredIsLive
PROPERTY RestartKeepsAnswers

SPECIFICATION Spec
CONSTANTS
    docs = docs
    imgs = imgs
    name = name
    path = path
    Words = {docs, imgs, name, path}
    Tables <- ClashTables
    Cols <- ClashCols
    Values = {v}
    Types = {bplus, knn}
    Unlabelled = {knn}
    Raising = {bplus}
    Failing = {knn}
    MaxRows = 1
    MaxLive = 2
    MaxRegistered = 2
    MaxOverlap = 0
    MaxFailures = 0
INVARIANTS
    RowsInOwnTable
    

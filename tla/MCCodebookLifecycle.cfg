SPECIFICATION Spec
CONSTANTS
    f = f
    g = g
    None = None
    Threads = {s, t}
    Files = {f, g}
    LooksOf <- MCLooks
    MaxK = 3
    KMeans <- MCKMeans
    MaxRestarts = 1
SYMMETRY MCSymmetry
INVARIANTS
    TypeOK
    OneCodebook
    SavedCodebook

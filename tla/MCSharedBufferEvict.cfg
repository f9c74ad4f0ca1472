SPECIFICATION Spec
CONSTANTS
    t1 = t1
    t2 = t2
    Threads <- MCThreads
    Key <- MCKey
    Work <- MCApart
    Contents = {text, other}
    Blank = blank
    Capacity = 2
    Cold <- MCCold
    MaxOps = 1
    None = None
PROPERTY FlushWritesDirtyPage

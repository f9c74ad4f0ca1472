SPECIFICATION Spec
CONSTANTS
    t1 = t1
    t2 = t2
    Threads <- MCThreads
    Key <- MCKey
    Work <- MCTogether
    Contents = {text, other}
    Blank = blank
    Capacity = 2
    Cold <- MCCold
    MaxOps = 2
    None = None
INVARIANT FlagsAreRight

SPECIFICATION Spec
CONSTANTS
    blank = blank
    text = text
    Key <- MCKey
    Contents <- MCContents
    Blank = blank
    Capacity = 1
    MaxPins = 1
    NoKey = NoKey
INVARIANT RamBounded

\* One query, four requests, two names shown, no fault from outside.
SPECIFICATION Spec
CHECK_DEADLOCK FALSE
SYMMETRY RequestSymmetry
CONSTANTS
    Requests = {r1, r2, r3, r4}
    one = one
    two = two
    One = One
    oneSpaced = oneSpaced
    Two = Two
    spaces = spaces
    Keys = {one}
    RawQueries <- OneRawQueries
    Normalise <- OneNormalise
    Blank = Blank
    Names = {n1}
    Undefined = Undefined
    Null = Null
    Shown = 2
    MaxFaults = 0
INVARIANTS
    LatestIsEnd

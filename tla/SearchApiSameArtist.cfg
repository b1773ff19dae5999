\* One query, one request, no fault from outside.
SPECIFICATION Spec
CHECK_DEADLOCK FALSE
CONSTANTS
    Requests = {r1}
    one = one
    two = two
    One = One
    oneSpaced = oneSpaced
    Two = Two
    spaces = spaces
    Keys = {one}
    RawQueries <- OneRawQueries
    Normalise <- OneNormalise
    Blank = Blank
    Names = {n1}
    Undefined = Undefined
    Null = Null
    Shown = 1
    MaxFaults = 0
INVARIANTS
    SameArtistAtBoth

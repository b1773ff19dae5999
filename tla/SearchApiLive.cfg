\* Two queries, two requests, one fault, with fairness.
SPECIFICATION FairSpec
CHECK_DEADLOCK FALSE
CONSTANTS
    Requests = {r1, r2}
    one = one
    two = two
    One = One
    oneSpaced = oneSpaced
    Two = Two
    spaces = spaces
    Keys = {one, two}
    RawQueries <- MCRawQueries
    Normalise <- MCNormalise
    Blank = Blank
    Names = {n1}
    Undefined = Undefined
    Null = Null
    Shown = 1
    MaxFaults = 1
PROPERTIES
    SearchEnds

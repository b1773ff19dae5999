\* Two queries, three requests, one fault.
SPECIFICATION Spec
CHECK_DEADLOCK FALSE
SYMMETRY RequestSymmetry
CONSTANTS
    Requests = {r1, r2, r3}
    one = one
    two = two
    One = One
    oneSpaced = oneSpaced
    Two = Two
    spaces = spaces
    Keys = {one, two}
    RawQueries <- MCRawQueries
    Normalise <- MCNormalise
    Blank = Blank
    Names = {n1}
    Undefined = Undefined
    Null = Null
    Shown = 1
    MaxFaults = 1
INVARIANTS
    TypeOK
    ExpiresInDict
    EntryWillExpire
    StoredWasSent
    ReadYourWrites
    PushedOncePerFetch

SPECIFICATION Spec
CONSTANTS
    d1 = d1
    d2 = d2
    a = a
    b = b
    c = c
    Dev = {d1, d2}
    Addr = {a, b, c}
    Empty = Empty
    None = None
    Listed = Listed
    MayGet <- OwnAddresses
    MaxKey = 1
    MaxEvents = 3
    Tags = {"remove"}
    Joins = TRUE
    Fails = {"list", "update", "join"}
INVARIANTS
    MapAgrees
    RoutedIsListed

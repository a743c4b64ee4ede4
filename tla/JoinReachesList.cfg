SPECIFICATION FairSpec
CONSTANTS
    d1 = d1
    d2 = d2
    a = a
    b = b
    c = c
    Dev = {d1, d2}
    Addr = {a, b, c}
    Empty = Empty
    None = None
    Listed = Listed
    MayGet <- OwnAddresses
    MaxKey = 2
    MaxEvents = 3
    Tags = {}
    Joins = TRUE
    Fails = {}
PROPERTIES
    JoinReachesList

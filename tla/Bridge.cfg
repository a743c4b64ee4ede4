SPECIFICATION FairSpec
CONSTANTS
    i1 = i1
    None = None
    Item = {i1}
    PoolLimit = 1
    Periodic = {}
    Troubles <- Combinations
INVARIANTS
    TypeOK
    StartsOnlyConnected
    HearsDownlinks
    NoHandlerAbandoned
PROPERTIES
    StopEnds
    Reconnects
    ItemsPass
CHECK_DEADLOCK FALSE

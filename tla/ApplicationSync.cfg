SPECIFICATION FairSpec
CONSTANTS
    App = {1, 2}
    Dev = {1, 2, 3}
    PageSize = 1
    None = None
    MaxEvents = 7
INVARIANTS
    TypeOK
    ListedIsRouted
    LeftoversExplained
PROPERTIES
    DropsHaveCause
    Converges
CHECK_DEADLOCK FALSE

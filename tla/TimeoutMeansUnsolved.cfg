SPECIFICATION FairSpec
CONSTANTS
    Tx = {t1, t2, t3}
    p = p
    q = q
    good = good
    bad = bad
    Corr = {p, q}
    Mic = {good, bad}
    None = None
    Genuine <- GoodIsGenuine
    Situation <- BothListed
    PoolSize = 1
    Faulty = FALSE
    Slow = FALSE
PROPERTIES
    TimeoutMeansUnsolved

SPECIFICATION Spec
CONSTANTS
    Tx = {t1, t2, t3}
    p = p
    q = q
    good = good
    bad = bad
    Corr = {p, q}
    Mic = {good, bad}
    None = None
    Genuine <- GoodIsGenuine
    Situation <- ChangingAndUnsupported
    PoolSize = 2
    Faulty = TRUE
    Slow = FALSE
SYMMETRY Messages
INVARIANTS
    ResultsKeepTheirTransaction
    TriesCountOutstanding
    MICFailedMeansNoneGenuine
    AtMostOneAck

SPECIFICATION Spec
CONSTANTS
    Tx = {t1, t2, t3}
    p = p
    q = q
    good = good
    bad = bad
    Corr = {p, q}
    Mic = {good, bad}
    None = None
    Genuine <- EachItsOwn
    Situation <- BothListed
    PoolSize = 1
    Faulty = TRUE
    Slow = TRUE
SYMMETRY Messages
INVARIANTS
    TypeOK
    PoolAccounting
    OneAnswerPerDuplicate
PROPERTIES
    ImplementsContract

\* One trade under fairness, with a crash and a cancellation.
SPECIFICATION FairSpec
CONSTANTS
    t1 = t1
    t2 = t2
    m1 = m1
    m2 = m2
    None = None
    Trades = {t1}
    Mons = {m1}
    Importable <- OnlyFirst
    MaxOffers = 1
    MaxCrashes = 1
    MaxCancels = 1
    MaxLate = 0
PROPERTY Delivered
CHECK_DEADLOCK FALSE

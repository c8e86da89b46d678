\* Two trades in one room: changed offers, a crash, a cancellation and a
\* repeated acknowledgement.
SPECIFICATION Spec
CONSTANTS
    t1 = t1
    t2 = t2
    m1 = m1
    m2 = m2
    None = None
    Trades = {t1, t2}
    Mons = {m1, m2}
    Importable <- OnlyFirst
    MaxOffers = 2
    MaxCrashes = 1
    MaxCancels = 1
    MaxLate = 1
INVARIANTS ResultFaithful RadioOnce OnlyImportable CancelledNeverTraded
CHECK_DEADLOCK FALSE

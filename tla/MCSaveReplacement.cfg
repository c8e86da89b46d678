SPECIFICATION FairSpec
CONSTANTS
    t1 = t1
    t2 = t2
    v1 = v1
    v2 = v2
    None = None
    Torn = Torn
    Trades = {t1, t2}
    Versions = {v1, v2}
    MaxLosses = 2
    MaxFaults = 1
    MaxPlays = 2
INVARIANTS
    NeverTorn
    MissingIsRecoverable
    PlacedOnce
PROPERTIES
    NoOverwrite
    RecordKept
    Places

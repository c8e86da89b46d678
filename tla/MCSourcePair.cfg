\* Two exchanges each through one room, with a crash, and a
\* cancellation or an acknowledgement handled once more.
SPECIFICATION MCSpec
CONSTANTS
    t1 = t1
    t2 = t2
    t3 = t3
    None = None
    Trades = {t1, t2}
    Compatible <- OneWay
    MaxCrashes = 1
    MaxCancels = 1
    MaxLate = 1
INVARIANTS
    BothValid
    PairedUntilLate
PROPERTIES
    ResetUntilLate
    Completes
CHECK_DEADLOCK FALSE

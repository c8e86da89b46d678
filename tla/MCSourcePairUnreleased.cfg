\* Expected to fail: what the message of a cancellation says.
SPECIFICATION Spec
CONSTANTS
    t1 = t1
    t2 = t2
    t3 = t3
    None = None
    Trades = {t1}
    Compatible <- AnyOffer
    MaxCrashes = 1
    MaxCancels = 1
    MaxLate = 0
INVARIANT CancelledUnreleased
CHECK_DEADLOCK FALSE

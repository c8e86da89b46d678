SPECIFICATION FairSpec
CONSTANTS
    t1 = t1
    t2 = t2
    s1 = s1
    m1 = m1
    m2 = m2
    None = None
    Trades = {t1, t2}
    Saves = {s1}
    Slots = {1, 2}
    Mons = {m1, m2}
    Eligible <- MCEligible
    Importable <- MCImportable
    MaxCrashes = 2
    MaxFaults = 1
INVARIANTS
    RadioAtMostOnce
    UndecidedRadioAlone
    ResultFaithful
    CancelledNeverTrades
    StoppedLeavesNoChild
    ReceiptSeen
PROPERTIES
    FollowsDiagram
    ImplementsExchange
    Settles

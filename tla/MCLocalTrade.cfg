SPECIFICATION Spec
CONSTANTS
    t1 = t1
    t2 = t2
    v1 = v1
    v2 = v2
    m1 = m1
    m2 = m2
    None = None
    Torn = Torn
    Trades = {t1, t2}
    Versions = {v1}
    Mons = {m1}
    Eligible <- MCChainEligible
    Importable <- MCChainImportable
    MaxCrashes = 1
    MaxFaults = 0
    MaxLosses = 0
    MaxCardFaults = 0
    MaxPlays = 0
    MaxGiveUps = 1
INVARIANTS
    AppliedIsPlaced
PROPERTIES
    ImplementsExchange

SPECIFICATION Spec
CONSTANTS
    t1 = t1
    t2 = t2
    v1 = v1
    v2 = v2
    m1 = m1
    m2 = m2
    None = None
    Torn = Torn
    Trades = {t1}
    Versions = {v1, v2}
    Mons = {m1, m2}
    Eligible <- MCFaultsEligible
    Importable <- MCFaultsImportable
    MaxCrashes = 1
    MaxFaults = 1
    MaxLosses = 1
    MaxCardFaults = 1
    MaxPlays = 1
    MaxGiveUps = 1
INVARIANTS
    BackedUpBeforeRadio
    NotForgotten
    RefusedNeverStarts

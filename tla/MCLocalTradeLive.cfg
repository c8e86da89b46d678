SPECIFICATION MCLiveSpec
CONSTANTS
    t1 = t1
    t2 = t2
    v1 = v1
    v2 = v2
    m1 = m1
    m2 = m2
    None = None
    Torn = Torn
    Trades = {t1}
    Versions = {v1}
    Mons = {m1}
    Eligible <- MCFaultsEligible
    Importable <- MCFaultsImportable
    MaxCrashes = 1
    MaxFaults = 0
    MaxLosses = 1
    MaxCardFaults = 0
    MaxPlays = 0
    MaxGiveUps = 1
PROPERTIES
    Completes

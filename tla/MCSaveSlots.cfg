\* Four saves from every counter, one of them may fail.
SPECIFICATION Spec
CONSTANTS
    u1 = u1
    u2 = u2
    f1 = f1
    unown = unown
    foreign = foreign
    None = None
    Mons = {u1, u2, f1}
    Species <- SpeciesOf
    Remembered = {unown}
    Foreign = {foreign}
    Barred = {u2}
    Plays <- SomePlays
    Wrap = 4
    StatCap = 1
    MaxSaves = 4
    MaxFaults = 1
INVARIANTS TakesLastWhole TradesOnly OldIsFallback
CHECK_DEADLOCK FALSE

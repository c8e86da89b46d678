\* One crash, and a player who changes the selection.
SPECIFICATION Spec
CONSTANTS
    a = a
    b = b
    a1 = a1
    a2 = a2
    b1 = b1
    None = None
    Bootstrap = Bootstrap
    Sides = {a, b}
    Own <- OneChoice
    Evolving = {a2}
    MaxOffers <- OneChange
    MaxCrashes = 1
INVARIANTS OnlyAgreed CompleteIsMutual OneVisitEach ChangedNeverGives NoneLeftWaiting
CHECK_DEADLOCK FALSE

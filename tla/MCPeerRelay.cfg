\* Three identities, with a late request, a relay restart, or a failed write and a crash.
SPECIFICATION Spec
CONSTANTS
    a = a
    b = b
    c = c
    None = None
    Bridges = {a, b, c}
    Role <- MCRole
    MaxChanges = 1
    MaxSequence = 3
    MaxGiveUps = 1
    MaxCrashes = 1
    MaxFailures = 1
    MaxExpiries = 1
CONSTRAINT Bounded
INVARIANT HeldIsKept
PROPERTY ImplementsLink
CHECK_DEADLOCK FALSE

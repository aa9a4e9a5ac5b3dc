SPECIFICATION Spec
CONSTANTS
    Aliases = {a1, a2}
    Bots = {b1}
    Keys = {k1, k2}
    Generated = Generated
    Plain = Plain
    Nil = Nil
    MaxMade = 1
    MaxRuns = 2
    MaxFaults = 1
SYMMETRY MCSymmetry
INVARIANTS
    SealedAtRest
    NoLoginNeeded
PROPERTIES
    WrongKeyNeverWrites
    AuthKeyIsKept
CHECK_DEADLOCK FALSE

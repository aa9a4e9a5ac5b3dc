CONSTANTS
    Aliases = {a1}
    Tokens = {t1, t2}
    NoToken = NoToken
    Admins = {o1, o2}
    MaxSessions = 2
    MaxPollers = 2
    MaxFaults = 1
    MaxRestarts = 1
    MaxOverlaps = 1
SYMMETRY Symmetry
SPECIFICATION Spec
INVARIANTS StoppablePollers TableMatchesMap PauseQuiets

CONSTANTS
    Requests = {c1, c2}
    MaxSize = 1
    TTL = 1
    Policies = {"drop_oldest", "reject_new"}
    Limit = 1
    MaxId = 2
    MaxBatch = 2
    MaxPushes = 2
    MaxTime = 2
    MaxFaults = 0
    MaxRestarts = 1
SYMMETRY Symmetry
SPECIFICATION Spec
INVARIANTS TypeOK SeenMatchesQueue CursorNotAhead Retained

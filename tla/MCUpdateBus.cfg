CONSTANTS
    Requests = {c1, c2}
    MaxSize = 1
    TTL = 0
    Policies = {"drop_oldest", "reject_new"}
    Limit = 1
    MaxId = 2
    MaxBatch = 2
    MaxPushes = 3
    MaxTime = 0
    MaxFaults = 1
    MaxRestarts = 2
SYMMETRY Symmetry
SPECIFICATION BusSpec
INVARIANTS NoSilentLoss SettledFloorsDelivery

CONSTANTS
    Pushers = {p1, p2}
    Replicas = {r1}
    Sockets = {c1}
    MaxUpdates = 2
    Cap = 1
    ReplayLimit = 1
    Limit = 1
    MaxEvents = 2
    Nil = Nil
SPECIFICATION FlowFairSpec
CHECK_DEADLOCK FALSE
INVARIANT DisconnectIsHarmless

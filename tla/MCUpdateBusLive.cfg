CONSTANTS
    Requests = {c1}
    MaxSize = 2
    TTL = 1
    Policies = {"drop_oldest"}
    Limit = 1
    MaxId = 2
    MaxBatch = 2
    MaxPushes = 9
    MaxTime = 1
    MaxFaults = 1
    MaxRestarts = 1
SPECIFICATION BusFairSpec
PROPERTIES EventuallyReceived ImplementsStream

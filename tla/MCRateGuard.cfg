CONSTANTS
    c1 = c1
    q1 = q1
    q2 = q2
    Planes = {"bot", "mt"}
    Policies = {"queue"}
    Reqs = {q1, q2}
    Chats = {c1}
    Calls <- MCCalls
    One = 1
    Capacity <- MCCapacity
    Rate <- MCRate
    Waits <- MCWaits
    Nap = 1
    QueueWaitTimeout = 1
    PeerFloodCooldown = 1
    FloodBackoffNum = 3
    FloodBackoffDen = 2
    MaxAdaptive = 2
    SlowmodeRespect = FALSE
    MaxOffences = 2
    Nil = Nil
SPECIFICATION Spec
INVARIANTS LaneHeld WaitTimeExact Paced PausesPersist
PROPERTY HonoursRetryAfter
SYMMETRY RequestSymmetry

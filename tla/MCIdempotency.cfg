SPECIFICATION KeyFairSpec
CONSTANTS
    Requests = {r1, r2}
    Paths = {"json", "form", "action", "mt"}
    Stale = 1
    TTL = 2
    MaxFailures = 2
    MaxRestarts = 1
INVARIANTS
    ClaimExclusive
    AtMostOnce
PROPERTY
    EventuallySent

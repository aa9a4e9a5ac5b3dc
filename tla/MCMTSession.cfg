SPECIFICATION FairSpec
CONSTANTS
    Sessions = {s1, s2}
    Ops = {o1, o2}
    Tokens = {t1, t2}
    None = None
    Other = Other
    MaxCalls = 2
    MaxFaults = 1
    MaxRestarts = 1
INVARIANTS OneConnection QuarantineFinal UnregisterReleases
PROPERTY EventuallyConnected
\* A process that was shut down stands still.
CHECK_DEADLOCK FALSE

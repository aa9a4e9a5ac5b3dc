\* Three faults are enough to cut a quarantine short in the boot after the one
\* that was cut short, and to fill the boot window with crashes.
CONSTANTS
    Keep = 2
    MaxBoots = 1
    History = 2
    MaxCommits = 1
    MaxFaults = 3
    MaxWindow = 2
    Nil = Nil
SPECIFICATION Spec
INVARIANTS LossIsHandled OldRowsMigrate CrashLoopStops
PROPERTIES RotationKeepsNewest ProcessLives DamageIsReported

CONSTANTS
    Aliases = {a1}
    Private = {p1}
    Groups = {g1}
    Callbacks = {k1}
    MaxLoops = 2
    MaxBatch = 1
    MaxBatches = 2
    MaxChanges = 1
    Boot <- MCBoot
    GlobalPatches <- MCGlobalPatches
    BotPatches <- MCBotPatches
    Nil = Nil
SPECIFICATION TypingSpec
INVARIANTS OwnedUnlessSwept OneLateRequest
PROPERTIES CancelledTimeoutStays TypingEnds

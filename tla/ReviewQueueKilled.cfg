\* Can one kill drop an escalated release?
SPECIFICATION Spec
CONSTANTS
    Releases = {1}
    Need <- MCNeedOne
    Coded = {1}
    Drains = {"tick"}
    Caps <- TickCap1
    MaxAttempts = 2
    MaxPerTick = 1
    PageSize = 1
    ManualReasons = {}
    Labels = {}
    PrunedByHand = FALSE
    AttemptsBound = 2
    MaxFaults = 0
    MaxCrashes = 1
INVARIANT NothingDropped

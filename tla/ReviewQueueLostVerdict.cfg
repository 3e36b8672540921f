\* Does a model verdict survive an overlapping drain?
SPECIFICATION Spec
CONSTANTS
    Releases = {1}
    Need <- MCNeedOne
    Coded = {1}
    Drains = {"tick", "manual"}
    Caps <- BothCap1
    MaxAttempts = 2
    MaxPerTick = 1
    PageSize = 1
    ManualReasons = {"too_large", "review_failed"}
    Labels = {}
    PrunedByHand = FALSE
    AttemptsBound = 2
    MaxFaults = 0
    MaxCrashes = 0
PROPERTY VerdictFinal

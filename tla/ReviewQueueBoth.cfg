\* watch and review-pending on one database, a person adjudicating, one kill.
SPECIFICATION Spec
CONSTANTS
    Releases = {1}
    Need <- MCNeedOne
    Coded = {1}
    Drains = {"tick", "manual"}
    Caps <- BothCap1
    MaxAttempts = 1
    MaxPerTick = 1
    PageSize = 1
    ManualReasons = {"review_failed"}
    Labels = {"benign", "malicious"}
    PrunedByHand = TRUE
    AttemptsBound = 2
    MaxFaults = 1
    MaxCrashes = 1
INVARIANT OneAtTheModel
PROPERTY AdjudicationKept

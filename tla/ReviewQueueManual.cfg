\* watch with a small-context model, review-pending --reason too_large with a large one, a person.
SPECIFICATION Spec
CONSTANTS
    Releases = {1, 2}
    Need <- MCNeedTwo
    Coded = {1}
    Drains = {"tick", "manual"}
    Caps <- SmallTickLargeManual
    MaxAttempts = 2
    MaxPerTick = 2
    PageSize = 1
    ManualReasons = {"too_large"}
    Labels = {"malicious"}
    PrunedByHand = FALSE
    AttemptsBound = 3
    MaxFaults = 1
    MaxCrashes = 0
INVARIANTS QueuedHasInput NothingDropped AlertsMatchVerdicts
PROPERTY VerdictFinal

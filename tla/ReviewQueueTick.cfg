\* The tick alone, two releases, outages and refusals, killed at most once: every
\* commit boundary is a crash point.
SPECIFICATION FairSpec
CONSTANTS
    Releases = {1, 2}
    Need <- MCNeedTwo
    Coded = {1}
    Drains = {"tick"}
    Caps <- TickCaps
    MaxAttempts = 2
    MaxPerTick = 1
    PageSize = 1
    ManualReasons = {}
    Labels = {}
    PrunedByHand = FALSE
    AttemptsBound = 3
    MaxFaults = 2
    MaxCrashes = 1
INVARIANTS TypeOK EvidenceForPerson
INVARIANT UnreviewedWarned
PROPERTIES ImplementsOutcome QueueDrains

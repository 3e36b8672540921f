\* Does the pause hold when review-pending runs beside the tick?
SPECIFICATION Spec
CONSTANTS
    Drains = {"tick", "manual"}
    MaxFaults = 1
    MaxCrashes = 0
INVARIANT PausedMeansPaused

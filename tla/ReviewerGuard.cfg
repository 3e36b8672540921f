\* The tick and review-pending; four timeouts, slow reviews or failed requests.
SPECIFICATION FairSpec
CONSTANTS
    Drains = {"tick", "manual"}
    MaxFaults = 4
    MaxCrashes = 1
INVARIANTS TypeOK PausedUnlessOverlapped SlowTwice
PROPERTY Resumes

\* Two releases, scanned, retried, waiting; one kill or one fault at any point.
SPECIFICATION FairSpec
CONSTANTS
    Releases = {1, 2}
    Switched = {1}
    Removable = {2}
    Attempts = 2
    SweepLimit = 1
    MaxUpsets = 1
INVARIANTS TypeOK IngestedRevisited UnscannedReported
PROPERTIES GraceFirst Decided LateSdistNoticed

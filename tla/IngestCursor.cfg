\* Two projects, crawled from genesis or started with --recent; one kill, one lagging
\* or failed read of the index, or one deletion at any point.
SPECIFICATION FairSpec
CONSTANTS
    p = p
    q = q
    Projects <- MCProjects
    Versions = {1, 2, 3}
    ProjectOf <- MCProjectOf
    Starts = {"recent", "backfill"}
    Recent = 1
    RecentFloor = 2
    Margin = 1
    Lag = 1
    HoldLimit = 1
    MaxProjects = 1
    MaxReleases = 1
    MaxLog = 3
    MaxUpsets = 1
INVARIANTS TypeOK NonePassed
PROPERTY CaughtUp

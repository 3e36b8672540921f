\* Can a kill leave a release where no poll and no sweep finds it?
SPECIFICATION Spec
CONSTANTS
    Releases = {1}
    Switched = {1}
    Removable = {1}
    Attempts = 3
    SweepLimit = 1
    MaxUpsets = 1
INVARIANT NeverForgotten

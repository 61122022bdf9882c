\* The end of playback, with scans, new episodes and restarts in between.
SPECIFICATION Spec
CONSTANTS
    a = a
    b = b
    x = x
    j1 = j1
    j2 = j2
    none = none
    Sets = {a, b}
    Keys = {x}
    Jobs = {j1, j2}
    PolicyOf <- Policies
    Ttl <- OneTick
    Airs <- UpToTwo
    MaxClock = 2
    MaxScans = 2
    NoEpisode = none
    NoSet = none
PROPERTIES ReconcilesAreRight LastEndedIsReconciled
\* Scans and time are bounded: the system stops.
CHECK_DEADLOCK FALSE

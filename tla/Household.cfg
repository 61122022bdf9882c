\* The registry of players and the profile gate, one at a time.
SPECIFICATION Spec
CONSTANTS
    d1 = d1
    r1 = r1
    r2 = r2
    sh = sh
    scan1 = scan1
    scan2 = scan2
    owner = owner
    bob = bob
    kids = kids
    none = none
    Devices = {d1}
    Shield = sh
    Rounds = {r1, r2}
    MaxTime = 2
    MaxComings = 2
    MaxFaults = 1
    Drives = {scan1, scan2}
    Slots <- TwoSlots
    Names = {owner, bob, kids}
    SlotOf <- Aliases
    TileName <- Tiles
    LogName <- Logged
    Required = {owner, kids}
    Locked = {2}
    RestartEnabled = TRUE
    MaxPresses = 2
    MaxTries = 1
    MaxMenus = 1
    MaxTouches = 1
    NoName = none
PROPERTIES ListingFollowsPlex RetainedIsAsSeen GateMeansProfile GatesSettle
\* Players, faults and drives are bounded: the system stops.
CHECK_DEADLOCK FALSE

SPECIFICATION BothModes
CONSTANTS
    s1 = s1
    s2 = s2
    a1 = a1
    t1 = t1
    t2 = t2
    shorts = shorts
    films = films
    alice = alice
    bob = bob
    Starts = {s1, s2}
    Advances = {a1}
    Ticks = {}
    Sets = {shorts, films}
    SetCfg <- GatedSets
    ChannelOf <- ToShorts
    Profiles = {alice, bob}
    Owner = alice
    Payloads <- ByCard
    Pool <- One
    TopupAt = 0
    PlayAttempts = 3
    Fsm = FALSE
    AdbEnabled = TRUE
    PlexDrops = FALSE
    Overlap = {"start", "advance"}
    RotationLength = 2
    RotationLengthMax = 4
    Infinite = Infinite
    Unset = Unset
    AutoSet = AutoSet
    NoSet = NoSet
    NoProfile = NoProfile
    NoStart = NoStart
SYMMETRY HandlerSymmetry
INVARIANTS
    SupersededPlaysAtMostOnce
    LineupOfOneStart
PROPERTY LatestWinsProtocol
CHECK_DEADLOCK FALSE

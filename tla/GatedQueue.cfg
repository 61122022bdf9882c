SPECIFICATION OneMode
CONSTANTS
    s1 = s1
    s2 = s2
    a1 = a1
    t1 = t1
    t2 = t2
    shorts = shorts
    films = films
    alice = alice
    bob = bob
    Starts = {s1}
    Advances = {}
    Ticks = {}
    Sets = {films}
    SetCfg <- KidsQueue
    ChannelOf <- NoChannels
    Profiles = {alice, bob}
    Owner = alice
    Payloads <- ByName
    Pool <- One
    TopupAt = 0
    PlayAttempts = 1
    Fsm = TRUE
    AdbEnabled = TRUE
    PlexDrops = FALSE
    Overlap = {}
    RotationLength = 2
    RotationLengthMax = 4
    Infinite = Infinite
    Unset = Unset
    AutoSet = AutoSet
    NoSet = NoSet
    NoProfile = NoProfile
    NoStart = NoStart
SYMMETRY HandlerSymmetry
INVARIANT GatedQueueIsItsProfiles
CHECK_DEADLOCK FALSE

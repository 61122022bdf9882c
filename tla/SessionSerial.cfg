SPECIFICATION OneMode
CONSTANTS
    s1 = s1
    s2 = s2
    a1 = a1
    t1 = t1
    t2 = t2
    shorts = shorts
    films = films
    alice = alice
    bob = bob
    Starts = {s1, s2}
    Advances = {}
    Ticks = {t1, t2}
    Sets = {shorts, films}
    SetCfg <- OpenSets
    ChannelOf <- ToShorts
    Profiles = {alice, bob}
    Owner = alice
    Payloads <- ByEither
    Pool <- Mixed
    TopupAt = 0
    PlayAttempts = 1
    Fsm = FALSE
    AdbEnabled = FALSE
    PlexDrops = FALSE
    Overlap = {}
    RotationLength = 2
    RotationLengthMax = 4
    Infinite = Infinite
    Unset = Unset
    AutoSet = AutoSet
    NoSet = NoSet
    NoProfile = NoProfile
    NoStart = NoStart
SYMMETRY HandlerSymmetry
INVARIANTS
    NoRepeats
    TotalCountsTheQueue
    WithinTarget
    TopupsAreTheScansAccount
CHECK_DEADLOCK FALSE

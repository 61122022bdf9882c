SPECIFICATION OneModeFairly
CONSTANTS
    s1 = s1
    s2 = s2
    a1 = a1
    t1 = t1
    t2 = t2
    shorts = shorts
    films = films
    alice = alice
    bob = bob
    Starts = {s1, s2}
    Advances = {}
    Ticks = {t1}
    Sets = {shorts}
    SetCfg <- FiniteSet
    ChannelOf <- ToShorts
    Profiles = {alice}
    Owner = alice
    Payloads <- ByName
    Pool <- Two
    TopupAt = 0
    PlayAttempts = 2
    Fsm = TRUE
    AdbEnabled = FALSE
    PlexDrops = FALSE
    Overlap = {"start"}
    RotationLength = 1
    RotationLengthMax = 4
    Infinite = Infinite
    Unset = Unset
    AutoSet = AutoSet
    NoSet = NoSet
    NoProfile = NoProfile
    NoStart = NoStart
PROPERTIES
    StartsSettle
    TicksSettle
CHECK_DEADLOCK FALSE

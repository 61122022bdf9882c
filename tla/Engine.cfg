SPECIFICATION EngineSpec
CONSTANTS
    alpha = alpha
    beta = beta
    gamma = gamma
    delta = delta
    tick = tick
    tock = tock
    pair = pair
    young = young
    old = old
    NoStart = NoStart
    SeriesDefault = 1
    SeriesLength = 3
    StopsAt = "none"
    MaxWeight = 3
    LineupSize = 6
    RotationLength = 3
    RotationLengthMax = 6
    Infinite = Infinite
    Unset = Unset
    ReelLimit = 3
    Losable = {tick}
    Episodes <- Listings
    Children <- Pair
    Film <- Reels
    Channels <- SomeChannels
    Shorts <- TwoReels
    Recipes <- SomeQueues
    Registries <- LegacyTiers
    SetForProfile <- TierOf
    TierIds <- TierOrder
    Nobody = Nobody
    Labels = {"movies"}
    Picks = {0, 1, 3, 9}
    MaxSets = 4
    MaxChanges = 2
    Texts = {t, u}
    Absent = Absent
    MaxUndo = 2
    MaxEdits = 3
    MaxSteps = 2
    MaxMarks = 1
    MaxBoots = 1
INVARIANTS
    DealKeepsTheRules
    TilesForetellScans
PROPERTIES
    QueuePlaysAsRuled
    RegistryKeepsItsWord
    UndoIsLinear
CHECK_DEADLOCK FALSE

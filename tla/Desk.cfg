SPECIFICATION DeskSpec
CONSTANTS
    bob = bob
    kid = kid
    Begins <- SagaTitles
    AnyRating = AnyRating
    Unchosen = Unchosen
    Worlds <- SomeWorlds
    MaxClicks = 3
    Readers = {r1, r2}
    Episodes = {1}
    Owner = Owner
    AccountOf <- OneKid
    Titles = {"Older Kids", "guest"}
    Nobody = Nobody
    Unset = Unset
    MaxWatches = 2
    MaxReads = 2
    MaxLeafFaults = 1
    Registry <- TwoSets
    PlaysAs <- Players
    StoredGroups <- OneGroup
    Label = "kids"
    NoGroup = NoGroup
    MaxGroupEdits = 4
    MaxFilings = 1
    EpisodesOf <- SomeEpisodes
    Members <- OneCollection
    Holding <- TwoEntries
    Histories <- SomeHistories
    Stored <- SomeStarts
    NoSeries = NoSeries
    MaxPicks = 4
    Counts = {1, 2}
    Presets = {1}
    NoOverride = NoOverride
    MaxCountEdits = 2
    MaxPatchFaults = 1
    Registered <- FileOrder
    Queued <- FileLists
    Flagged <- DoneKeys
    TitleOrder <- ByName
    Filters <- GroupFilters
    Lenses <- GridLenses
    MaxGestures = 2
    MaxOthers = 1
    Entries <- TwoSeries
    InVolumes <- Vols
    Loose <- Loosely
    Reading <- InOrder
    Chapters <- PerVisit
    Volumes <- OneVolume
    Floors <- FromFive
    Window = 3
    TopupAt = 1
    IsRandom = FALSE
    SetId = "id"
    Labels <- SomeNames
    MaxJobs = 2
    MaxFaults = 1
    Games <- TwoGames
    Owes <- Owed
    PerOpen = 1
    Kinds = {"picker", "steam", "mister"}
    Tabs = {"a", "b"}
    MaxTime = 3
    MaxOpens = 2
    MaxLost = 1
    None = None
    StartFiles <- SomeFiles
    PlexSets = {"films"}
    Lookup <- LibraryKeys
    Caption <- LibraryCaptions
    Settings = {"r1", "r2"}
    MaxTools = 2
    MaxAppEdits = 1
    MaxCrashes = 1
INVARIANTS
    PendingIsHonest
    MarksAreTheReaders
    FormKeepsTheFile
    UntouchedSaveKeepsThePlace
    CountIsAsAsked
    DropsMoveOne
    ListNeverSkips
    PassedOverWasPlayed
    MigrationIsFaithful
CHECK_DEADLOCK FALSE

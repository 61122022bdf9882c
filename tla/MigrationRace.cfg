SPECIFICATION MigrationSpec
CONSTANTS
    None = None
    StartFiles <- SomeFiles
    PlexSets = {"films"}
    Lookup <- LibraryKeys
    Caption <- LibraryCaptions
    Settings = {"r1", "r2"}
    MaxTools = 2
    MaxAppEdits = 1
    MaxCrashes = 1
INVARIANTS
    EditsSurvive
CHECK_DEADLOCK FALSE

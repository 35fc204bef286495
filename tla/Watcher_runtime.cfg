\* The observer adds a key while the periodic flush iterates the dict.
CONSTANTS
    Paths <- MCPaths
    DocsPaths <- MCDocsPaths
    IgnoredPaths <- MCIgnoredPaths
    ChangeTypes <- MCChangeTypes
    IndexPath = "docs/INDEX.md"
    CheckpointPath = "tools/work-logger/data/current_session.json"
    StorageWatched = FALSE
    Deltas = {0}
    Ids = {1, 2, 3}
    NoSession = NoSession
    NoFile = NoFile
    Torn = Torn
    NoEvent = NoEvent
    MaxEdits = 3
    MaxSignals = 1
    MaxCrashes = 1
    MaxLaunches = 2
SPECIFICATION Spec
PROPERTY ExitsOnlyOnRequest
CHECK_DEADLOCK FALSE

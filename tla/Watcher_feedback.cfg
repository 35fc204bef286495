\* The watcher started on the repository that contains tools/work-logger/data (install.py).
CONSTANTS
    Paths <- MCPaths
    DocsPaths <- MCDocsPaths
    IgnoredPaths <- MCIgnoredPaths
    ChangeTypes <- MCChangeTypes
    IndexPath = "docs/INDEX.md"
    CheckpointPath = "tools/work-logger/data/current_session.json"
    StorageWatched = TRUE
    Deltas = {0}
    Ids = {1, 2, 3}
    NoSession = NoSession
    NoFile = NoFile
    Torn = Torn
    NoEvent = NoEvent
    MaxEdits = 1
    MaxSignals = 0
    MaxCrashes = 0
    MaxLaunches = 1
SPECIFICATION Spec
PROPERTY EventuallyQuiet
CHECK_DEADLOCK FALSE

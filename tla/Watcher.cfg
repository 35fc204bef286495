\* Observer and flush threads, two Ctrl+C (nested), one kill, two process starts.
CONSTANTS
    Paths <- MCPaths
    DocsPaths <- MCDocsPaths
    IgnoredPaths <- MCIgnoredPaths
    ChangeTypes <- MCChangeTypes
    IndexPath = "docs/INDEX.md"
    CheckpointPath = "tools/work-logger/data/current_session.json"
    StorageWatched = FALSE
    Deltas = {0}
    Ids = {1, 2, 3}
    NoSession = NoSession
    NoFile = NoFile
    Torn = Torn
    NoEvent = NoEvent
    MaxEdits = 2
    MaxSignals = 2
    MaxCrashes = 1
    MaxLaunches = 2
SPECIFICATION Spec
INVARIANT TypeOK
PROPERTY DrainBeforeFinalize
PROPERTY EventuallyQuiet
CHECK_DEADLOCK FALSE

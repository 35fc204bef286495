\* A crash inside end_session followed by a restart.
CONSTANTS
    Paths <- MCPaths
    ChangeTypes <- MCChangeTypes
    Ids <- MCIds
    Deltas = {0, 1}
    NoSession = NoSession
    NoFile = NoFile
    Torn = Torn
    TornWrites = FALSE
    MaxLaunches = 3
    MaxCrashes = 1
    MaxAdds = 2
    SaveFails = FALSE
    MaxFaults = 0
SPECIFICATION Spec
CHECK_DEADLOCK FALSE
INVARIANT SessionNeverLost

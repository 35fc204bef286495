\* Crash and restart between statements and inside file writes, and manager writes that raise.
CONSTANTS
    Paths <- MCPaths
    ChangeTypes <- MCChangeTypes
    Ids <- MCIds
    Deltas = {0, 1}
    NoSession = NoSession
    NoFile = NoFile
    Torn = Torn
    TornWrites = TRUE
    MaxLaunches = 3
    MaxCrashes = 2
    MaxAdds = 2
    SaveFails = TRUE
    MaxFaults = 2
SPECIFICATION Spec
INVARIANT TypeOK
INVARIANT ArchivedSessionFrozen
CHECK_DEADLOCK FALSE

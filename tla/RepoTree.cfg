\* A checkout or a repository without commits; three edits or git commands.
CONSTANTS
    Paths <- MCPaths
    Contents <- MCContents
    Tree0 <- MCTree0
    HeadCases = {TRUE, FALSE}
    SegRank <- MCSegRank
    IndexPath <- MCIndexPath
    MaxSteps = 3
    Absent = Absent
    NoEst = NoEst
SPECIFICATION Spec
INVARIANT TypeOK
INVARIANT CountsNeverInflated
PROPERTY IndexListsTree

\* A checkout and one edit of plain one-line files: get_file_info against
\* spec section 4.2.
CONSTANTS
    Paths <- MCPaths
    Contents <- MCPlainContents
    Tree0 <- MCTree0
    HeadCases = {TRUE}
    SegRank <- MCSegRank
    IndexPath <- MCIndexPath
    MaxSteps = 1
    Absent = Absent
    NoEst = NoEst
SPECIFICATION Spec
INVARIANT EstimateMatchesSpec

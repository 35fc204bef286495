\* Two concurrent writers, a collision on session id 1, callers passing
\* the mapping write_session expects or the label infer_module returns;
\* one `changelog.py add` and one init-changelog.py run over a database
\* that may not exist yet, with or without schema.sql.
CONSTANTS
    Writers = {w1, w2}
    Snapshots <- MCSnapshots
    Inferences = {"map", "label"}
    MaxCalls = 3
    NoRow = NoRow
    NoWriter = NoWriter
    Clis = {c1}
    Inits = {i1}
    Entries = {e1}
    SchemaCases = {TRUE, FALSE}
    MaxRuns = 2
    Readers = {q1}
SPECIFICATION Spec
SYMMETRY WriterSymmetry
INVARIANT TypeOK
PROPERTY StoreRefinement
PROPERTY SuccessMeansRecorded
PROPERTY StatsBreakdownNotBehind
CHECK_DEADLOCK FALSE

\* init-changelog.py and `changelog.py add` over a missing database, with
\* or without schema.sql, and no write_session caller.
CONSTANTS
    Writers = {}
    Snapshots <- MCSnapshots
    Inferences = {"map"}
    MaxCalls = 0
    NoRow = NoRow
    NoWriter = NoWriter
    Clis = {c1}
    Inits = {i1}
    Entries = {e1}
    SchemaCases = {TRUE, FALSE}
    MaxRuns = 2
    Readers = {}
SPECIFICATION Spec
INVARIANT NoPartialStore
CHECK_DEADLOCK FALSE

---------------------------- MODULE SessionStore ----------------------------
(***************************************************************************)
(* lib/db_writer.py: WorkSessionWriter.write_session and the work_sessions *)
(* table of mylog/changelog.db.                                            *)
(*                                                                         *)
(* Each call of write_session is a writer: it builds the file details and  *)
(* the statistics from the session's file_changes, opens a connection,     *)
(* INSERTs the row, commits, and in `finally` closes the connection.  Any  *)
(* exception in the try body is turned into `return False`; the finally   *)
(* clause then reads `conn`, which is unbound when the exception happened  *)
(* before get_connection returned, and raises UnboundLocalError instead.   *)
(* Several calls may run at once (two runs of db_writer.py's own main, or *)
(* a manual retry while one runs; the watcher raises before it reaches its *)
(* call); SQLite lets one of them hold the write lock at a time and keeps  *)
(* session_id unique.                                                      *)
(*                                                                         *)
(* The same database file is created and written by two more programs:     *)
(* `changelog.py add` (ChangelogDB: auto-initialise when the file is       *)
(* missing, then add_entry) and mylog/init-changelog.py (init_database).   *)
(* Both run the schema script statement by statement, and every program    *)
(* tests only whether the file exists.  A CLI process can be killed        *)
(* between any two statements; its connection and lock die with it.       *)
(***************************************************************************)
EXTENDS Naturals, FiniteSets, SequencesExt, TLC

CONSTANTS
    Writers,      \* concurrent calls of write_session
    Snapshots,    \* completed sessions: [id, changes: path -> [type, added, removed]]
    Inferences,   \* the kinds of module_inference a caller passes: "map", "label"
    MaxCalls,     \* bound on calls
    NoRow, NoWriter,
    Clis,         \* runs of `changelog.py add`
    Inits,        \* runs of init-changelog.py (without --reset)
    Entries,      \* changelog entries a user adds (their natural key)
    SchemaCases,  \* whether mylog/schema.sql exists: a subset of BOOLEAN
    MaxRuns,      \* bound on CLI and init runs
    Readers       \* users running lib/query.py, one run at a time each

ASSUME Inferences \subseteq {"map", "label"} /\ MaxCalls \in Nat
ASSUME SchemaCases \subseteq BOOLEAN /\ SchemaCases # {} /\ MaxRuns \in Nat

\* The tables schema.sql creates, in script order.
SchemaOrder == <<"changelog", "work_sessions">>
Tables == {SchemaOrder[i] : i \in DOMAIN SchemaOrder}
Procs == Clis \cup Inits

VARIABLES
    table,    \* committed rows of work_sessions: session_id -> row
    wpc,      \* per writer: the statement of write_session it is at
    req,      \* per writer: the session it writes and its module_inference
    conn,     \* per writer: "unbound" or "open"
    staged,   \* per writer: its uncommitted INSERT, or NoRow
    pend,     \* per writer: the value the try body returns
    ret,      \* per writer: outcome of its last call
    lock,     \* the writer holding SQLite's write lock, or NoWriter
    calls,
    okCount,  \* ghost: per session id, calls that returned True
    schema,   \* mylog/schema.sql exists
    dbFile,   \* mylog/changelog.db exists
    tables,   \* tables created in it so far
    clog,     \* committed rows of the changelog table (their entries)
    ppc,      \* per CLI or init process: its statement
    pidx,     \* per process: the schema statement it executes next
    pcmd,     \* per CLI process: its subcommand, "add" or a reading one
    pent,     \* per CLI process: the entry it adds
    pret,     \* per process: outcome of its last run
    runs,
    qpc,      \* per query.py user: the statement of stats() next, or "idle"
    qres      \* per query.py user: what stats() has read so far

readVars == <<qpc, qres>>
procVars == <<schema, dbFile, tables, clog, ppc, pidx, pcmd, pent, pret, runs>>
wsVars == <<table, wpc, req, conn, staged, pend, ret, calls, okCount>>
vars == <<wsVars, lock, procVars, readVars>>

Ids == {s.id : s \in Snapshots}

\* What stats() has read before its first statement.
NoResult == [total |-> 0, sum |-> 0]

Outcome == {"none", "True", "False", "raised"}

\* Mutant of BuildFileDetails: sorted(..., reverse=True).
BuildFileDetails_descending(changes) ==
    SetToSortSeq({[file |-> p, added |-> changes[p].added, deleted |-> 0,
                   type |-> changes[p].type] : p \in DOMAIN changes},
                 LAMBDA x, y : x.file > y.file)

\* _build_file_details: one entry per file, sorted by path.  The session
\* stores lines_removed, and the entry reads changes.get("lines_deleted", 0).
BuildFileDetails(changes) ==
    LET entry(p) == [file |-> p, added |-> changes[p].added,
                     deleted |-> 0, type |-> changes[p].type]
    IN  SetToSortSeq({entry(p) : p \in DOMAIN changes},
                     LAMBDA x, y : x.file < y.file)

SumOf(details, f) ==
    FoldLeft(LAMBDA acc, d : acc + d[f], 0, details)

\* _calculate_stats over the details.
CalculateStats(details) ==
    [files |-> Len(details), added |-> SumOf(details, "added"),
     deleted |-> SumOf(details, "deleted")]

\* The row INSERTed for a session.
Row(s) ==
    LET details == BuildFileDetails(s.changes)
    IN  [id |-> s.id, details |-> details, stats |-> CalculateStats(details)]

Init ==
    /\ table = [i \in {} |-> NoRow]
    /\ wpc = [w \in Writers |-> "idle"]
    /\ req = [w \in Writers |-> NoRow]
    /\ conn = [w \in Writers |-> "unbound"]
    /\ staged = [w \in Writers |-> NoRow]
    /\ pend = [w \in Writers |-> "none"]
    /\ ret = [w \in Writers |-> "none"]
    /\ lock = NoWriter
    /\ calls = 0
    /\ okCount = [i \in Ids \cup Entries |-> 0]
    /\ schema \in SchemaCases
    /\ dbFile \in BOOLEAN
    /\ tables = IF dbFile THEN Tables ELSE {}
    /\ clog = {}
    /\ ppc = [p \in Procs |-> "idle"]
    /\ pidx = [p \in Procs |-> 1]
    /\ pcmd = [c \in Clis |-> "add"]
    /\ pent = [c \in Clis |-> CHOOSE e \in Entries : TRUE]
    /\ pret = [p \in Procs |-> "none"]
    /\ runs = 0
    /\ qpc = [q \in Readers |-> "idle"]
    /\ qres = [q \in Readers |-> NoResult]

\* An exception in the try body: `except ...: return False`, then finally.
Fail(w) ==
    /\ wpc' = [wpc EXCEPT ![w] = "finally"]
    /\ pend' = [pend EXCEPT ![w] = "False"]

\* WorkSessionWriter() and _ensure_db_initialized: the only check of the
\* store is that changelog.db exists (else FileNotFoundError).
EnsureDbInitialized == dbFile

\* A caller constructs WorkSessionWriter and hands a completed session to
\* write_session.
Call(w) ==
    /\ wpc[w] = "idle" /\ calls < MaxCalls
    /\ IF EnsureDbInitialized
       THEN /\ \E s \in Snapshots, inf \in Inferences :
                  req' = [req EXCEPT ![w] = [session |-> s, inference |-> inf]]
            /\ wpc' = [wpc EXCEPT ![w] = "build"]
            /\ ret' = [ret EXCEPT ![w] = "none"]
       ELSE /\ ret' = [ret EXCEPT ![w] = "raised"]
            /\ UNCHANGED <<wpc, req>>
    /\ calls' = calls + 1
    /\ UNCHANGED <<table, conn, staged, pend, lock, okCount>>

\* _build_file_details and _calculate_stats; module_inference.get raises
\* AttributeError when the caller passed infer_module's string result.
Build(w) ==
    /\ wpc[w] = "build"
    /\ IF req[w].inference = "map"
       THEN /\ wpc' = [wpc EXCEPT ![w] = "connect"]
            /\ UNCHANGED pend
       ELSE Fail(w)
    /\ UNCHANGED <<table, req, conn, staged, ret, lock, calls, okCount>>

\* conn = self.get_connection(): sqlite3.connect may raise.
Connect(w) ==
    /\ wpc[w] = "connect"
    /\ \/ /\ conn' = [conn EXCEPT ![w] = "open"]
          /\ wpc' = [wpc EXCEPT ![w] = "insert"]
          /\ UNCHANGED pend
       \/ /\ Fail(w)
          /\ UNCHANGED conn
    /\ UNCHANGED <<table, req, staged, ret, lock, calls, okCount>>

\* Mutant of Insert: the uniqueness of session_id not enforced (an
\* INSERT OR REPLACE, or a schema without the constraint).
Insert_noUnique(w) ==
    /\ wpc[w] = "insert"
    /\ IF "work_sessions" \notin tables \/ lock \notin {NoWriter, w}
       THEN Fail(w) /\ UNCHANGED <<staged, lock>>
       ELSE /\ staged' = [staged EXCEPT ![w] = Row(req[w].session)]
            /\ lock' = w
            /\ wpc' = [wpc EXCEPT ![w] = "commit"]
            /\ UNCHANGED pend
    /\ UNCHANGED <<table, req, conn, ret, calls, okCount>>

\* cursor.execute(INSERT ...): "no such table" in a file without the
\* schema, "database is locked" while another connection holds the write
\* lock, IntegrityError for a committed session_id, else the row is staged
\* under this writer's lock.
Insert(w) ==
    /\ wpc[w] = "insert"
    /\ LET s == req[w].session IN
       IF \/ "work_sessions" \notin tables \/ lock \notin {NoWriter, w}
          \/ s.id \in DOMAIN table
       THEN Fail(w) /\ UNCHANGED <<staged, lock>>
       ELSE /\ staged' = [staged EXCEPT ![w] = Row(s)]
            /\ lock' = w
            /\ wpc' = [wpc EXCEPT ![w] = "commit"]
            /\ UNCHANGED pend
    /\ UNCHANGED <<table, req, conn, ret, calls, okCount>>

\* Mutant of Commit: conn.commit() left out; the function still returns True.
Commit_noCommit(w) ==
    /\ wpc[w] = "commit"
    /\ pend' = [pend EXCEPT ![w] = "True"]
    /\ wpc' = [wpc EXCEPT ![w] = "finally"]
    /\ UNCHANGED <<table, req, conn, staged, ret, lock, calls, okCount>>

\* conn.commit(); return True.  A failing commit (I/O error) returns False
\* and the staged row is rolled back when the connection closes.
Commit(w) ==
    /\ wpc[w] = "commit"
    /\ \/ /\ table' = (staged[w].id :> staged[w]) @@ table
          /\ pend' = [pend EXCEPT ![w] = "True"]
          /\ wpc' = [wpc EXCEPT ![w] = "finally"]
       \/ /\ Fail(w)
          /\ UNCHANGED table
    /\ UNCHANGED <<req, conn, staged, ret, lock, calls, okCount>>

\* finally: `if conn: conn.close()`; with conn unbound the name lookup
\* raises UnboundLocalError, which replaces the pending return value.
\* Closing releases the lock and discards an uncommitted INSERT; the
\* call's arguments and locals end with its frame.
Finally(w) ==
    /\ wpc[w] = "finally"
    /\ LET out == IF conn[w] = "unbound" THEN "raised" ELSE pend[w] IN
       /\ ret' = [ret EXCEPT ![w] = out]
       /\ okCount' = IF out = "True"
                     THEN [okCount EXCEPT ![req[w].session.id] = @ + 1]
                     ELSE okCount
    /\ staged' = [staged EXCEPT ![w] = NoRow]
    /\ lock' = IF lock = w THEN NoWriter ELSE lock
    /\ wpc' = [wpc EXCEPT ![w] = "idle"]
    /\ req' = [req EXCEPT ![w] = NoRow]
    /\ conn' = [conn EXCEPT ![w] = "unbound"]
    /\ pend' = [pend EXCEPT ![w] = "none"]
    /\ UNCHANGED <<table, calls>>

-----------------------------------------------------------------------------
(* The programs that create the database and add changelog rows.          *)

\* Every CLI and init step leaves write_session's state alone.
ProcFrame == UNCHANGED <<table, wpc, req, conn, staged, pend, ret, calls,
                          readVars>>

\* A CLI process's entry argument before it has one.
DefaultEntry == CHOOSE e \in Entries : TRUE

\* The process ends: with `return` or sys.exit, or with an uncaught
\* exception; its connection is closed and its arguments and locals are
\* gone.
Exit(p, out) ==
    /\ ppc' = [ppc EXCEPT ![p] = "idle"]
    /\ pret' = [pret EXCEPT ![p] = out]
    /\ pidx' = [pidx EXCEPT ![p] = 1]
    /\ pcmd' = [c \in Clis |-> IF c = p THEN "add" ELSE pcmd[c]]
    /\ pent' = [c \in Clis |-> IF c = p THEN DefaultEntry ELSE pent[c]]

\* main() of changelog.py dispatches on the subcommand once ChangelogDB()
\* is built: `add` to add_entry, `query`, `export` and `stats` to reads.
CommandStep(cmd) == IF cmd = "add" THEN "insert" ELSE "read"

\* main() of changelog.py: ChangelogDB() runs _init_database when the file
\* is missing, which raises FileNotFoundError (exit 1) without schema.sql.
CliStart(c) ==
    /\ ppc[c] = "idle" /\ runs < MaxRuns
    /\ runs' = runs + 1
    /\ IF dbFile \/ schema
       THEN \E cmd \in {"add", "read"}, e \in Entries :
               /\ pcmd' = [pcmd EXCEPT ![c] = cmd]
               /\ pent' = [pent EXCEPT ![c] = IF cmd = "add" THEN e
                                                ELSE DefaultEntry]
               /\ ppc' = [ppc EXCEPT ![c] = IF dbFile THEN CommandStep(cmd)
                                              ELSE "iconnect"]
               /\ pret' = [pret EXCEPT ![c] = "none"]
               /\ UNCHANGED pidx
       ELSE Exit(c, "raised")
    /\ ProcFrame
    /\ UNCHANGED <<okCount, schema, dbFile, tables, clog, lock>>

\* _init_database: sqlite3.connect creates the empty file.
CliInitConnect(c) ==
    /\ ppc[c] = "iconnect"
    /\ dbFile' = TRUE
    /\ ppc' = [ppc EXCEPT ![c] = "script"]
    /\ pidx' = [pidx EXCEPT ![c] = 1]
    /\ ProcFrame
    /\ UNCHANGED <<okCount, schema, tables, clog, pcmd, pent, pret, runs, lock>>

\* init_database() of init-changelog.py connects (creating the file) before
\* it tests for schema.sql, and returns False when the schema is missing.
InitStart(i) ==
    /\ ppc[i] = "idle" /\ runs < MaxRuns
    /\ dbFile' = TRUE
    /\ runs' = runs + 1
    /\ IF schema
       THEN /\ ppc' = [ppc EXCEPT ![i] = "script"]
            /\ pidx' = [pidx EXCEPT ![i] = 1]
            /\ pret' = [pret EXCEPT ![i] = "none"]
            /\ UNCHANGED <<pcmd, pent>>
       ELSE Exit(i, "False")
    /\ ProcFrame
    /\ UNCHANGED <<okCount, schema, tables, clog, lock>>

\* One CREATE statement of cursor.executescript(schema_sql), committed on
\* its own.  It waits out another connection's write lock and then raises
\* "database is locked"; a table that exists raises unless the statement
\* says IF NOT EXISTS (schema.sql is not among the sources: both).  After
\* the last statement ChangelogDB goes on to add_entry and init_database
\* to its check of sqlite_master.
Script(p) ==
    /\ ppc[p] = "script"
    /\ LET t == SchemaOrder[pidx[p]]
           after == IF p \in Clis THEN CommandStep(pcmd[p]) ELSE "verify"
           Continue ==
               IF pidx[p] = Len(SchemaOrder)
               THEN /\ ppc' = [ppc EXCEPT ![p] = after]
                    /\ UNCHANGED <<pidx, pret, pcmd, pent>>
               ELSE /\ pidx' = [pidx EXCEPT ![p] = @ + 1]
                    /\ UNCHANGED <<ppc, pret, pcmd, pent>>
       IN  \/ /\ lock # NoWriter
              /\ Exit(p, "raised") /\ UNCHANGED tables
           \/ /\ lock = NoWriter /\ t \in tables
              /\ \/ Exit(p, "raised")
                 \/ Continue
              /\ UNCHANGED tables
           \/ /\ lock = NoWriter /\ t \notin tables
              /\ tables' = tables \cup {t}
              /\ Continue
    /\ ProcFrame
    /\ UNCHANGED <<okCount, schema, dbFile, clog, runs, lock>>

\* init_database's check that the changelog table exists.
InitVerify(i) ==
    /\ ppc[i] = "verify"
    /\ Exit(i, IF "changelog" \in tables THEN "True" ELSE "False")
    /\ ProcFrame
    /\ UNCHANGED <<okCount, schema, dbFile, tables, clog, runs, lock>>

\* add_entry: get_connection and the INSERT.  Only IntegrityError (the
\* entry exists) is caught and returns False; "no such table" and
\* "database is locked" are OperationalErrors that reach main (exit 1).
CliInsert(c) ==
    /\ ppc[c] = "insert"
    /\ CASE "changelog" \notin tables    -> Exit(c, "raised") /\ UNCHANGED lock
         [] lock \notin {NoWriter, c}     -> Exit(c, "raised") /\ UNCHANGED lock
         [] pent[c] \in clog              -> Exit(c, "False") /\ UNCHANGED lock
         [] OTHER -> /\ lock' = c
                     /\ ppc' = [ppc EXCEPT ![c] = "commit"]
                     /\ UNCHANGED <<pret, pidx, pcmd, pent>>
    /\ ProcFrame
    /\ UNCHANGED <<okCount, schema, dbFile, tables, clog, runs>>

\* conn.commit(); return True.  A failing commit raises to main; either
\* way `finally: conn.close()` releases the lock.
CliCommit(c) ==
    /\ ppc[c] = "commit"
    /\ \/ /\ clog' = clog \cup {pent[c]}
          /\ okCount' = [okCount EXCEPT ![pent[c]] = @ + 1]
          /\ Exit(c, "True")
       \/ /\ Exit(c, "raised")
          /\ UNCHANGED <<clog, okCount>>
    /\ lock' = NoWriter
    /\ ProcFrame
    /\ UNCHANGED <<schema, dbFile, tables, runs>>

\* query, export_* or show_stats: SELECTs over the changelog table, which
\* change nothing; "no such table" in a file without the schema reaches
\* main's `except Exception` (exit 1), else the command ends normally.
CliRead(c) ==
    /\ ppc[c] = "read"
    /\ Exit(c, IF "changelog" \in tables THEN "done" ELSE "raised")
    /\ ProcFrame
    /\ UNCHANGED <<okCount, schema, dbFile, tables, clog, runs, lock>>

\* The process is killed between two statements; SQLite drops its lock and
\* its uncommitted INSERT.
Kill(p) ==
    /\ ppc[p] # "idle"
    /\ Exit(p, "killed")
    /\ lock' = IF lock = p THEN NoWriter ELSE lock
    /\ ProcFrame
    /\ UNCHANGED <<okCount, schema, dbFile, tables, clog, runs>>

WriterStep(w) ==
    /\ Call(w) \/ Build(w) \/ Connect(w) \/ Insert(w) \/ Commit(w) \/ Finally(w)
    /\ UNCHANGED <<procVars, readVars>>

-----------------------------------------------------------------------------------------------------------------------------------------------------
(* lib/query.py --stats: a command-line reader of work_sessions.  Each    *)
(* cursor.execute is a statement of its own in autocommit, so it reads    *)
(* the rows committed at that moment; it never takes the write lock.  A   *)
(* run that ends leaves nothing behind, and its user may run it again.    *)
(* The other commands (--recent, --module, --search, --export, --daily)   *)
(* and the exits for a missing file or table are one read each: steps     *)
(* that change no state.                                                   *)

\* Mutant of StatsSteps: the per-module query issued before the totals.
StatsSteps_swapped == <<"groups", "count">>

\* WorkSessionQuery.stats: the totals query, then the per-module query.
StatsSteps == <<"count", "groups">>

\* The value stats() holds after statement st: COUNT(*) over work_sessions,
\* or the counts GROUP BY primary_module, which partition the rows and so
\* add up to their number.
StatsRead(q, st) ==
    LET n == Cardinality(DOMAIN table)
    IN  IF st = "count" THEN [qres[q] EXCEPT !.total = n]
                        ELSE [qres[q] EXCEPT !.sum = n]

\* One statement of stats(), in StatsSteps order.  The first is reached
\* through main's `DB_PATH.exists()` test and get_connection; the test is
\* taken with the statement, as the file and its tables, once there, stay.
\* After the last statement main prints the result and the run ends.
StatsStep(q) ==
    /\ dbFile /\ "work_sessions" \in tables
    /\ LET i == IF qpc[q] = "idle" THEN 1
                ELSE CHOOSE j \in DOMAIN StatsSteps : StatsSteps[j] = qpc[q]
       IN  IF i = Len(StatsSteps)
           THEN /\ qpc' = [qpc EXCEPT ![q] = "idle"]
                /\ qres' = [qres EXCEPT ![q] = NoResult]
           ELSE /\ qpc' = [qpc EXCEPT ![q] = StatsSteps[i + 1]]
                /\ qres' = [qres EXCEPT ![q] = StatsRead(q, StatsSteps[i])]
    /\ UNCHANGED <<wsVars, lock, procVars>>

Next ==
    \/ \E w \in Writers : WriterStep(w)
    \/ \E c \in Clis : CliStart(c) \/ CliInitConnect(c) \/ CliInsert(c)
                       \/ CliCommit(c) \/ CliRead(c)
    \/ \E i \in Inits : InitStart(i) \/ InitVerify(i)
    \/ \E p \in Procs : Script(p) \/ Kill(p)
    \/ \E q \in Readers : StatsStep(q)

\* Safety only: every failure path of a call is a step of its own, and the
\* callers stop calling after MaxCalls and MaxRuns.
Spec == Init /\ [][Next]_vars

-----------------------------------------------------------------------------

SessionRow == [id: Ids, details: Seq([file: Nat, added: Nat, deleted: Nat,
                                      type: STRING]),
               stats: [files: Nat, added: Nat, deleted: Nat]]

\* The file_details column: entries in strictly ascending file order.
SortedByFile(d) == \A i \in 1..Len(d) - 1 : d[i].file < d[i + 1].file

TypeOK ==
    /\ DOMAIN table \subseteq Ids
    /\ \A i \in DOMAIN table : table[i] \in SessionRow /\ SortedByFile(table[i].details)
    /\ wpc \in [Writers -> {"idle", "build", "connect", "insert", "commit",
                             "finally"}]
    /\ conn \in [Writers -> {"unbound", "open"}]
    /\ pend \in [Writers -> Outcome] /\ ret \in [Writers -> Outcome]
    /\ lock \in Writers \cup Clis \cup {NoWriter}
    /\ okCount \in [Ids \cup Entries -> Nat]
    /\ tables \subseteq Tables /\ (tables # {} => dbFile) /\ clog \subseteq Entries
    /\ ppc \in [Procs -> {"idle", "iconnect", "script", "verify", "insert",
                          "commit", "read"}]
    /\ pcmd \in [Clis -> {"add", "read"}]
    /\ pidx \in [Procs -> DOMAIN SchemaOrder]
    /\ pret \in [Procs -> {"none", "True", "False", "raised", "killed", "done"}]
    /\ qpc \in [Readers -> {"idle", "count", "groups"}]
    /\ qres \in [Readers -> [total: Nat, sum: Nat]]

\* The store the three programs share, seen through StoreSpec: the file,
\* its tables, the committed work_sessions rows and changelog entries (an
\* entry is its own record), and the successes reported per key.
TableOf(k) == IF k \in Entries THEN "changelog" ELSE "work_sessions"

Store == INSTANCE StoreSpec
    WITH Keys <- Ids \cup Entries, Tables <- Tables,
         exists <- dbFile, made <- tables,
         rows <- [k \in DOMAIN table \cup clog |->
                    IF k \in DOMAIN table THEN table[k] ELSE k],
         acks <- okCount

\* Spec sections 3, 4.5 and 6: write_session, `changelog.py add` and
\* init-changelog.py together implement the abstract store: a record is
\* added only under a fresh key of a table that exists, is never replaced
\* or removed, and success is reported at most once per key and only once
\* the record is committed.  About the INSERT against the unique key under
\* concurrent and repeated calls, the commit before `return True`, and the
\* schema script run by two programs over a store that already holds rows.
StoreRefinement == Store!Spec

\* A call reports True only when the row of exactly its session is
\* committed, `changelog.py add` reports success only when its entry is
\* committed.  About the commit before `return True`, the write lock
\* shared by the programs, and kills between their statements.
SuccessMeansRecorded ==
    /\ [][\A w \in Writers :
           wpc[w] = "finally" /\ wpc'[w] = "idle" /\ ret'[w] = "True" =>
               LET s == req[w].session
               IN  s.id \in DOMAIN table' /\ table'[s.id] = Row(s)]_vars
    /\ [][\A c \in Clis :
           pret[c] # "True" /\ pret'[c] = "True" => pent[c] \in clog']_vars

\* `query.py --stats` prints Total Sessions from the first statement of
\* stats() and the By Module lines from the second; the module counts never
\* add up to fewer sessions than the total printed above them.  About the
\* two statements reading two different snapshots while write_session
\* commits between them.
StatsBreakdownNotBehind ==
    [][\A q \in Readers :
           qpc[q] \in {"count", "groups"} /\ qpc'[q] = "idle" =>
               StatsRead(q, qpc[q]).sum >= StatsRead(q, qpc[q]).total]_vars

\* Spec section 7: when the store schema is missing and cannot be created,
\* startup aborts and no partial state is created.  Whenever changelog.db
\* exists and no program is running the schema script, it holds every
\* table.  About init-changelog.py connecting before its schema test, kills
\* inside the script, and every program testing only that the file exists.
NoPartialStore ==
    dbFile /\ (\A p \in Procs : ppc[p] \notin {"script", "verify"}) =>
        tables = Tables

=============================================================================

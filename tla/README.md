# TLA+ models of the SuperVM work logger

This directory holds TLA+ models of `src/tools/work-logger`, the tool that
watches a repository, folds file changes into a work session, and writes the
finished session to SQLite. The models are checked with TLC. Every module is
translated from the Python source. `PROJECT.json` maps each definition to
the lines it models.

## 1. Inventory

### Components, their state and operations

| Component | Source | State | Operations that change state |
|---|---|---|---|
| Session State | `lib/session_manager.py` | `current_session` (id, start/end time, `file_changes` per path: type, added, removed); `data/current_session.json` (checkpoint); `data/session_<id>.json` (archive) | `__init__`/`_load_current_session`, `start_session`, `add_file_change`, `end_session` (end, save, archive, release, unlink), `_save_current_session` |
| Watcher / Aggregator | `lib/watcher.py` | `pending_changes` (path -> type, insertion ordered), `docs_changed`, `last_update`; the watchdog observer thread and its event queue; the main thread's frames | `_process_event` (observer thread), `flush_pending`, `periodic_flush`, `signal_handler`, `main` |
| Estimator | `lib/analyzer.py` `parse_git_diff`, `get_file_info`, `analyze_complexity` | none (runs `git diff HEAD` with a 5 s timeout) | none |
| Classifier | `lib/analyzer.py` `infer_module`, `detect_language` | none (ordered rule table) | none |
| Store Writer | `lib/db_writer.py` | `work_sessions` table (unique `session_id`) | `write_session` |
| Docs index | `lib/index_generator.py` | `docs/INDEX.md` | `update_docs_index` (rewrites the file when the rendering changed) |
| Changelog CLI | `bin/changelog.py` | `mylog/changelog.db` (created on first use by any subcommand), `changelog` table | `ChangelogDB.__init__`/`_init_database`, `add_entry`; query, export and stats read |
| Installation | `mylog/init-changelog.py`, `lib/install.py`, `mylog/examples.py` | `mylog/changelog.db` | `init_database` (install.py runs checks and writes a git hook; examples.py is a demo) |
| Query surface | `lib/query.py` | none (reads `work_sessions`) | read-only SQL; `stats()` issues two statements |

### How they interact

`main` builds a `SessionManager`, which loads the checkpoint. Its
`start_session` resumes the loaded session if it has no `end_time`, and
otherwise creates and saves a new one. `main` then regenerates the docs index,
starts the watchdog observer thread, and runs `periodic_flush` on the main
thread.

The observer thread calls `_process_event` for each queued event. It filters
the event (`should_ignore`, the explicit `docs/INDEX.md` skip), sets
`docs_changed` for a `docs/` path, and stores `pending_changes[path]`.

Every 2 s, `periodic_flush` calls `flush_pending`. That function:

- iterates the dict;
- estimates each file (`get_file_info`) and calls
  `SessionManager.add_file_change`, which saves the checkpoint;
- regenerates the index if `docs_changed` is set, then resets the flag;
- clears the dict.

There is no lock between the two threads.

`SIGINT` runs `signal_handler` on the main thread, on top of the frame it
interrupts. The handler:

- stops and joins the observer;
- calls `flush_pending` again;
- calls `end_session`;
- reads and deletes `data/work_note_input.json` if it exists, inside a
  `try/except Exception`;
- calls `infer_module(completed.file_changes, completed.session_id)`.
  `infer_module` takes one argument, so this raises `TypeError`. The
  `WorkSessionWriter.write_session` call and the `sys.exit(0)` after it are
  never reached, and the work note read just before is lost.

The `TypeError` unwinds into the interrupted frame. If that frame is inside
one of `flush_pending`'s `try/except Exception` blocks, or a first
handler's read of the work note, the exception is caught there.

### Hard behaviours

- The observer and the flush share `pending_changes` without a lock:
  - stores can land between the estimate and `clear()`;
  - a new key stored during the iteration raises `RuntimeError`.
- The signal handler is re-entrant on the main thread:
  - it re-runs `flush_pending` over a dict that is half iterated;
  - its exception is caught by the code it interrupted;
  - a second Ctrl+C nests a second handler.
- Crashes between, and inside, the writes of `end_session` and
  `_save_current_session`; a restart then resumes or replaces the checkpoint.
- A manager write that raises (disk full, permission) after memory changed.
  The exception leaves `signal_handler` through the frame the signal
  interrupted: the process exits, or `flush_pending` catches it and the
  process runs on with an ended, or already released, session.
- Queued events are dropped by `observer.stop()` (inside watchdog, not modelled).
- `changelog.py add`, `init-changelog.py` and `db_writer.py`'s `write_session`
  share one SQLite file. `executescript` commits each `CREATE TABLE` on its
  own, and a missing or half-created schema is detected only by the file's
  existence.
- `git diff HEAD -- <path>` behaves differently for tracked, untracked and
  deleted files and in a repository without commits; `parse_git_diff`
  counts lines by their first character.
- The index rewrite is itself a file event, so the filter must break the loop.
  The checkpoint write is one too when the tool's `data/` directory is inside
  the watched tree (`StorageWatched`), and no filter breaks that loop.

### Properties that make each component correct

- **Session State.**
  - An archived session is frozen (this covers resuming: a resumed ended
    session would be changed after its archive).
  - A started session survives in some file.
  - The checkpoint is replaced atomically (spec section 5). The code writes it in place; that is a hazard, and torn writes are part of `sm_lifecycle`.
- **Watcher.**
  - Everything taken in before the stop is accumulated before `end_time`
    is set.
  - No entry is cleared unread.
  - Each burst is accumulated once.
  - The process exits only on request.
  - Ctrl+C eventually ends the process.
  - The watcher settles when edits stop.
- **Store Writer.**
  - A session is written at most once; a second write fails and leaves the
    first row unchanged.
- **Classifier.** The result is the first matching rule, else the top
  segment, else uncategorized. `InferModule` computes this directly; no
  property restates it.
- **Estimator.** The counts are those of a textual diff (spec section 4.2),
  and never more.
- **Docs index.** The index lists exactly the tree that is not ignored,
  depth-first, directories first.
- **Changelog store.** An entry reported added is in the table; a failed
  start leaves no partial store (spec section 7).
- **Store as a whole.** The writer and the changelog programs together
  behave as the abstract store of spec sections 3, 4.5 and 6 (`StoreSpec`).
- **Query surface.** A report built from one statement reflects the store at
  one moment. `stats()` reads twice, so its breakdown may count a session its
  total does not, but never fewer sessions than the total.

## 2. Modules

| Module | Models | Composed by |
|---|---|---|
| `SessionManager.tla` | the manager's methods as operators over `cur` (memory), `disk` (checkpoint), `archive`, `nextId` | `SessionLifecycle` (EXTENDS), `Watcher` (`SM == INSTANCE SessionManager`) |
| `SessionLifecycle.tla` | successive processes driving the manager, killed between statements or inside a `json.dump`, or hit by a manager write that raises | `MCSessionLifecycle` |
| `Watcher.tla` | the watcher process: observer thread, main-thread frame stack (periodic flush at the bottom, signal handlers above), exception unwinding, kill and restart | `MCWatcher` |
| `SessionStore.tla` | `WorkSessionWriter.write_session` as concurrent writers (build, connect, insert, commit, finally) over the `work_sessions` table and SQLite's write lock | `MCSessionStore` |
| `SessionStore.tla` (continued) | `changelog.py add` (existence test, `_init_database`, `add_entry`) and `init-changelog.py` as processes sharing the file, its tables and the lock with the writers; `query.py --stats` as a user reading the table between commits | `MCSessionStore` |
| `StoreSpec.tla` | the store as its users may rely on it (spec sections 3, 4.5, 6): the file appears, tables are added, a record is added once under a fresh key and never changed, success is reported at most once per key and only for a committed record | `SessionStore` (`Store == INSTANCE StoreSpec WITH ...`) |
| `RepoTree.tla` | a working tree, git's HEAD and index, and the user's edits; `get_file_info` (git diff, `parse_git_diff`, `infer_module`, `detect_language`, `analyze_complexity`) and `update_docs_index` over that tree | `MCRepoTree` |
| `MC*.tla` | model values for paths, change types and session snapshots | cfgs |

### How the Watcher model corresponds to the code

- `pending` is `pending_changes` as a sequence of `[path, type]` in insertion
  order. `DictSet` is the dict store: an existing key keeps its place.
- `obsEv` is an event between `_process_event`'s `docs_changed` write and
  its dict store.
- `fsq` is watchdog's queue.
- `stack` is the main thread. Each frame has a kind (`timer` or `handler`),
  a `pc` at one statement of `flush_pending` or `signal_handler`, and the
  iteration position `pos` and the dict size `size` at which the `for` began
  (so that `next()` raises when the size has changed).
- `Raise` unwinds frames with the RECURSIVE `Unwind`:
  - a frame at `add` (the per-file `try`) catches and either records the
    file (the exception came inside `get_file_info`, which gives (0, 0)) or
    skips it (it came before `add_file_change`);
  - a frame at `regen` (the `try` around `update_docs_index`) catches and
    resets `docs_changed`;
  - a handler frame at `note` (the `try` around the work-note read)
    catches and goes on to `infer_module`;
  - with no catcher the process exits.
- `HandlerStop` models `observer.stop(); observer.join()`: it waits for an
  event being stored (`obsEv = NoEvent`) and drops the queue.
- `HandlerEnd`, `HandlerArchive` and `HandlerRelease` are the steps of
  `end_session`. When `end_session` returns `None`, the handler's
  `sys.exit(0)` is `Exit`.
- `HandlerNote` is the work-note read and unlink; the note's content is
  not modelled.
- `HandlerInfer` raises the `TypeError`.
- `SaveEvent` queues the event of `_save_current_session`'s write after a
  flush's `add_file_change`, when `StorageWatched` holds. That is the
  deployment `install.py` describes, where the watched repository contains
  `tools/work-logger/data`. The other saves happen while the observer is
  stopped or not yet started. `watcher_core` runs with the data directory
  outside the watched tree; `watcher_feedback` runs with it inside.

Ghost variables record what the properties need:

- `unread`: paths stored since their last estimate;
- `recorded`: paths accumulated since the last clear;
- `atStop`: paths pending when the observer was stopped.

### How the RepoTree model corresponds to the code

- A path is a sequence of segments and a segment a sequence of atoms, so
  that `docs/` can be found inside `my+docs` (`Found` is `re.search` of a
  `/`-separated pattern) and `.MD` is a suffix (`Suffix`, `Lower`).
- A file's content is a sequence of line classes: `x` (ordinary), `++` and
  `--` (text starting with those characters).
- `DiffOutputs(p)` is what `git diff HEAD -- p` prints: nothing when the
  working copy equals HEAD or git does not track the file; otherwise the
  five header lines and a body for each longest common subsequence
  (`Bodies`). `ParseGitDiff` takes the non-zero exit of a repository
  without commits to the line-count branch.
- `Estimate(p)` is `get_file_info` for a path the watcher's `should_ignore`
  (`WatcherIgnores`, watcher.py:35) lets through: a timeout gives (0, 0), else one of the
  parsed outputs; it records the old and new content for the properties.
- `Render(F)` is `_render_index`'s list of entries as paths: the recursion
  `WalkEntries` of `_build_tree_entries` over `SortedEntries` (the filter of
  `_should_ignore`, then directories and files by `SegRank`, the
  `name.lower()` order). `UpdateDocsIndex` writes it; the rendering carries
  the current second, so the equality test of `update_docs_index` never
  spares a write across seconds, and the model always writes.

### How the changelog part of SessionStore corresponds to the code

- `dbFile`, `tables` and `clog` are the file, its tables and the
  `changelog` rows; `schema` is whether `mylog/schema.sql` exists.
- `CliStart` is `main` choosing a subcommand (`pcmd`) and
  `ChangelogDB()`'s existence test, which every subcommand runs; `CliInitConnect` and
  `Script` are `_init_database` (`connect` creates the file; each statement
  of the script commits alone, waits on another connection's lock and
  raises). `CliInsert`/`CliCommit` are `add_entry`: only `IntegrityError`
  is caught. `InitStart`, `Script` and `InitVerify` are `init_database`,
  which connects before it tests for the schema file.
- `CliRead` is `query`, `export` or `stats`: reads of `changelog` that end
  with exit 1 when the table is missing. A reading command over a missing
  file therefore creates the file and the schema, as `add` does.
- `Exit` ends a process; its arguments (`pcmd`, `pent`) and script position
  go with it.
- `Kill` ends a process between two statements; SQLite drops its lock.
- `StatsStep` is one statement of `WorkSessionQuery.stats()`, in the order
  `StatsSteps` gives: `COUNT(*)`, then the counts `GROUP BY
  primary_module`, which add up to the number of rows. Each statement is
  its own autocommit read and sees the rows committed at that moment.
  `main`'s `DB_PATH.exists()` test is taken with the first statement:
  the file and its tables never go away once there. The other commands
  of `query.py` and of the changelog CLI are one `SELECT` each, a step that
  changes no state, so they are not actions.

### The refinement of StoreSpec

`SessionStore` maps its state onto `StoreSpec`:

- `exists` is `dbFile`; `made` is `tables`;
- `rows` has the committed `work_sessions` rows (keyed by session id) and the
  changelog entries (an entry is its own record);
- `acks` is the ghost `okCount`: per key, the calls that reported success
  (`write_session` returning True, `changelog.py add` returning True).

Every step of the writers, the CLI processes, the reader and kills is a
`StoreSpec` step or a stutter. `StoreRefinement` checks this as a
`PROPERTY`.

The estimator in `Watcher` is the choice of `(added, removed)` from `Deltas`. The choice 0
also stands for its timeout and exception paths. Time is abstracted:
`periodic_flush`'s `time.time() - last_update > 1` is always true, because
`last_update` is only set at the end of a flush, more than 2 s before.

## 3. Runs

| Run | cfg | Expect | Shows |
|---|---|---|---|
| `watcher_core` | `Watcher.cfg` | pass | `TypeOK`, `DrainBeforeFinalize`, `EventuallyQuiet` with 2 edits, 2 nested Ctrl+C, 1 kill, 2 starts |
| `watcher_cleared` | `Watcher_cleared.cfg` | violation | `NoEntryClearedUnread`: an entry stored after its file was estimated is wiped by `clear()` |
| `watcher_double` | `Watcher_double.cfg` | violation | `CoalescedOnce`: Ctrl+C during a flush re-accumulates recorded files |
| `watcher_zombie` | `Watcher_zombie.cfg` | violation | `StopExits`: Ctrl+C during index regeneration never ends the process |
| `watcher_runtime` | `Watcher_runtime.cfg` | violation | `ExitsOnlyOnRequest`: `RuntimeError` from the unlocked dict iteration kills the watcher |
| `watcher_feedback` | `Watcher_feedback.cfg` | violation | `EventuallyQuiet`: with the data directory inside the watched tree (as `install.py` sets it up), each checkpoint save is an event and the flush loop never settles |
| `sm_lifecycle` | `SessionLifecycle.cfg` | pass | `TypeOK`, `ArchivedSessionFrozen` across kills (also torn writes), two writes that raise, two kills and 3 starts. The release order of `end_session` (`current_session = None` before `unlink`) is what keeps an archived session frozen when `unlink` raises and the process runs on |
| `sm_lost` | `SessionLifecycle_lost.cfg` | violation | `SessionNeverLost`: a kill between `end_session`'s save and archive write, then a restart, loses the session |
| `store_write` | `SessionStore.cfg` | pass | `TypeOK` (rows' details sorted by file), `StoreRefinement` (the programs implement `StoreSpec`: no record replaced, success at most once per key and only when committed), `SuccessMeansRecorded` (True means the caller's own row or entry), `StatsBreakdownNotBehind` (the By Module counts of `query.py --stats` never add up to less than its total), with 2 concurrent writers, 3 calls, two sessions sharing id 1, one `changelog.py` process (add or a reading subcommand), one `init-changelog.py` run over a missing or present file and schema, and one `query.py --stats` user; writers are symmetric |
| `store_partial` | `SessionStore_partial.cfg` | violation | `NoPartialStore`: `init-changelog.py` without `schema.sql` leaves an empty `changelog.db`, which `changelog.py` and the writer then take as initialised |
| `tree_index` | `RepoTree.cfg` | pass | `TypeOK`, `CountsNeverInflated` (never more lines than the diff has; exact when the file has a committed version, the diff did not time out and no line starts with `++` or `--`) and the action property `IndexListsTree`, over 3 edits or git commands on a checkout or a repository without commits |
| `tree_estimate` | `RepoTree_estimate.cfg` | violation | `EstimateMatchesSpec`: a new untracked file is recorded as (0, 0) because `git diff` exits 0 for it |

`_build_file_details` reads `lines_deleted` where sessions store `lines_removed`
(db_writer.py:156), so the persisted deletions are always 0; `BuildFileDetails` models
that constant. The last event type wins at `watcher.py:84`, against spec section 4.4. That is a
single assignment and is listed as a hazard, not a run. Each violation is a finding in `PROJECT.json`. Each property of a passing run
has a mutant, a plausible bug in the mapped code, that TLC catches.

### Bounds

- **Paths.** Four paths: a source file, a docs file, the index itself and an
  ignored build artifact. This is one of each class `_process_event` tells
  apart.
- **Change types.** Two, enough to tell first from last.
- **Deltas.** `{0}` for the watcher and `{0, 1}` for the lifecycle. The
  watcher's properties do not depend on line counts; the lifecycle needs a
  non-zero count to tell session versions apart.
- **Edits.** Two in `watcher_core` (one pending key plus a new key during the iteration). Three in the violation runs: three edits let two keys be pending while a third event arrives
  during the iteration. That is the shortest scenario for every interleaving
  above.
- **Feedback run.** One edit, one start, no signal: the smallest setting in which the loop appears.
- **Signals.** Two (nested) in `watcher_core`, one in the violation runs.
- **Kills and starts.** In the watcher, one kill and two starts, enough for a crash followed
  by a resume.
- **Write failures.** Two in `sm_lifecycle` (`MaxFaults = 2`), with two
  kills there (`MaxCrashes = 2`). Any of the four writes of the manager (the
  checkpoint saves of `start_session` (from `main`, where the process then
  exits, or from `add_file_change`, where the flush catches it),
  `add_file_change` and `end_session`, the archive write, the unlink) can
  raise, including twice in a row: a failed end save
  followed by a failed add save, for example. There are none in `sm_lost`,
  so that its counterexample is the plain kill.
- **Repository tree.** Five paths: a crate file with an upper-case suffix
  under a nested `tests/`, a lock file under `docs/` (dropped by the
  watcher's filter, listed by the index), a file under `my+docs/` (the
  unanchored `docs/` rule), `README.md` at the top, and a file under
  `tools/work-logger/data+base/` (the ignore prefix). Contents of one or two
  lines of the three classes; three user steps, enough for a new file, an
  add, a commit and a deletion. One of the five starts absent.
- **Changelog processes.** One `changelog.py` (add, or a reading
  subcommand) and one `init-changelog.py`, two runs between them, one entry; file and schema
  present or not.
- **Session ids.** Three, enough for the restarts.
- **Store.** Two writers and three calls over three snapshots, two of which
  share id 1. That covers a duplicate while the first call holds the lock, a
  retry after a failure, and a collision after a commit. Paths are numbered
  so the details can be sorted. The writers are interchangeable
  (`SYMMETRY WriterSymmetry`): every property quantifies over all of them.
- **Readers.** One `query.py --stats` user, who may run it any number of
  times. A commit can fall between its two statements, which is the case
  `StatsBreakdownNotBehind` is about.

Deadlock checking is off for the watcher, lifecycle and store runs. The system really stops once the bounded user
stops editing and restarting, or after the process exits.

In `tree_index` deadlock is checked: `Estimate` and `UpdateDocsIndex` are always enabled.

`SessionStore` has no liveness property and no fairness. Every failure is
its own step, and the callers stop after `MaxCalls`.

### Fairness

`WF` on the observer thread and on the main thread. Both are ordinary threads
under the GIL, which switches at least every switch interval. No fairness is
assumed for the user, signals, kills or restarts.

## 4. Open questions (most important first)

1. A second Ctrl+C can land while the first `signal_handler` is between
   `end_session`'s save and its archive write. The nested handler then calls
   `end_session` again, and `WorkSession.end_session`
   (session_manager.py:41-43) overwrites `end_time`. Spec sections 4.2 and 8
   say finalizing twice leaves `end_time` unchanged. `Watcher` reaches this
   state in nine steps, with two handler frames and the lower one at its
   archive step. `end_time`'s value is not a variable of the model (time is
   abstracted), and no run checks it. It is listed as a hazard.
2. Compose `RepoTree`'s index with the watcher's `docs_changed` reset
   (watcher.py:124), to check that the index is fresh after the last docs
   event.
3. `SessionAbstract.tla`: the spec's Idle/Active/Draining/Closed machine,
   with `Watcher` shown to refine it. The nested handlers above already break
   the single Draining-to-Closed step, so the refinement would be violated.

## 5. Not modelled

- Formatting and printing.
- `format_duration`.
- `get_stats`, `get_duration` and the clock.
- The purposes and timestamps of `docs/INDEX.md` (`_infer_purpose`,
  `TOKEN_MAP`, the description map, `_get_times`): text only.
- Query formatting, and `query.py`'s single-statement commands (`--recent`,
  `--module`, `--search`, `--export`, `--daily`) and `WorkSessionWriter.query_*`:
  one read each, a step that changes no state.
- `install.py` (version checks, `pip install`, and writing a `post-commit` hook
  that only echoes) and `examples.py` (a demo script over `ChangelogDB`).
  They are subprocess calls and printing, with no state shared with the
  watcher, the session files or the store.
- `init-changelog.py --reset`, the changelog CLI's `list-modules` and
  `list-properties` (they read registry tables of `schema.sql`, which is not
  in the repository), and the file `export --output` writes.
- Which frame catches a failed manager write. `SessionLifecycle` has no
  frames, so a raising write is modelled as "exits or runs on", and either
  can happen. The same holds after a successful `end_session`: the
  handler's `TypeError` from `infer_module` exits or runs on, so `Release`
  ends in either. `Watcher` has the frames but no write failures, which keeps
  `watcher_core` within its bounds.

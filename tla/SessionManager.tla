--------------------------- MODULE SessionManager ---------------------------
(***************************************************************************)
(* lib/session_manager.py: WorkSession and SessionManager.                 *)
(*                                                                         *)
(* The manager keeps one in-memory session (current_session) and mirrors   *)
(* it into data/current_session.json after every mutation; end_session     *)
(* marks the session ended, saves it, copies it to session_<id>.json, then *)
(* forgets it and deletes the checkpoint.  A new process reloads the       *)
(* checkpoint in __init__ and start_session resumes it if it is not ended. *)
(*                                                                         *)
(* The operators below are the manager's methods, each with the save that  *)
(* follows its mutation.  SessionLifecycle drives them as one process that *)
(* may crash between statements; Watcher calls them from its threads.      *)
(***************************************************************************)
EXTENDS Naturals, FiniteSets, Functions, TLC

CONSTANTS
    Paths,        \* relative paths that can be recorded
    ChangeTypes,  \* {"created", "modified", "deleted"}
    Deltas,       \* line counts the estimator can report for one file
    Ids,          \* session ids (uuid4()[:8]); a finite set of naturals
    NoSession,    \* current_session is None
    NoFile,       \* the checkpoint file does not exist
    Torn          \* the checkpoint file holds a partially written document

ASSUME /\ Ids \subseteq Nat /\ Ids # {}
       /\ Deltas \subseteq Nat

VARIABLES
    cur,      \* SessionManager.current_session
    disk,     \* contents of data/current_session.json
    archive,  \* data/session_<id>.json files: id -> snapshot
    nextId    \* the next fresh session id

smVars == <<cur, disk, archive, nextId>>

Change == [type: ChangeTypes, added: Nat, removed: Nat]

IsChanges(f) == DOMAIN f \subseteq Paths /\ \A p \in DOMAIN f : f[p] \in Change

IsSession(s) ==
    /\ s \notin {NoSession, NoFile, Torn}
    /\ s.id \in Ids /\ s.ended \in BOOLEAN /\ IsChanges(s.changes)

Active(s) == IsSession(s) /\ ~s.ended

NoChanges == [p \in {} |-> 0]

\* The data directory before the first run: no checkpoint, no archive.
SMInit ==
    /\ cur = NoSession
    /\ disk = NoFile
    /\ archive = [i \in {} |-> NoSession]
    /\ nextId = CHOOSE i \in Ids : \A j \in Ids : i <= j

\* WorkSession.__init__: fresh id, no end_time, no file changes.
NewSession(i) == [id |-> i, ended |-> FALSE, changes |-> NoChanges]

\* Mutant of AddChange: lines_removed decremented instead of accumulated.
AddChange_subtractsRemoved(s, p, t, a, r) ==
    IF p \in DOMAIN s.changes
    THEN [s EXCEPT !.changes[p].added = @ + a, !.changes[p].removed = @ - r]
    ELSE [s EXCEPT !.changes =
              (p :> [type |-> t, added |-> a, removed |-> 0 - r]) @@ @]

\* WorkSession.add_file_change: the first call for a path stores its type,
\* later calls add their line counts to the existing record.
AddChange(s, p, t, a, r) ==
    IF p \in DOMAIN s.changes
    THEN [s EXCEPT !.changes[p].added = @ + a, !.changes[p].removed = @ + r]
    ELSE [s EXCEPT !.changes =
              (p :> [type |-> t, added |-> a, removed |-> r]) @@ @]

\* _load_current_session: a missing or unreadable file leaves None.
Loaded == IF IsSession(disk) THEN disk ELSE NoSession

\* start_session on a given current_session value: resume it if it has no
\* end_time, otherwise create and save a new session.
Resumes(s) == s # NoSession /\ ~s.ended

StartFrom(s) ==
    IF Resumes(s)
    THEN /\ cur' = s
         /\ UNCHANGED <<disk, archive, nextId>>
    ELSE /\ nextId \in Ids
         /\ cur' = NewSession(nextId)
         /\ disk' = cur'
         /\ nextId' = nextId + 1
         /\ UNCHANGED archive

\* SessionManager.add_file_change: start a session if there is none (not
\* when the current one has ended), record the change, save.  The save of
\* start_session and the one after the change are taken as one: a kill
\* between them leaves a fresh empty session on disk, as a kill right
\* after main's start_session does, and a raising first save is
\* SessionLifecycle's StartSaveFails.
AddFileChange(p, t, a, r) ==
    LET s == IF cur = NoSession THEN NewSession(nextId) ELSE cur
    IN  /\ cur = NoSession => nextId \in Ids
        /\ cur' = AddChange(s, p, t, a, r)
        /\ disk' = cur'
        /\ nextId' = IF cur = NoSession THEN nextId + 1 ELSE nextId
        /\ UNCHANGED archive

\* end_session, in its three steps: set end_time and save; write the
\* archive copy; forget the session and unlink the checkpoint.
\* WorkSession.end_session: end_time = now, whether or not it was set.
Finalize(s) == [s EXCEPT !.ended = TRUE]

EndMark ==
    /\ cur # NoSession
    /\ cur' = Finalize(cur)
    /\ disk' = cur'
    /\ UNCHANGED <<archive, nextId>>

EndArchive ==
    /\ archive' = (cur.id :> cur) @@ archive
    /\ UNCHANGED <<cur, disk, nextId>>

EndRelease ==
    /\ cur' = NoSession
    /\ disk' = NoFile
    /\ UNCHANGED <<archive, nextId>>

=============================================================================

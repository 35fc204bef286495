-------------------------- MODULE SessionLifecycle --------------------------
(***************************************************************************)
(* The session manager over successive watcher processes (watcher.main):  *)
(* a process constructs SessionManager (which loads current_session.json), *)
(* calls start_session, records changes through add_file_change, and on    *)
(* Ctrl+C runs end_session and exits.  A process can be killed between any *)
(* two of these statements, and, when TornWrites holds, in the middle of a *)
(* json.dump into a file opened with 'w' (the write is not atomic).        *)
(* When SaveFails holds, a file write of the manager can also raise (disk  *)
(* full, permission): the method has already changed memory, and the       *)
(* exception leaves signal_handler into the frame the signal interrupted,  *)
(* which either has no try (the process exits) or is flush_pending's      *)
(* per-file body (the process goes on running).                            *)
(***************************************************************************)
EXTENDS SessionManager

CONSTANTS
    TornWrites,   \* a kill can land inside a file write
    MaxLaunches,  \* bound on process starts
    MaxCrashes,   \* bound on kills
    MaxAdds,      \* bound on add_file_change calls
    SaveFails,    \* a file write of the manager can raise
    MaxFaults     \* bound on writes that raise

ASSUME TornWrites \in BOOLEAN /\ MaxLaunches \in Nat /\ MaxCrashes \in Nat
       /\ MaxAdds \in Nat /\ SaveFails \in BOOLEAN /\ MaxFaults \in Nat

VARIABLES
    pc,        \* "down", "running", or the end_session step about to run
    launches, crashes, adds, faults

vars == <<cur, disk, archive, nextId, pc, launches, crashes, adds, faults>>

Init ==
    /\ SMInit
    /\ pc = "down"
    /\ launches = 0 /\ crashes = 0 /\ adds = 0 /\ faults = 0

\* watcher.main: SessionManager(storage_path) loads the checkpoint, then
\* start_session resumes or replaces it.
Launch ==
    /\ pc = "down"
    /\ launches < MaxLaunches
    /\ StartFrom(Loaded)
    /\ pc' = "running"
    /\ launches' = launches + 1
    /\ UNCHANGED <<crashes, adds, faults>>

\* A flush records one file through add_file_change (and its save).
Add ==
    /\ pc = "running"
    /\ adds < MaxAdds
    /\ \E p \in Paths, t \in ChangeTypes, a, r \in Deltas :
          AddFileChange(p, t, a, r)
    /\ adds' = adds + 1
    /\ UNCHANGED <<pc, launches, crashes, faults>>

\* The exception leaves the handler: the process exits (an uncaught
\* exception), or a flush_pending frame below catches it and the process
\* keeps running with the given current_session.
Raised(s) ==
    \/ pc' = "down" /\ cur' = NoSession
    \/ pc' = "running" /\ cur' = s

\* signal_handler -> end_session: set end_time and save ...  With no
\* current session end_session returns None and the handler exits.
End ==
    /\ pc = "running"
    /\ IF cur = NoSession
       THEN /\ pc' = "down"
            /\ UNCHANGED smVars
       ELSE /\ EndMark
            /\ pc' = "archive"
    /\ UNCHANGED <<launches, crashes, adds, faults>>

\* ... write session_<id>.json ...
Archive ==
    /\ pc = "archive"
    /\ EndArchive
    /\ pc' = "release"
    /\ UNCHANGED <<launches, crashes, adds, faults>>

\* ... drop current_session and unlink the checkpoint.  The handler then
\* calls infer_module with two arguments, and the TypeError leaves it like
\* any other exception (see Raised).
Release ==
    /\ pc = "release"
    /\ EndRelease
    /\ Raised(NoSession)
    /\ UNCHANGED <<launches, crashes, adds, faults>>

\* The process is killed between two statements: memory is lost, files stay.
Crash ==
    /\ pc # "down"
    /\ crashes < MaxCrashes
    /\ cur' = NoSession
    /\ pc' = "down"
    /\ crashes' = crashes + 1
    /\ UNCHANGED <<disk, archive, nextId, launches, adds, faults>>

\* The process is killed inside a json.dump: the file being written (the
\* checkpoint by add_file_change or end_session, or the archive copy) is
\* left truncated.
TornCrash ==
    /\ TornWrites
    /\ pc # "down"
    /\ crashes < MaxCrashes
    /\ \/ /\ pc = "running"
          /\ disk' = Torn
          /\ UNCHANGED archive
       \/ /\ pc = "archive"
          /\ archive' = (cur.id :> Torn) @@ archive
          /\ UNCHANGED disk
    /\ cur' = NoSession
    /\ pc' = "down"
    /\ crashes' = crashes + 1
    /\ UNCHANGED <<nextId, launches, adds, faults>>

-----------------------------------------------------------------------------
(* Writes that raise.  open(..., 'w') either fails and leaves the file as  *)
(* it was, or truncates it and json.dump fails part-way (Torn).            *)

Faulty == SaveFails /\ faults < MaxFaults /\ faults' = faults + 1

\* add_file_change: the change is in memory, the save raises; flush_pending
\* catches the exception and goes on.
AddSaveFails ==
    /\ pc = "running" /\ adds < MaxAdds /\ Faulty
    /\ \E p \in Paths, t \in ChangeTypes, a, r \in Deltas :
          LET s == IF cur = NoSession THEN NewSession(nextId) ELSE cur
          IN  /\ cur = NoSession => nextId \in Ids
              /\ cur' = AddChange(s, p, t, a, r)
              /\ nextId' = IF cur = NoSession THEN nextId + 1 ELSE nextId
              /\ disk' \in {IF cur = NoSession THEN s ELSE disk, Torn}
    /\ adds' = adds + 1
    /\ UNCHANGED <<archive, pc, launches, crashes>>

\* start_session replaces the loaded session, or add_file_change starts
\* one, and the save raises after current_session is set.  main has no try
\* around start_session, so the process exits; flush_pending's per-file
\* try catches the exception from add_file_change, whose change is never
\* recorded.
StartSaveFails ==
    /\ nextId \in Ids /\ Faulty
    /\ \/ /\ pc = "down" /\ launches < MaxLaunches /\ ~Resumes(Loaded)
          /\ cur' = NoSession
          /\ launches' = launches + 1
          /\ UNCHANGED <<pc, adds>>
       \/ /\ pc = "running" /\ cur = NoSession /\ adds < MaxAdds
          /\ cur' = NewSession(nextId)
          /\ adds' = adds + 1
          /\ UNCHANGED <<pc, launches>>
    /\ disk' \in {disk, Torn}
    /\ nextId' = nextId + 1
    /\ UNCHANGED <<archive, crashes>>

\* end_session: end_time is set, the checkpoint save raises.
EndSaveFails ==
    /\ pc = "running" /\ cur # NoSession /\ Faulty
    /\ disk' \in {disk, Torn}
    /\ Raised(Finalize(cur))
    /\ UNCHANGED <<archive, nextId, launches, crashes, adds>>

\* end_session: the archive write raises.
ArchiveFails ==
    /\ pc = "archive" /\ Faulty
    /\ archive' \in {archive, (cur.id :> Torn) @@ archive}
    /\ Raised(cur)
    /\ UNCHANGED <<disk, nextId, launches, crashes, adds>>

\* Mutant of ReleaseFails: the checkpoint unlinked before current_session
\* is dropped, so the session is still held when unlink raises.
ReleaseFails_unlinkFirst ==
    /\ pc = "release" /\ Faulty
    /\ Raised(cur)
    /\ UNCHANGED <<disk, archive, nextId, launches, crashes, adds>>

\* end_session: current_session is already None when unlink raises.
ReleaseFails ==
    /\ pc = "release" /\ Faulty
    /\ Raised(NoSession)
    /\ UNCHANGED <<disk, archive, nextId, launches, crashes, adds>>

Next ==
    \/ Launch \/ Add \/ End \/ Archive \/ Release \/ Crash \/ TornCrash
    \/ StartSaveFails \/ AddSaveFails \/ EndSaveFails \/ ArchiveFails \/ ReleaseFails

Spec == Init /\ [][Next]_vars

-----------------------------------------------------------------------------

TypeOK ==
    /\ cur = NoSession \/ IsSession(cur)
    /\ disk \in {NoFile, Torn} \/ IsSession(disk)
    /\ DOMAIN archive \subseteq Ids
    /\ \A i \in DOMAIN archive : archive[i] = Torn \/ IsSession(archive[i])
    /\ nextId \in Nat
    /\ pc \in {"down", "running", "archive", "release"}

\* A session id i has been handed out once i < nextId.
Started(i) == i \in Ids /\ i < nextId

DurablyKept(i) ==
    \/ IsSession(disk) /\ disk.id = i
    \/ i \in DOMAIN archive /\ IsSession(archive[i])

\* Every session ever started survives in a readable file: the checkpoint
\* while it is current, its archive copy once it has ended (spec section 3:
\* finalised, then archived, then the working copy deleted).  About
\* start_session overwriting the checkpoint after a restart.
SessionNeverLost == \A i \in Ids : Started(i) => DurablyKept(i)

\* Once a session has an archive copy, it is frozen: the copy is ended, and
\* neither memory nor the checkpoint ever holds a different version of that
\* session.  About start_session resuming only sessions without end_time
\* and end_session's mark-save-archive-release order, including a release
\* whose unlink raises while the process runs on.
ArchivedSessionFrozen ==
    \A i \in DOMAIN archive : IsSession(archive[i]) =>
        /\ archive[i].ended
        /\ IsSession(cur) /\ cur.id = i => cur = archive[i]
        /\ IsSession(disk) /\ disk.id = i => disk = archive[i]

=============================================================================

------------------------------- MODULE Watcher -------------------------------
(***************************************************************************)
(* lib/watcher.py: the file watcher process.                               *)
(*                                                                         *)
(* Two threads share WorkLoggerHandler's pending_changes dict and          *)
(* docs_changed flag without a lock:                                       *)
(*   - the watchdog observer thread dispatches queued file-system events   *)
(*     to _process_event, which filters them, sets docs_changed and        *)
(*     stores pending_changes[path] = {type, time};                        *)
(*   - the main thread runs periodic_flush: sleep(2), then flush_pending,  *)
(*     which iterates the dict, estimates each file and records it through *)
(*     SessionManager.add_file_change, regenerates docs/INDEX.md when      *)
(*     docs_changed is set, and clears the dict.                           *)
(* SIGINT runs signal_handler on the main thread, on top of whatever that  *)
(* thread was doing; it stops the observer, flushes, ends the session and  *)
(* then calls infer_module with two arguments, which raises TypeError.     *)
(* Exceptions travel down the main thread's frames and are caught by the   *)
(* first frame that is inside a try/except Exception; if none catches, the *)
(* process exits.                                                          *)
(*                                                                         *)
(* The main thread is a stack of frames: the periodic_flush loop at the    *)
(* bottom, one frame per signal_handler invocation above it.               *)
(***************************************************************************)
EXTENDS Naturals, FiniteSets, SequencesExt, TLC

CONSTANTS
    Paths, ChangeTypes, Deltas, Ids, NoSession, NoFile, Torn,
    DocsPaths,     \* paths with the prefix "docs/"
    IndexPath,     \* "docs/INDEX.md", written by update_docs_index
    CheckpointPath, \* data/current_session.json, written on every save
    StorageWatched, \* the data directory lies inside the watched tree
    IgnoredPaths,  \* paths for which should_ignore holds
    NoEvent,       \* no event / no item
    MaxEdits,      \* bound on file-system events caused by the user
    MaxSignals,    \* bound on SIGINTs
    MaxCrashes,    \* bound on kills of the process
    MaxLaunches    \* bound on process starts

ASSUME /\ DocsPaths \subseteq Paths /\ IndexPath \in DocsPaths
       /\ IgnoredPaths \subseteq Paths /\ 0 \in Deltas
       /\ CheckpointPath \notin Paths /\ StorageWatched \in BOOLEAN

VARIABLES
    cur, disk, archive, nextId,  \* the SessionManager (see SessionManager)
    proc,         \* "up" while the watcher process runs, else "down"
    fsq,          \* events queued by the OS for the observer thread
    obs,          \* observer thread: "running" or "stopped"
    obsEv,        \* event between the docs_changed write and the dict store
    pending,      \* pending_changes, in insertion order: <<[path, type]>>
    docsChanged,  \* docs_changed
    stack,        \* main thread frames, bottom first
    edits, signals, crashes, launches,
    unread,       \* ghost: paths stored since a flush last estimated them
    recorded,     \* ghost: paths accumulated since the last clear
    atStop        \* ghost: paths pending when the observer was stopped

smVars == <<cur, disk, archive, nextId>>
envVars == <<edits, signals, crashes, launches>>
ghostVars == <<unread, recorded, atStop>>
vars == <<smVars, proc, fsq, obs, obsEv, pending, docsChanged, stack,
          envVars, ghostVars>>

SM == INSTANCE SessionManager WITH Paths <- Paths \cup {CheckpointPath}

Event == [path: Paths \cup {CheckpointPath}, type: ChangeTypes]

Frame == [kind: {"timer", "handler"},
          pc: {"sleep", "check", "next", "add", "docs", "regen",
               "docsReset", "clear", "stop", "end", "archive",
               "release", "note", "infer"},
          pos: Nat, size: Nat, item: Event \cup {NoEvent}]

TimerFrame == [kind |-> "timer", pc |-> "sleep", pos |-> 0, size |-> 0,
               item |-> NoEvent]

HandlerFrame == [TimerFrame EXCEPT !.kind = "handler", !.pc = "stop"]

PendingPaths == {pending[i].path : i \in DOMAIN pending}

\* Mutant of DictSet: a list append instead of a keyed store.
DictSet_append(d, p, t) == Append(d, [path |-> p, type |-> t])

\* pending_changes[path] = {...}: a new key goes to the end, an existing key
\* keeps its place and takes the new value.
DictSet(d, p, t) ==
    IF \E i \in DOMAIN d : d[i].path = p
    THEN [d EXCEPT ![CHOOSE i \in DOMAIN d : d[i].path = p] =
                       [path |-> p, type |-> t]]
    ELSE Append(d, [path |-> p, type |-> t])

\* Mutant of Accepted: the docs/INDEX.md skip left out.
Accepted_noIndexSkip(p) == p \notin IgnoredPaths

\* should_ignore, and the explicit skip of the generated index.
Accepted(p) == p \notin IgnoredPaths /\ p # IndexPath

-----------------------------------------------------------------------------
(* Exceptions on the main thread.  The only places inside a try that       *)
(* catches Exception are the per-file body of flush_pending (whose         *)
(* parse_git_diff turns the exception into (0, 0) and lets the file be     *)
(* recorded), the update_docs_index call (after which docs_changed is      *)
(* reset) and signal_handler's read of the work note.                      *)

Catches(f) == f.pc \in {"add", "regen", "note"}

\* Where a frame goes on after its except clause: an exception in the
\* per-file body arrives before add_file_change (the file is skipped) or
\* inside get_file_info (recorded with (0, 0)); the others go on after
\* their try statement.
Caught(f) ==
    CASE f.pc = "add"   -> {f, [f EXCEPT !.pc = "next", !.item = NoEvent]}
      [] f.pc = "regen" -> {[f EXCEPT !.pc = "docsReset"]}
      [] f.pc = "note"  -> {[f EXCEPT !.pc = "infer"]}

\* The stacks the main thread can be left with when its top frame raises:
\* the frames above the innermost catching one are popped.
RECURSIVE Unwind(_)
Unwind(stk) ==
    IF stk = <<>> THEN {<<>>}
    ELSE IF Catches(Last(stk))
         THEN {[stk EXCEPT ![Len(stk)] = g] : g \in Caught(Last(stk))}
         ELSE Unwind(Front(stk))

\* The process ends (uncaught exception, sys.exit or a kill): the daemon
\* observer thread dies with it and everything in memory is gone.
Exit ==
    /\ proc' = "down" /\ stack' = <<>> /\ cur' = NoSession
    /\ fsq' = <<>> /\ obs' = "stopped" /\ obsEv' = NoEvent
    /\ pending' = <<>> /\ docsChanged' = FALSE

\* Raise an exception in the top frame of the main thread.
Raise ==
    IF Unwind(stack) = {<<>>}
    THEN Exit
    ELSE /\ stack' \in Unwind(stack)
         /\ UNCHANGED <<proc, cur, fsq, obs, obsEv, pending, docsChanged>>

Top == stack[Len(stack)]

SetTop(f) == stack' = [stack EXCEPT ![Len(stack)] = f]

\* Where flush_pending returns to: periodic_flush sleeps again,
\* signal_handler goes on to end_session.
Return(f) == IF f.kind = "timer" THEN "sleep" ELSE "end"

MainAt(pcs) == proc = "up" /\ stack # <<>> /\ Top.pc \in pcs

-----------------------------------------------------------------------------
(* Environment: the user edits files, presses Ctrl+C, the process is       *)
(* killed, the watcher is started again.                                   *)

\* The OS queues an event for an edited file while the observer watches.
Edit ==
    /\ proc = "up" /\ obs = "running"
    /\ edits < MaxEdits
    /\ \E p \in Paths, t \in ChangeTypes :
          fsq' = Append(fsq, [path |-> p, type |-> t])
    /\ edits' = edits + 1
    /\ UNCHANGED <<smVars, proc, obs, obsEv, pending, docsChanged, stack,
                   signals, crashes, launches, ghostVars>>

\* SIGINT: Python runs signal_handler on the main thread at its next
\* bytecode, on top of the frame it interrupts.
Signal ==
    /\ proc = "up" /\ stack # <<>>
    /\ signals < MaxSignals
    /\ stack' = Append(stack, HandlerFrame)
    /\ signals' = signals + 1
    /\ UNCHANGED <<smVars, proc, fsq, obs, obsEv, pending, docsChanged,
                   edits, crashes, launches, ghostVars>>

\* The process is killed: memory and queued events are gone, files stay.
Crash ==
    /\ proc = "up"
    /\ crashes < MaxCrashes
    /\ Exit
    /\ crashes' = crashes + 1
    /\ UNCHANGED <<disk, archive, nextId, edits, signals, launches,
                   ghostVars>>

\* WorkLoggerHandler.__init__: pending_changes empty, docs_changed unset.
NewHandler == pending' = <<>> /\ docsChanged' = FALSE

\* main(): SessionManager() loads the checkpoint, start_session resumes or
\* replaces it, the index is regenerated before the observer is scheduled
\* (so that write raises no event), then the observer and the flush loop
\* start with a fresh handler.
Launch ==
    /\ proc = "down"
    /\ launches < MaxLaunches
    /\ SM!StartFrom(SM!Loaded)
    /\ proc' = "up"
    /\ fsq' = <<>> /\ obs' = "running" /\ obsEv' = NoEvent
    /\ NewHandler
    /\ stack' = <<TimerFrame>>
    /\ launches' = launches + 1
    /\ unread' = {} /\ recorded' = {} /\ atStop' = {}
    /\ UNCHANGED <<edits, signals, crashes>>

-----------------------------------------------------------------------------
(* Observer thread: WorkLoggerHandler._process_event.                      *)

\* Take the next event; drop it if it is ignored or is the index itself;
\* otherwise set docs_changed for a docs path.
ObsDispatch ==
    /\ proc = "up" /\ obs = "running" /\ obsEv = NoEvent
    /\ fsq # <<>>
    /\ fsq' = Tail(fsq)
    /\ LET e == Head(fsq) IN
         IF Accepted(e.path)
         THEN /\ docsChanged' = (docsChanged \/ e.path \in DocsPaths)
              /\ obsEv' = e
         ELSE UNCHANGED <<docsChanged, obsEv>>
    /\ UNCHANGED <<smVars, proc, obs, pending, stack, envVars, ghostVars>>

\* Store the event in pending_changes (the dict assignment is atomic).
ObsStore ==
    /\ proc = "up" /\ obsEv # NoEvent
    /\ pending' = DictSet(pending, obsEv.path, obsEv.type)
    /\ obsEv' = NoEvent
    /\ unread' = unread \cup {obsEv.path}
    /\ UNCHANGED <<smVars, proc, fsq, obs, docsChanged, stack, envVars,
                   recorded, atStop>>

-----------------------------------------------------------------------------
(* Main thread, periodic_flush: sleep(2), then the `> 1` test, which holds *)
(* whenever the previous flush took less than a second to return.          *)

TimerWake ==
    /\ MainAt({"sleep"})
    /\ SetTop([Top EXCEPT !.pc = "check"])
    /\ UNCHANGED <<smVars, proc, fsq, obs, obsEv, pending, docsChanged,
                   envVars, ghostVars>>

(* flush_pending, on either kind of frame.                                 *)

\* Return at once if the dict is empty; otherwise start iterating items().
FlushCheck ==
    /\ MainAt({"check"})
    /\ SetTop(IF pending = <<>>
              THEN [Top EXCEPT !.pc = Return(Top)]
              ELSE [Top EXCEPT !.pc = "next", !.pos = 1,
                               !.size = Len(pending)])
    /\ UNCHANGED <<smVars, proc, fsq, obs, obsEv, pending, docsChanged,
                   envVars, ghostVars>>

\* The for loop's next(): RuntimeError if the dict changed size since the
\* iteration started; the end of the loop; or the next item's current value.
FlushNext ==
    /\ MainAt({"next"})
    /\ IF Len(pending) # Top.size
       THEN /\ Raise
            /\ UNCHANGED <<disk, archive, nextId, envVars, ghostVars>>
       ELSE /\ IF Top.pos > Len(pending)
               THEN SetTop([Top EXCEPT !.pc = "docs"])
               ELSE SetTop([Top EXCEPT !.pc = "add", !.item = pending[Top.pos],
                                       !.pos = @ + 1])
            /\ UNCHANGED <<smVars, proc, fsq, obs, obsEv, pending,
                           docsChanged, envVars, ghostVars>>

\* The file event of _save_current_session's write, when the observer
\* watches the data directory: created if the file did not exist.
SaveEvent ==
    IF StorageWatched /\ obs = "running"
    THEN Append(fsq, [path |-> CheckpointPath,
                      type |-> IF disk = NoFile THEN "created" ELSE "modified"])
    ELSE fsq

\* get_file_info (git diff, or (0, 0) on failure) and add_file_change,
\* whose save the observer may see.
FlushAdd ==
    /\ MainAt({"add"})
    /\ \E a, r \in Deltas :
          SM!AddFileChange(Top.item.path, Top.item.type, a, r)
    /\ fsq' = SaveEvent
    /\ SetTop([Top EXCEPT !.pc = "next", !.item = NoEvent])
    /\ recorded' = recorded \cup {Top.item.path}
    /\ atStop' = atStop \ {Top.item.path}
    /\ unread' = unread \ {Top.item.path}
    /\ UNCHANGED <<proc, obs, obsEv, pending, docsChanged, envVars>>

FlushDocs ==
    /\ MainAt({"docs"})
    /\ SetTop([Top EXCEPT !.pc = IF docsChanged THEN "regen" ELSE "clear"])
    /\ UNCHANGED <<smVars, proc, fsq, obs, obsEv, pending, docsChanged,
                   envVars, ghostVars>>

\* update_docs_index rewrites docs/INDEX.md unless the rendering (which
\* carries a timestamp to the second) is unchanged; a write is an event.
FlushRegen ==
    /\ MainAt({"regen"})
    /\ \E written \in BOOLEAN :
          fsq' = IF written /\ obs = "running"
                 THEN Append(fsq, [path |-> IndexPath, type |-> "modified"])
                 ELSE fsq
    /\ SetTop([Top EXCEPT !.pc = "docsReset"])
    /\ UNCHANGED <<smVars, proc, obs, obsEv, pending, docsChanged, envVars,
                   ghostVars>>

FlushDocsReset ==
    /\ MainAt({"docsReset"})
    /\ docsChanged' = FALSE
    /\ SetTop([Top EXCEPT !.pc = "clear"])
    /\ UNCHANGED <<smVars, proc, fsq, obs, obsEv, pending, envVars,
                   ghostVars>>

\* pending_changes.clear(); last_update = time.time(); return.
FlushClear ==
    /\ MainAt({"clear"})
    /\ pending' = <<>>
    /\ recorded' = {}
    /\ SetTop([Top EXCEPT !.pc = Return(Top)])
    /\ UNCHANGED <<smVars, proc, fsq, obs, obsEv, docsChanged, envVars,
                   unread, atStop>>

-----------------------------------------------------------------------------
(* Main thread, signal_handler.                                            *)

\* Mutant of HandlerStop: observer.stop() without observer.join().
HandlerStop_noJoin ==
    /\ MainAt({"stop"})
    /\ obs' = "stopped"
    /\ fsq' = <<>>
    /\ atStop' = PendingPaths \cup {e.path : e \in {obsEv} \ {NoEvent}}
    /\ SetTop([Top EXCEPT !.pc = "check"])
    /\ UNCHANGED <<smVars, proc, obsEv, pending, docsChanged, envVars,
                   unread, recorded>>

\* observer.stop(); observer.join(): the dispatch in progress completes,
\* events still queued are never dispatched.
HandlerStop ==
    /\ MainAt({"stop"})
    /\ obsEv = NoEvent
    /\ obs' = "stopped"
    /\ fsq' = <<>>
    /\ atStop' = PendingPaths \cup {e.path : e \in {obsEv} \ {NoEvent}}
    /\ SetTop([Top EXCEPT !.pc = "check"])
    /\ UNCHANGED <<smVars, proc, obsEv, pending, docsChanged, envVars,
                   unread, recorded>>

\* end_session: with no current session it returns None and the handler
\* calls sys.exit(0); otherwise set end_time and save.
HandlerEnd ==
    /\ MainAt({"end"})
    /\ IF cur = NoSession
       THEN /\ Exit
            /\ UNCHANGED <<disk, archive, nextId>>
       ELSE /\ SM!EndMark
            /\ SetTop([Top EXCEPT !.pc = "archive"])
            /\ UNCHANGED <<proc, fsq, obs, obsEv, pending, docsChanged>>
    /\ UNCHANGED <<envVars, ghostVars>>

HandlerArchive ==
    /\ MainAt({"archive"})
    /\ SM!EndArchive
    /\ SetTop([Top EXCEPT !.pc = "release"])
    /\ UNCHANGED <<proc, fsq, obs, obsEv, pending, docsChanged, envVars,
                   ghostVars>>

HandlerRelease ==
    /\ MainAt({"release"})
    /\ SM!EndRelease
    /\ SetTop([Top EXCEPT !.pc = "note"])
    /\ UNCHANGED <<proc, fsq, obs, obsEv, pending, docsChanged, envVars,
                   unread, recorded, atStop>>

\* The work note (data/work_note_input.json), when it exists, is read and
\* unlinked inside a try that catches Exception; its content is not
\* modelled, so the step only moves on.  An exception raised into this
\* frame by a nested handler is caught here (see Caught).
HandlerNote ==
    /\ MainAt({"note"})
    /\ SetTop([Top EXCEPT !.pc = "infer"])
    /\ UNCHANGED <<smVars, proc, fsq, obs, obsEv, pending, docsChanged,
                   envVars, ghostVars>>

\* infer_module(completed.file_changes, completed.session_id): the function
\* takes one parameter, so the call raises TypeError out of the handler.
HandlerInfer ==
    /\ MainAt({"infer"})
    /\ Raise
    /\ UNCHANGED <<disk, archive, nextId, envVars, ghostVars>>

-----------------------------------------------------------------------------

Init ==
    /\ SM!SMInit
    /\ proc = "down"
    /\ fsq = <<>> /\ obs = "stopped" /\ obsEv = NoEvent
    /\ pending = <<>> /\ docsChanged = FALSE /\ stack = <<>>
    /\ edits = 0 /\ signals = 0 /\ crashes = 0 /\ launches = 0
    /\ unread = {} /\ recorded = {} /\ atStop = {}

Observer == ObsDispatch \/ ObsStore

MainThread ==
    \/ TimerWake \/ FlushCheck \/ FlushNext \/ FlushAdd \/ FlushDocs
    \/ FlushRegen \/ FlushDocsReset \/ FlushClear
    \/ HandlerStop \/ HandlerEnd \/ HandlerArchive \/ HandlerRelease
    \/ HandlerNote \/ HandlerInfer

Environment == Edit \/ Signal \/ Crash \/ Launch

Next == Observer \/ MainThread \/ Environment

\* The observer thread and the main thread are never starved by the
\* scheduler (the GIL is released at least every switch interval); the
\* user, the signals and the restarts owe nothing.
Spec == Init /\ [][Next]_vars /\ WF_vars(Observer) /\ WF_vars(MainThread)

-----------------------------------------------------------------------------
(* Properties.                                                             *)

UniqueKeys(d) == \A i, j \in DOMAIN d : d[i].path = d[j].path => i = j

TypeOK ==
    /\ cur = NoSession \/ SM!IsSession(cur)
    /\ disk = NoFile \/ SM!IsSession(disk)
    /\ DOMAIN archive \subseteq Ids
    /\ \A i \in DOMAIN archive : SM!IsSession(archive[i])
    /\ proc \in {"up", "down"}
    /\ fsq \in Seq(Event)
    /\ obs \in {"running", "stopped"}
    /\ obsEv \in Event \cup {NoEvent}
    /\ pending \in Seq(Event) /\ UniqueKeys(pending)
    /\ docsChanged \in BOOLEAN
    /\ stack \in Seq(Frame)

\* The step in which a stop handler sets end_time on an open session.
Finalizing ==
    /\ MainAt({"end"}) /\ Top.kind = "handler"
    /\ SM!Active(cur) /\ SM!IsSession(cur') /\ cur'.ended

\* Spec section 5: every change the observer had taken in when Draining
\* began (stored in pending_changes, or being stored while observer.join
\* waits) is accumulated into the session before end_session sets
\* end_time.  About signal_handler's stop/join, flush, end_session order.
DrainBeforeFinalize == [][Finalizing => atStop = {}]_vars

\* With a bounded number of edits, the watcher eventually stays quiet: no
\* event queued or half-dispatched and nothing pending, unless the process
\* has exited.  About the generated docs/INDEX.md: its rewrite is an event,
\* and only _process_event's filter keeps it from starting the next flush.
Quiet == pending = <<>> /\ fsq = <<>> /\ obsEv = NoEvent
EventuallyQuiet == <>[](proc = "down" \/ Quiet)

\* Spec section 4.4: the pending buffer is cleared only after the drain has
\* read every entry in it; an entry stored (or overwritten) after the flush
\* read it must not be discarded.  About the unlocked pending_changes
\* shared by _process_event and flush_pending's clear().
NoEntryClearedUnread ==
    [][proc' = "up" /\ pending # <<>> /\ pending' = <<>> =>
         PendingPaths \cap unread = {}]_vars

\* Spec section 8: a burst of events for a file within one flush window is
\* accumulated into the session once, not once per event or per flush
\* call.  About flush_pending re-entered by signal_handler while the
\* periodic flush is iterating the same dict.
CoalescedOnce == [][~(FlushAdd /\ Top.item.path \in recorded)]_vars

\* After Ctrl+C the process eventually exits.  About the TypeError out of
\* signal_handler being caught by the try around update_docs_index when
\* the signal lands during the index regeneration.
HasHandler == proc = "up" /\ \E i \in DOMAIN stack : stack[i].kind = "handler"
StopExits == HasHandler ~> proc = "down"

\* The watcher process stops only when asked to: by a Ctrl+C being handled
\* or by a kill.  About flush_pending's for loop over pending_changes.items()
\* outside any try, which raises RuntimeError when the observer adds a key
\* while the loop runs.
ExitsOnlyOnRequest ==
    [][proc = "up" /\ proc' = "down" => HasHandler \/ crashes' = crashes + 1]_vars

=============================================================================

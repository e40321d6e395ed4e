--------------------------- MODULE PushTransaction ---------------------------
(***************************************************************************)
(* One project's update ("push"), its abort, and its recovery, over the    *)
(* files on disk: the word list, the application dictionaries, the journal *)
(* and the snapshot directories.  A command runs between taking and        *)
(* releasing the project lock, so at most one runs at a time: pc # "idle"  *)
(* is "the lock is held".  Previews are made without the lock, while other *)
(* programs edit the files, and are used later.                            *)
(*                                                                         *)
(* Every persisted step of execute_prepared_push, of the rollback that     *)
(* follows a failure and of the recovery service is an action of its own,  *)
(* with the failures the code handles; the process may die between any     *)
(* two of them.                                                            *)
(***************************************************************************)
EXTENDS PushJournal, FiniteSets

CONSTANTS
    NoPlan, NoPreview,  \* nothing prepared, nothing previewed
    NoTx,               \* no transaction is running
    Initial,            \* what the files may hold at first
    Rendered,           \* what the word list may render to
    EditValues,         \* what other programs may leave at a path
    BenignEdits,        \* other programs avoid the unguarded windows
    TornCopies,         \* a rollback copy may stop half-way
    LateFsync,          \* a journal write may fail after it became visible
    MaxEdits, MaxFaults, MaxCrashes, MaxCommits  \* bounds of a behaviour

ASSUME EnvironmentAssumption ==
    /\ Initial \subseteq Content \cup {None} /\ Rendered \subseteq Content
    /\ EditValues \subseteq Values
    /\ BenignEdits \in BOOLEAN /\ TornCopies \in BOOLEAN /\ LateFsync \in BOOLEAN
    /\ MaxEdits \in Nat /\ MaxFaults \in Nat /\ MaxCrashes \in Nat /\ MaxCommits \in Nat
    /\ NoTx \notin TxIds

VARIABLES
    disk,      \* content of every file
    journal,   \* .spell-sync.journal.json
    dirs,      \* transactions that have a directory in .spell-sync.txn/
    snap,      \* the snapshots in each directory
    pc,        \* where the running command is
    plan,      \* PreparedPush, as far as it is made: fingerprints, rendered content
    preview,   \* RecoveryPreview: the journal shown and the action offered
    tx,        \* the transaction the command works on
    work,      \* the command's own copy of the journal
    cur,       \* the file the command is working on
    todo,      \* files the current phase has yet to treat
    undo,      \* files whose write_state left NOT_STARTED
    bad,       \* files whose rollback or restore did not succeed
    edits, faults, crashes,  \* how much of each bound is spent
    commits,       \* pushes that reached COMPLETED        (auxiliary)
    uncommitted    \* files left with bytes that are neither their pre-image
                   \* nor those of a committed push (auxiliary)

stored  == <<journal, dirs, snap>>
command == <<tx, work, cur, todo, undo, bad>>
counts  == <<edits, faults, crashes>>
ghosts  == <<commits, uncommitted>>
vars == <<disk, stored, pc, plan, preview, command, counts, ghosts>>

PushPhases == {"begin", "journal_begin", "late_check", "mark_wordlist", "write",
               "verify", "targets", "complete", "rollback", "copying",
               "mark_incomplete", "unlink", "discard"}
RecoverPhases == {"restore", "replace", "cleanup", "cleanup_snapshots", "forget"}

\* from: the list the words were read from; read: the fingerprints, of which the
\* list's is None when there was nothing to hash.
Plans == [stage : {"words", "targets", "rewrite", "ready"},
          targets : SUBSET Dicts, read : [Files -> Hashes],
          from : Content, words : Content, rewrite : BOOLEAN]
Previews == [journal : Journals,
             action : {"recover", "discard_inert", "discard_corrupt", "cleanup"}]

NoSnapshots == [f \in Files |-> None]

Init ==
    /\ disk \in [Files -> Initial] /\ disk[Wordlist] # None
    /\ journal = NoJournal /\ dirs = {} /\ snap = [t \in TxIds |-> NoSnapshots]
    /\ pc = "idle" /\ plan = NoPlan /\ preview = NoPreview
    /\ tx = NoTx /\ work = NoJournal /\ cur = Wordlist
    /\ todo = {} /\ undo = {} /\ bad = {}
    /\ edits = 0 /\ faults = 0 /\ crashes = 0
    /\ commits = 0 /\ uncommitted = {}

-----------------------------------------------------------------------------
(* Steps shared by the phases.                                              *)

Fault == faults < MaxFaults /\ faults' = faults + 1

\* _atomic_write_journal: temporary file, fsync, rename, directory fsync.
\* Only the last can fail with the new journal already in place.
Persist(j)     == journal' = j /\ UNCHANGED <<dirs, snap, faults>>
FailPersist(j) == /\ Fault
                  /\ journal' = journal \/ (LateFsync /\ journal' = j)
                  /\ UNCHANGED <<dirs, snap>>

Release == /\ pc' = "idle" /\ tx' = NoTx /\ work' = NoJournal /\ cur' = Wordlist
           /\ todo' = {} /\ undo' = {} /\ bad' = {}
EndPush    == Release /\ plan' = NoPlan /\ UNCHANGED preview
EndRecover == Release /\ preview' = NoPreview /\ UNCHANGED plan

\* remove_trusted_tree deletes the snapshots one by one and then the
\* directory; when it stops early some of them stay behind.
RemoveSnapshots(t) ==
    \/ /\ dirs' = dirs \ {t} /\ snap' = [snap EXCEPT ![t] = NoSnapshots]
       /\ UNCHANGED <<journal, faults>>
    \/ /\ Fault
       /\ \E kept \in SUBSET Files :
             snap' = [snap EXCEPT ![t] =
                        [f \in Files |-> IF f \in kept THEN @[f] ELSE None]]
       /\ UNCHANGED <<journal, dirs>>

UnlinkJournal == journal' = NoJournal /\ UNCHANGED <<dirs, snap, faults>>

\* The running command leaves v at f.
Leave(f, v) ==
    /\ disk' = [disk EXCEPT ![f] = v]
    /\ uncommitted' = IF v = work.before[f] THEN uncommitted \ {f}
                                            ELSE uncommitted \cup {f}

First(S) == CHOOSE f \in S : \A g \in S : f <= g

Status == LoadStatus(journal, dirs, snap)

-----------------------------------------------------------------------------
(* The world outside: other programs, and the death of the process.         *)

\* The content goes back to one that a fingerprint, a hash or a snapshot refers
\* to; deleting a file does so only when the plan saw it missing.
Remembered(f, v) ==
    \/ plan # NoPlan /\ v = plan.read[f] /\ (v # None \/ f \in plan.targets)
    \/ /\ v # None
       /\ \/ plan # NoPlan /\ v = plan.words
          \/ work # NoJournal /\ v \in {work.before[f], work.after[f]}
          \/ journal # NoJournal /\ v \in {journal.before[f], journal.after[f]}
          \/ \E t \in dirs : v = snap[t][f]

\* Changes a command does not notice: of a file it no longer looks at before it
\* writes, and the removal of a file whose write it announced, on disk or in a
\* record that could not be written.
Unguarded(f, v) ==
    \/ pc \in {"write", "verify", "copying", "replace"} /\ f = cur
    \/ pc = "mark_wordlist" /\ f = Wordlist
    \/ /\ pc \in {"journal_begin", "late_check"} /\ f = Wordlist
       /\ plan.rewrite /\ plan.read[Wordlist] = None
    \/ pc \in PushPhases \ {"unlink", "discard"} /\ f \in undo
    \/ /\ v = None /\ pc # "idle"
       /\ \E j \in {journal, work} \ {NoJournal} : j.started[f]

Edit(f, v) ==
    /\ edits < MaxEdits /\ v # disk[f]
    /\ BenignEdits => ~Unguarded(f, v) /\ ~Remembered(f, v)
    /\ disk' = [disk EXCEPT ![f] = v]
    /\ edits' = edits + 1
    /\ uncommitted' = uncommitted \ {f}
    /\ UNCHANGED <<stored, pc, plan, preview, command, faults, crashes, commits>>

Crash ==
    /\ pc # "idle" /\ crashes < MaxCrashes
    /\ pc = "copying" => TornCopies
    /\ crashes' = crashes + 1
    /\ IF pc \in PushPhases THEN EndPush ELSE EndRecover
    /\ UNCHANGED <<disk, stored, edits, faults, ghosts>>

-----------------------------------------------------------------------------
(* Preparing and starting a push.                                           *)

\* A plan is made without the lock, in four looks at the files between which
\* other programs edit them.  prepare_push_operation: the list has to be a
\* readable file, and its words are read.
ReadWords ==
    /\ pc \notin PushPhases /\ plan = NoPlan /\ disk[Wordlist] \in Content
    /\ commits < MaxCommits
    /\ \E words \in Rendered :
         plan' = [stage |-> "words", targets |-> {}, read |-> NoSnapshots,
                  from |-> disk[Wordlist], words |-> words, rewrite |-> FALSE]
    /\ UNCHANGED <<disk, stored, pc, preview, command, counts, ghosts>>

\* setup_push: every readable dictionary the user did not deselect.
ReadTargets ==
    /\ pc \notin PushPhases /\ plan # NoPlan /\ plan.stage = "words"
    /\ \E targets \in SUBSET {d \in Dicts : disk[d] # Unreadable} :
         plan' = [plan EXCEPT !.stage = "targets", !.targets = targets,
                    !.read = [f \in Files |-> IF f \in targets THEN disk[f] ELSE None]]
    /\ UNCHANGED <<disk, stored, pc, preview, command, counts, ghosts>>

\* wordlist_needs_rewrite: a list that is gone or cannot be read has to be
\* written; otherwise its words, now, are compared with those read before.
PlanRewrite ==
    /\ pc \notin PushPhases /\ plan # NoPlan /\ plan.stage = "targets"
    /\ \E rewrite \in BOOLEAN :
         /\ disk[Wordlist] \in {None, Unreadable} => rewrite
         /\ plan' = [plan EXCEPT !.stage = "rewrite", !.rewrite = rewrite]
    /\ UNCHANGED <<disk, stored, pc, preview, command, counts, ghosts>>

\* PreparedPush.wordlist_hash: None when the list is gone or cannot be read.
HashList ==
    /\ pc \notin PushPhases /\ plan # NoPlan /\ plan.stage = "rewrite"
    /\ plan' = [plan EXCEPT !.stage = "ready", !.read[Wordlist] = Hash(disk[Wordlist])]
    /\ UNCHANGED <<disk, stored, pc, preview, command, counts, ghosts>>

\* A look at the files; the push itself does not run.
PlanStep == ReadWords \/ ReadTargets \/ PlanRewrite \/ HashList

\* plan_fingerprint_conflict: without a hash the list is not compared.
PlanConflict(p, d) ==
    \/ p.read[Wordlist] # None /\ Hash(d[Wordlist]) # p.read[Wordlist]
    \/ \E f \in p.targets : d[f] # p.read[f]

\* Entry of execute_push_preview and of execute_prepared_push: journal guard,
\* then the fingerprints.  The identifier is new.
StartPush ==
    /\ pc = "idle" /\ plan # NoPlan /\ plan.stage = "ready" /\ ~BlocksMutation(Status)
    /\ IF PlanConflict(plan, disk)
       THEN EndPush
       ELSE /\ \E t \in TxIds \ dirs :
                  /\ journal # NoJournal => t # journal.tx
                  /\ preview # NoPreview => t # preview.journal.tx
                  /\ tx' = t
            /\ pc' = "begin"
            /\ UNCHANGED <<plan, preview, work, cur, todo, undo, bad>>
    /\ UNCHANGED <<disk, stored, counts, ghosts>>

\* _recovery_snapshot: of a file that exists and can be read (lost: the copies
\* that failed).
Saved(source, lost) == {f \in source \ lost : disk[f] \notin {None, Unreadable}}

\* PushTransaction.begin: a directory of its own, and the snapshots in it.
TakeSnapshots(saved) ==
    /\ dirs' = dirs \cup {tx}
    /\ snap' = [snap EXCEPT ![tx] = [f \in Files |-> IF f \in saved THEN disk[f] ELSE None]]

\* The snapshots, then prepare_writable_dictionaries: the targets that need none
\* or have one and are writable (locked: those that are not).
\* Returning early here leaves the snapshots behind.
BeginTransaction ==
    /\ pc = "begin"
    /\ \E lost, locked \in SUBSET (plan.targets \cup {Wordlist}), strict \in BOOLEAN :
       LET source  == plan.targets \cup {Wordlist}
           existed == [f \in Files |-> f \in source /\ disk[f] # None]
           saved   == Saved(source, lost)
           backed  == {f \in source : existed[f] => f \in saved}
           ready   == (backed \ locked) \ {Wordlist}
           stop    == \/ Wordlist \notin backed
                      \/ plan.targets # {} /\ backed \ {Wordlist} = {}
                      \/ strict /\ ready # plan.targets
       IN  /\ IF lost = {} THEN UNCHANGED faults ELSE Fault
           /\ TakeSnapshots(saved)
           /\ IF stop
              THEN EndPush
              ELSE /\ work' = [tx |-> tx, state |-> "writing",
                               listed |-> ready \cup {Wordlist}, existed |-> existed,
                               before |-> NoSnapshots, after |-> NoSnapshots,
                               started |-> [f \in Files |-> FALSE],
                               completed |-> [f \in Files |-> FALSE]]
                   /\ pc' = "journal_begin"
                   /\ UNCHANGED <<plan, preview, tx, cur, todo, undo, bad>>
    /\ UNCHANGED <<disk, journal, edits, crashes, ghosts>>

\* The transaction directory could not be created.
FailBegin ==
    /\ pc = "begin" /\ Fault /\ EndPush
    /\ UNCHANGED <<disk, stored, edits, crashes, ghosts>>

\* PushJournalSession.begin hashes the files as they are now.
JournalBegin ==
    /\ pc = "journal_begin"
    /\ LET j == [work EXCEPT !.before =
                   [f \in Files |-> IF f \in work.listed THEN Hash(disk[f]) ELSE None]]
       IN  \/ Persist(j) /\ work' = j /\ pc' = "late_check"
           \/ FailPersist(j) /\ work' = work /\ pc' = "discard"
    /\ UNCHANGED <<disk, plan, preview, tx, cur, todo, undo, bad, edits, crashes, ghosts>>

-----------------------------------------------------------------------------
(* Writing.                                                                 *)

\* Mutants of RollBack: files that were not written are "restored" as well; the
\* word list is forgotten.
RollBackEverything(u) ==
    /\ pc' = "rollback" /\ todo' = work.listed /\ undo' = u /\ bad' = {}
    /\ UNCHANGED <<plan, preview, tx, cur>>

RollBackDictionaries(u) ==
    /\ pc' = "rollback" /\ todo' = u \ {Wordlist} /\ undo' = u /\ bad' = {}
    /\ UNCHANGED <<plan, preview, tx, cur>>

\* handle_failed_push_rollback of the files in u.
RollBack(u) ==
    /\ pc' = "rollback" /\ todo' = u /\ undo' = u /\ bad' = {}
    /\ UNCHANGED <<plan, preview, tx, cur>>

\* The second look at every fingerprint, now that the journal is on disk.
LateCheck ==
    /\ pc = "late_check"
    /\ \/ PlanConflict(plan, disk) /\ RollBack(undo)
       \/ /\ ~PlanConflict(plan, disk)
          /\ pc' = IF plan.rewrite THEN "mark_wordlist" ELSE "targets"
          /\ todo' = work.listed \ {Wordlist}
          /\ UNCHANGED <<plan, preview, tx, cur, undo, bad>>
    /\ UNCHANGED <<disk, stored, work, counts, ghosts>>

\* Mutant of Marked: the hash to come is not recorded.
MarkedWithoutHash(j, f) == [j EXCEPT !.started[f] = TRUE]

\* mark_wordlist_write_started and mark_write_started: the intent and the
\* hash to come are on disk before the file is touched.
Marked(j, f) == [j EXCEPT !.started[f] = TRUE, !.completed[f] = FALSE,
                          !.after[f] = plan.words]

\* Mutant of MarkStarted: the intent is not persisted before the write.
MarkStartedInMemory(f) ==
    /\ work' = Marked(work, f) /\ pc' = "write" /\ cur' = f /\ todo' = todo \ {f}
    /\ UNCHANGED <<stored, faults, plan, preview, tx, undo, bad>>

MarkStarted(f) ==
    /\ work' = Marked(work, f)
    /\ \/ /\ Persist(work') /\ pc' = "write" /\ cur' = f /\ todo' = todo \ {f}
          /\ UNCHANGED <<plan, preview, tx, undo, bad>>
       \/ FailPersist(work') /\ RollBack(undo)

MarkWordlist ==
    /\ pc = "mark_wordlist" /\ MarkStarted(Wordlist)
    /\ UNCHANGED <<disk, edits, crashes, ghosts>>

\* The applications found running just before the write are skipped.
SkipRunning ==
    /\ pc = "targets" /\ todo # {} /\ todo' = todo \ {First(todo)}
    /\ UNCHANGED <<disk, stored, pc, plan, preview, tx, work, cur, undo, bad, counts, ghosts>>

\* Mutant of TargetConflict: the check before each write is missing.
NeverConflict(f) == FALSE

\* fingerprint_conflict of one dictionary against the plan.
TargetConflict(f) == disk[f] # plan.read[f]

NextTarget ==
    /\ pc = "targets" /\ todo # {}
    /\ LET f == First(todo)
       IN  \/ /\ TargetConflict(f) /\ RollBack(undo)
              /\ UNCHANGED <<stored, work, faults>>
           \/ ~TargetConflict(f) /\ MarkStarted(f)
    /\ UNCHANGED <<disk, edits, crashes, ghosts>>

\* tx.mark_write_started and write_rendered's atomic_write: temporary file,
\* fsync, rename.
WriteFile ==
    /\ pc = "write"
    /\ \/ /\ Leave(cur, plan.words)
          /\ undo' = undo \cup {cur} /\ pc' = "verify"
          /\ UNCHANGED <<plan, preview, tx, cur, todo, bad, faults>>
       \/ Fault /\ RollBack(undo \cup {cur}) /\ UNCHANGED <<disk, uncommitted>>
    /\ UNCHANGED <<stored, work, edits, crashes, commits>>

\* The hash of what was written, then mark_wordlist_write_completed or
\* mark_target_written.
VerifyFile ==
    /\ pc = "verify"
    /\ IF Hash(disk[cur]) # plan.words
       THEN RollBack(undo) /\ UNCHANGED <<stored, work, faults>>
       ELSE /\ work' = [work EXCEPT !.completed[cur] = TRUE]
            /\ \/ /\ Persist(work') /\ pc' = "targets"
                  /\ UNCHANGED <<plan, preview, tx, cur, todo, undo, bad>>
               \/ FailPersist(work') /\ RollBack(undo)
    /\ UNCHANGED <<disk, edits, crashes, ghosts>>

\* PushJournalSession.complete: the update is decided once COMPLETED is on disk.
Complete ==
    /\ pc = "targets" /\ todo = {}
    /\ work' = [work EXCEPT !.state = "completed"]
    /\ \/ /\ Persist(work') /\ pc' = "unlink"
          /\ commits' = commits + 1 /\ uncommitted' = {}
          /\ UNCHANGED <<plan, preview, tx, cur, todo, undo, bad>>
       \/ FailPersist(work') /\ RollBack(undo) /\ UNCHANGED ghosts
    /\ UNCHANGED <<disk, edits, crashes>>

\* Removing the journal after COMPLETED and after a complete rollback: a
\* failure is only a warning and the snapshots are removed all the same.
UnlinkIgnoringErrors ==
    /\ pc = "unlink" /\ pc' = "discard"
    /\ UnlinkJournal \/ (Fault /\ UNCHANGED stored)
    /\ UNCHANGED <<disk, plan, preview, command, edits, crashes, ghosts>>

DiscardSnapshots ==
    /\ pc = "discard" /\ RemoveSnapshots(tx) /\ EndPush
    /\ UNCHANGED <<disk, edits, crashes, ghosts>>

-----------------------------------------------------------------------------
(* Abort: dictionaries in order, then the word list.                        *)

NextUndo == IF todo \cap Dicts # {} THEN First(todo \cap Dicts) ELSE Wordlist

\* Mutant of RolledBack: the file stays on the list.
RolledBackAgain(f) ==
    /\ pc' = "rollback"
    /\ UNCHANGED <<stored, plan, preview, tx, work, cur, todo, undo, edits, crashes, commits>>

\* The file was rolled back, or it could not be.
RolledBack(f) ==
    /\ pc' = "rollback" /\ todo' = todo \ {f}
    /\ UNCHANGED <<stored, plan, preview, tx, work, cur, undo, edits, crashes, commits>>

\* A file the push created is removed.
RemoveCreated(f) ==
    /\ ~work.existed[f]
    /\ RolledBack(f)
    /\ \/ /\ disk' = [disk EXCEPT ![f] = None]
          /\ uncommitted' = uncommitted \ {f} /\ UNCHANGED <<bad, faults>>
       \/ /\ disk[f] # None /\ Fault /\ bad' = bad \cup {f}
          /\ UNCHANGED <<disk, uncommitted>>

\* shutil.copy2 opens the target for writing, which empties it, and only then
\* copies the snapshot: CopyBack is the rest.
OpenForCopy(f) ==
    /\ work.existed[f]
    /\ \/ /\ Leave(f, Torn)
          /\ pc' = "copying" /\ cur' = f
          /\ UNCHANGED <<stored, plan, preview, tx, work, todo, undo, bad, counts, commits>>
       \/ /\ Fault /\ bad' = bad \cup {f} /\ RolledBack(f)
          /\ UNCHANGED <<disk, uncommitted>>

RollbackFile ==
    /\ pc = "rollback" /\ todo # {}
    /\ RemoveCreated(NextUndo) \/ OpenForCopy(NextUndo)

CopyBack ==
    /\ pc = "copying" /\ RolledBack(cur)
    /\ \/ /\ disk' = [disk EXCEPT ![cur] = snap[tx][cur]]
          /\ uncommitted' = uncommitted \ {cur} /\ UNCHANGED <<bad, faults>>
       \/ /\ TornCopies /\ Fault /\ bad' = bad \cup {cur}
          /\ UNCHANGED <<disk, uncommitted>>

\* Everything restored: the journal and the snapshots go.  Otherwise both are
\* kept and the state of the journal says so.
EndRollback ==
    /\ pc = "rollback" /\ todo = {}
    /\ pc' = IF bad = {} THEN "unlink" ELSE "mark_incomplete"
    /\ UNCHANGED <<disk, stored, plan, preview, command, counts, ghosts>>

MarkIncomplete ==
    /\ pc = "mark_incomplete" /\ EndPush
    /\ LET j == [work EXCEPT !.state = "rollback_incomplete"]
       IN  Persist(j) \/ FailPersist(j)
    /\ UNCHANGED <<disk, edits, crashes, ghosts>>

-----------------------------------------------------------------------------
(* Recovery.                                                                *)

\* inspect_recovery, without the lock.
Inspect ==
    /\ pc = "idle" /\ preview = NoPreview
    /\ LET action == RecoveryAction(journal, disk, dirs, snap)
       IN  /\ action # "none"
           /\ preview' = [journal |-> journal, action |-> action]
    /\ UNCHANGED <<disk, stored, pc, plan, command, counts, ghosts>>

\* What the recovery service tests again under the lock: the journal is still
\* the one that was shown (content_digest), and of the kind that was shown.
SameJournal == journal = preview.journal

\* execute_recovery_cleanup
MayCleanUp == SameJournal /\ Status = "completed"

\* execute_recovery_discard, of records that no write was started for.
MayDiscard == /\ SameJournal /\ Status = "in_progress"
              /\ \A f \in journal.listed : ~journal.started[f]

StillAsShown ==
    CASE preview.action = "recover"         -> SameJournal /\ Status = "in_progress"
      [] preview.action = "discard_inert"   -> MayDiscard
      [] preview.action = "discard_corrupt" -> SameJournal /\ Status = "corrupt"
      [] preview.action = "cleanup"         -> MayCleanUp

\* execute_recovery, execute_recovery_cleanup and execute_recovery_discard.
StartRecovery ==
    /\ pc = "idle" /\ preview # NoPreview
    /\ IF ~StillAsShown
       THEN EndRecover
       ELSE /\ tx' = journal.tx /\ work' = journal
            /\ pc' = CASE preview.action = "recover"         -> "restore"
                       [] preview.action = "discard_corrupt" -> "forget"
                       [] OTHER                              -> "cleanup"
            /\ todo' = IF preview.action = "recover" THEN journal.listed ELSE {}
            /\ UNCHANGED <<plan, preview, cur, undo, bad>>
    /\ UNCHANGED <<disk, stored, counts, ghosts>>

\* restore_one of recover_from_journal up to the decision: the word list first,
\* then the dictionaries.
CheckFile ==
    /\ pc = "restore" /\ todo # {}
    /\ LET f      == First(todo)
           status == RestoreStatus(work, f, disk[f], snap[tx][f])
       IN  /\ todo' = todo \ {f}
           /\ bad' = IF status \in {"failed", "conflict"} THEN bad \cup {f} ELSE bad
           /\ IF status = "ready" THEN pc' = "replace" /\ cur' = f
                                  ELSE UNCHANGED <<pc, cur>>
    /\ UNCHANGED <<disk, stored, plan, preview, tx, work, undo, counts, ghosts>>

\* ... and the change itself: os.replace with a copy of the snapshot, or unlink
\* of a file the push created, which fails when the file is gone by now.
ReplaceFile ==
    /\ pc = "replace" /\ pc' = "restore"
    /\ \/ /\ work.existed[cur] \/ disk[cur] # None
          /\ disk' = [disk EXCEPT ![cur] =
                        IF work.existed[cur] THEN snap[tx][cur] ELSE None]
          /\ uncommitted' = uncommitted \ {cur}
          /\ UNCHANGED <<bad, faults>>
       \/ /\ IF work.existed[cur] \/ disk[cur] # None THEN Fault ELSE UNCHANGED faults
          /\ bad' = bad \cup {cur} /\ UNCHANGED <<disk, uncommitted>>
    /\ UNCHANGED <<stored, plan, preview, tx, work, cur, todo, undo, edits, crashes, commits>>

\* Mutant of EndRestore: failures do not keep the journal.
EndRestoreAlwaysCleans ==
    /\ pc = "restore" /\ todo = {} /\ pc' = "cleanup"
    /\ UNCHANGED <<command, plan, preview, disk, stored, counts, ghosts>>

\* With a failure or a conflict the journal and the snapshots stay.
EndRestore ==
    /\ pc = "restore" /\ todo = {}
    /\ IF bad = {} THEN pc' = "cleanup" /\ UNCHANGED <<command, plan, preview>>
                   ELSE EndRecover
    /\ UNCHANGED <<disk, stored, counts, ghosts>>

\* cleanup_after_successful_recovery and discard_completed_journal: the journal
\* first, and the snapshots only when it is gone.
CleanupJournal ==
    /\ pc = "cleanup"
    /\ \/ UnlinkJournal /\ pc' = "cleanup_snapshots" /\ UNCHANGED <<command, plan, preview>>
       \/ Fault /\ EndRecover /\ UNCHANGED stored
    /\ UNCHANGED <<disk, edits, crashes, ghosts>>

CleanupSnapshots ==
    /\ pc = "cleanup_snapshots" /\ EndRecover
    /\ IF tx \in dirs THEN RemoveSnapshots(tx) ELSE UNCHANGED <<stored, faults>>
    /\ UNCHANGED <<disk, edits, crashes, ghosts>>

\* --discard-corrupt-journal removes the journal file alone.  The user gives up
\* what it protected.
ForgetJournal ==
    /\ pc = "forget" /\ EndRecover
    /\ \/ UnlinkJournal /\ uncommitted' = {}
       \/ Fault /\ UNCHANGED <<stored, uncommitted>>
    /\ UNCHANGED <<disk, edits, crashes, commits>>

-----------------------------------------------------------------------------

PushStep ==
    \/ BeginTransaction \/ FailBegin \/ JournalBegin \/ LateCheck
    \/ MarkWordlist \/ SkipRunning \/ NextTarget \/ WriteFile \/ VerifyFile
    \/ Complete \/ RollbackFile \/ CopyBack \/ EndRollback \/ MarkIncomplete
    \/ UnlinkIgnoringErrors \/ DiscardSnapshots

RecoverStep ==
    \/ CheckFile \/ ReplaceFile \/ EndRestore
    \/ CleanupJournal \/ CleanupSnapshots \/ ForgetJournal

\* The running command takes a step.
CommandStep == PushStep \/ RecoverStep

Next ==
    \/ PlanStep \/ StartPush \/ Inspect \/ StartRecovery
    \/ CommandStep
    \/ \E f \in Files, v \in EditValues : Edit(f, v)
    \/ Crash

Spec == Init /\ [][Next]_vars

\* A running command is a sequential program that never waits for another one.
FairSpec == Spec /\ WF_vars(CommandStep)

-----------------------------------------------------------------------------
(* Properties.                                                              *)

\* Every variable has its type.
TypeOK ==
    /\ disk \in [Files -> Values]
    /\ journal \in Journals \cup {NoJournal}
    /\ dirs \subseteq TxIds /\ snap \in [TxIds -> [Files -> Hashes]]
    /\ pc \in {"idle"} \cup PushPhases \cup RecoverPhases
    /\ plan \in Plans \cup {NoPlan} /\ preview \in Previews \cup {NoPreview}
    /\ tx \in TxIds \cup {NoTx} /\ work \in Journals \cup {NoJournal}
    /\ cur \in Files /\ todo \subseteq Files /\ undo \subseteq Files /\ bad \subseteq Files
    /\ edits \in Nat /\ faults \in Nat /\ crashes \in Nat
    /\ commits \in Nat /\ uncommitted \subseteq Files

\* Write-ahead: a file that holds uncommitted bytes of a push is listed by the
\* journal on disk as started, with the hash of those bytes, and - if it existed
\* before - its snapshot is still there.  So at every moment a crash leaves what
\* recovery needs, whatever failed and whoever edited files meanwhile.
WriteAhead ==
    \A f \in uncommitted :
        /\ journal # NoJournal /\ f \in journal.listed /\ journal.started[f]
        /\ disk[f] \in {journal.after[f], Torn}
        /\ journal.existed[f] => journal.tx \in dirs /\ snap[journal.tx][f] # None

\* No silent partial update: while some file holds uncommitted bytes, every
\* command but recover refuses to start (mutation_scope's journal guard).
NoSilentPartial == uncommitted # {} => BlocksMutation(Status)

\* A command changes a file only after the journal on disk says that it may:
\* skipped and failed applications keep their files ("Apps that were skipped or
\* failed keep their previous files", docs/TROUBLESHOOTING.md).
JournaledWritesOnly ==
    [][\A f \in Files : disk'[f] # disk[f] /\ edits' = edits =>
          journal # NoJournal /\ f \in journal.listed /\ journal.started[f]]_vars

\* Every command ends and gives the project lock back.
CommandsEnd == pc # "idle" ~> pc = "idle"

\* The content a file has for good: what recovery would give back while the
\* journal of an unfinished push covers it, what is on disk otherwise.
Covered(f) ==
    /\ Status = "in_progress" /\ f \in journal.listed /\ journal.started[f]
    /\ disk[f] \in {journal.after[f], None} \/ (pc = "copying" /\ cur = f)

BeforePush(f) == IF journal.existed[f] THEN journal.before[f] ELSE None

Effective == [f \in Files |-> IF Covered(f) THEN BeforePush(f) ELSE disk[f]]

Abstract == INSTANCE AtomicUpdate WITH
    content <- Effective, Words <- Rendered

\* An update is all or nothing: through failures, aborts, crashes and repeated
\* recoveries, the effective content of the files changes only by an edit of
\* another program or, at once for all written files, when COMPLETED is on disk.
IsAtomicUpdate == Abstract!Spec

\* What the plan made of a file is based on this.
BasedOn(p, f) == IF f = Wordlist THEN p.from ELSE p.read[f]

\* No lost update: a push overwrites a file only while it still holds what the
\* plan is based on ("changed after plan (fingerprint conflict)"), although the
\* plan is made without the lock and other programs edit the files all along.
\* What the code does not promise: the list may have changed between the reading
\* of its words and that of its hash, and then what was hashed is overwritten;
\* and a list that was gone when it should have been hashed is not looked at
\* again, whatever is there by the time of the write.
NoLostUpdate ==
    [][pc = "write" /\ disk' # disk /\ edits' = edits
          => \/ disk[cur] = BasedOn(plan, cur)
             \/ /\ cur = Wordlist /\ plan.read[cur] # plan.from
                /\ plan.read[cur] \in {disk[cur], None}]_vars

\* A conflict is what another program did: without an edit, no crash, failure or
\* abort leaves a file that recovery refuses to touch because it "changed outside
\* spell-sync".
ConflictsAreExternal ==
    pc = "idle" /\ edits = 0 /\ Status = "in_progress"
    => ItemsWith("conflict", journal, disk, snap) = {}

\* A journal that says COMPLETED belongs to a finished push ("completed | Push
\* finished", docs/RECOVERY.md), once no command is running.
CompletedMeansFinished ==
    pc = "idle" /\ Status = "completed" => uncommitted = {}

\* A journal of this program is never rejected as corrupt: the journal is
\* removed before the snapshots it needs ("so a failed journal unlink cannot
\* leave a journal that requires already-deleted snapshots (false corrupt)",
\* cleanup_after_successful_recovery).
NeverFalseCorrupt == Status # "corrupt"

\* A file created by an interrupted push and still as the push left it is
\* removed by recovery ("Created-during-transaction file still matching
\* hash_after -> remove it", docs/RECOVERY.md), so recovery is offered whenever
\* nothing stands against it.
CreatedFilesRecoverable ==
    /\ pc = "idle" /\ Status = "in_progress"
    /\ ItemsWith("ready", journal, disk, snap) # {}
    /\ ItemsWith("ready", journal, disk, snap)
         \cup ItemsWith("skipped", journal, disk, snap) = journal.listed
    => RecoveryAction(journal, disk, dirs, snap) = "recover"

\* A journal whose every item is "skipped" can be discarded, or the project
\* would stay blocked ("without discard the dashboard stays permanently
\* blocked", build_recovery_preview).
QuietJournalReleasable ==
    /\ pc = "idle" /\ Status = "in_progress"
    /\ ItemsWith("skipped", journal, disk, snap) = journal.listed
    => RecoveryAction(journal, disk, dirs, snap) # "none"
=============================================================================

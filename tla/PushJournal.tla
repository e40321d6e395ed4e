----------------------------- MODULE PushJournal -----------------------------
(***************************************************************************)
(* The transaction journal of an update ("push") and what `recover` makes  *)
(* of it: the record kept in .spell-sync.journal.json, how it is judged    *)
(* when it is loaded together with the snapshot directory it names, the    *)
(* action planned for every file it lists, and the recovery the user is    *)
(* offered.  These are functions of the disk alone; the steps that write   *)
(* the journal, the snapshots and the files are in PushTransaction.        *)
(*                                                                         *)
(* File 0 is the word list, files 1..N are the application dictionaries in *)
(* the order the code walks through them.  A file's content is a member of *)
(* Content; a content stands for its SHA-256, so "hash" and content are    *)
(* the same thing here and None is Python's None as well as a missing file.*)
(***************************************************************************)
EXTENDS Integers

CONSTANTS
    N,           \* number of application dictionaries
    Content,     \* the contents a file may have
    None,        \* no such file; also the hash of a file that cannot be read
    Unreadable,  \* the path holds a file the process may not read
    Torn,        \* what is left of a file when a copy onto it stops half-way
    TxIds,       \* transaction identifiers (uuid4)
    NoJournal    \* there is no journal file

Files    == 0 .. N
Wordlist == 0
Dicts    == 1 .. N

Hashes == Content \cup {None, Torn}
Values == Hashes \cup {Unreadable}

ASSUME ValuesAssumption ==
    /\ N \in Nat
    /\ None # Unreadable /\ None # Torn /\ Unreadable # Torn
    /\ None \notin Content /\ Unreadable \notin Content /\ Torn \notin Content

\* Mutant of Hash: an unreadable file is not told from the others.
HashOfAnything(v) == v

\* file_content_hash: None for a missing file and for one that cannot be read.
Hash(v) == IF v = Unreadable THEN None ELSE v

Journals ==
    [ tx        : TxIds,
      state     : {"writing", "completed", "rollback_incomplete"},
      listed    : SUBSET Files,           \* the word list and the writable targets
      existed   : [Files -> BOOLEAN],     \* existed_before; then it has a snapshot
      before    : [Files -> Hashes],      \* hash_before
      after     : [Files -> Hashes],      \* hash_after
      started   : [Files -> BOOLEAN],     \* write_started
      completed : [Files -> BOOLEAN] ]    \* write_completed

ASSUME NoJournalAssumption == NoJournal \notin Journals

-----------------------------------------------------------------------------
(* Loading.  A snapshot directory is a function from files to the content   *)
(* of their snapshot, None where there is no snapshot; dirs are the         *)
(* transactions whose directory is on disk.                                 *)

\* A write that is recorded as finished was recorded as started, with the hash to
\* come; a write onto a file that existed, with the hash of what it held.
WellFormed(j) ==
    \A f \in j.listed :
        /\ j.completed[f] => j.started[f] /\ j.after[f] # None
        /\ j.started[f] /\ j.existed[f] => j.before[f] # None

\* The directory and every snapshot are there, and the snapshot of a file whose
\* write started is the recorded pre-image.
SnapshotsIntact(j, dirs, snap) ==
    /\ j.tx \in dirs
    /\ \A f \in j.listed :
          j.existed[f] =>
             /\ snap[j.tx][f] # None
             /\ j.started[f] => snap[j.tx][f] = j.before[f]

\* A completed journal no longer needs its snapshots.
LoadStatus(j, dirs, snap) ==
    IF j = NoJournal THEN "absent"
    ELSE IF ~WellFormed(j) THEN "corrupt"
    ELSE IF j.state = "completed" THEN "completed"
    ELSE IF SnapshotsIntact(j, dirs, snap) THEN "in_progress"
    ELSE "corrupt"

\* Every command that changes files, except recover, refuses to start.
BlocksMutation(status) == status \notin {"absent", "completed"}

-----------------------------------------------------------------------------
(* Planning the recovery of one file, and of all of them.                   *)

\* Mutant of ItemStatus: whatever differs from the pre-image is put back.
ItemStatusWithoutConflict(j, f, v, s) ==
    IF ~j.started[f] \/ Hash(v) = (IF j.existed[f] THEN j.before[f] ELSE None)
    THEN "skipped" ELSE "ready"

\* v is what the path holds now, s the content of the file's snapshot.
ItemStatus(j, f, v, s) ==
    CASE ~j.started[f]                                   -> "skipped"
      [] j.started[f] /\ ~j.existed[f] ->
            IF v = None THEN "skipped"
            ELSE IF Hash(v) = j.after[f] THEN "ready" ELSE "conflict"
      [] j.started[f] /\ j.existed[f] ->
            IF s = None \/ s # j.before[f] THEN "failed"
            ELSE IF Hash(v) = j.before[f] THEN "skipped"
            ELSE IF v = None \/ Hash(v) = j.after[f] THEN "ready"
            ELSE "conflict"

\* recover_from_journal decides as the plan does, but a file that exists and
\* cannot be read is a failure there where the plan reports a conflict.
RestoreStatus(j, f, v, s) ==
    IF j.started[f] /\ j.existed[f] /\ v = Unreadable
    THEN "failed"
    ELSE ItemStatus(j, f, v, s)

ItemsWith(status, j, disk, snap) ==
    {f \in j.listed : ItemStatus(j, f, disk[f], snap[j.tx][f]) = status}

\* snapshot_valid of a planned item.  It is never true of a file the
\* transaction created: such a file has no snapshot.
SnapshotValid(j, f, snap) ==
    /\ j.existed[f]
    /\ snap[j.tx][f] # None
    /\ snap[j.tx][f] = j.before[f]

CanRecover(j, disk, snap) ==
    LET ready == ItemsWith("ready", j, disk, snap)
    IN  /\ ready # {}
        /\ \A f \in ready : SnapshotValid(j, f, snap)
        /\ ItemsWith("failed", j, disk, snap) = {}

\* inert_unfinished: nothing was written, the journal is only a leftover.
Inert(j, disk, snap) ==
    /\ j.state = "writing"
    /\ ItemsWith("skipped", j, disk, snap) = j.listed
    /\ \A f \in j.listed : ~j.started[f]

\* What the recovery preview offers (RecoveryPreview.can_recover, can_discard
\* and can_cleanup, in the order `recover` tests them).
RecoveryAction(j, disk, dirs, snap) ==
    LET status == LoadStatus(j, dirs, snap)
    IN  CASE status = "absent"    -> "none"
          [] status = "completed" -> "cleanup"
          [] status = "corrupt"   -> "discard_corrupt"
          [] status = "in_progress" ->
                IF Inert(j, disk, snap) THEN "discard_inert"
                ELSE IF CanRecover(j, disk, snap) THEN "recover"
                ELSE "none"
=============================================================================

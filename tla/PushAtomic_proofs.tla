--------------------------- MODULE PushAtomic_proofs ---------------------------
(***************************************************************************)
(* An update is all or nothing, overwrites nothing it did not read, and     *)
(* leaves no conflict of its own making: proofs about PushTransaction for   *)
(* any number of dictionaries, any contents and any bounds.                 *)
(***************************************************************************)
EXTENDS PushTransaction_proofs

(* The inductive invariant: what is at each path, phase by phase.           *)

\* What the file held before the push, as recorded.
Pre(j, f) == IF j.existed[f] THEN j.before[f] ELSE None

\* Another program changed the file, to nothing that the record knows.
Foreign(j, f) == edits # 0 /\ disk[f] \notin {j.after[f], None}

\* Nothing of the push is left at f, so that the record of f may go.
SettledFile(j, f) == j.started[f] => disk[f] = Pre(j, f) \/ Foreign(j, f)

Settled ==
    journal # NoJournal /\ journal.state # "completed"
    => \A f \in journal.listed : SettledFile(journal, f)

\* The record would be accepted when it is loaded.
Intact(j) == WellFormed(j) /\ SnapshotsIntact(j, dirs, snap)

\* A file of the plan.
Planned(f) == f = Wordlist \/ f \in plan.targets

\* The file would still be written: it holds what the plan read, or it is the
\* list, has to be written and has no hash in the plan.
Due(f) == IF f = Wordlist /\ plan.read[f] = None THEN plan.rewrite ELSE disk[f] = plan.read[f]

\* Then the snapshot and the record hold what is there.
Snapped(f) ==
    Due(f) =>
       /\ work.existed[f] <=> disk[f] # None
       /\ work.existed[f] => snap[tx][f] = disk[f]

Hashed(f) == Due(f) => work.before[f] = disk[f]

\* The write of the file may be still to come.
Ahead(f) == ~work.started[f] /\ (f = Wordlist => pc \in {"late_check", "mark_wordlist"})

PlanInv ==
    /\ plan # NoPlan => plan \in Plans /\ plan.words \in Rendered
    /\ pc \in PushPhases => plan # NoPlan

ClearInv == pc \in {"begin", "journal_begin"} => ~BlocksMutation(Status)

SnappedInv ==
    pc = "journal_begin" =>
       /\ tx \in dirs
       /\ \A f \in work.listed : Planned(f) /\ Snapped(f) /\ ~work.completed[f]

WrittenInv ==
    pc \in Writing =>
       /\ Intact(work)
       /\ \A f \in work.listed :
             /\ Planned(f)
             /\ Ahead(f) => Snapped(f) /\ Hashed(f)
             /\ work.started[f] => f \in undo \/ (pc = "write" /\ f = cur)
       /\ \A f \in undo : disk[f] = plan.words
       /\ pc # "late_check" => Wordlist \notin todo /\ \A f \in todo : ~work.started[f]
       /\ pc = "late_check" => \A f \in work.listed : ~work.started[f]
       /\ pc = "mark_wordlist" => ~work.started[Wordlist] /\ Due(Wordlist)
       /\ pc = "write" => Due(cur) /\ disk[cur] = Pre(work, cur)

UndoneInv ==
    pc \in RollingBack =>
       /\ Intact(work) /\ Intact(journal)
       /\ \A f \in journal.listed : journal.started[f] => f \in undo
       /\ \A f \in undo : \/ disk[f] = Pre(work, f)
                          \/ f \in todo \cup bad /\ disk[f] = work.after[f]
                          \/ pc = "copying" /\ f = cur
       /\ \A f \in work.listed \ undo : SettledFile(work, f)
       /\ pc = "copying" => work.existed[cur]

\* The files that a recovery has yet to deal with, or could not.
Pending == todo \cup bad \cup (IF pc = "replace" THEN {cur} ELSE {})

RestoredInv ==
    /\ pc \in {"restore", "replace"} =>
          /\ Status = "in_progress"
          /\ \A f \in journal.listed \ Pending : SettledFile(journal, f)
    /\ pc = "replace" => disk[cur] \in {journal.after[cur], None}
    /\ pc = "forget" => Status = "corrupt"

SettledInv ==
    /\ pc \in {"unlink", "discard", "cleanup"} => Settled
    /\ pc = "cleanup_snapshots" => journal = NoJournal

\* As long as nobody edits, a file holds what the journal knows of it.
KnownInv ==
    edits = 0 /\ journal # NoJournal /\ journal.state # "completed"
    => \A f \in journal.listed :
          journal.started[f] => \/ disk[f] \in {journal.after[f], Pre(journal, f)}
                                \/ pc = "copying" /\ f = cur

AtomicInv ==
    /\ PlanInv /\ ClearInv /\ SnappedInv /\ WrittenInv /\ UndoneInv /\ RestoredInv
    /\ SettledInv /\ KnownInv
-----------------------------------------------------------------------------
(* Loading.                                                                 *)

\* Loading a record that is intact and unfinished.
LEMMA IntactStatus ==
    ASSUME journal # NoJournal, journal.state # "completed"
    PROVE  Status = "in_progress" <=> Intact(journal)
BY DEF Status, LoadStatus, Intact

\* A project that is not blocked has no journal or a completed one, whatever
\* directories there are.
LEMMA NotBlocked ==
    /\ ~BlocksMutation(Status) <=> \/ journal = NoJournal
                                   \/ WellFormed(journal) /\ journal.state = "completed"
    /\ Status = "in_progress" <=> /\ journal # NoJournal /\ journal.state # "completed"
                                  /\ Intact(journal)
BY DEF Status, LoadStatus, BlocksMutation, Intact

LEMMA ClearStays ==
    ASSUME ~BlocksMutation(Status), UNCHANGED journal
    PROVE  ~BlocksMutation(Status)'
BY NotBlocked DEF Status, LoadStatus, BlocksMutation

\* A hash of the plan is not the mark of an unreadable file.
LEMMA HashOfHash == \A v \in Hashes : Hash(v) = v
BY ValuesAssumption DEF Hash, Hashes

\* The plan is replaced by a new one only between commands.
LEMMA PlanNext ==
    ASSUME IInv, TypeInv', PlanInv, [Next]_vars
    PROVE  PlanInv'
<1>1. CASE PlanStep
  <2>1. plan'.words \in Rendered
    <3>1. CASE ReadWords
      BY <3>1 DEF ReadWords
    <3>2. CASE ReadTargets \/ PlanRewrite \/ HashList
      <4>1. plan \in Plans /\ plan.words \in Rendered
        BY <3>2 DEF ReadTargets, PlanRewrite, HashList, PlanInv
      <4>2. plan'.words = plan.words
        <5>1. CASE ReadTargets
          BY <4>1, <5>1 DEF ReadTargets, Plans
        <5>2. CASE PlanRewrite
          BY <4>1, <5>2 DEF PlanRewrite, Plans
        <5>3. CASE HashList
          BY <4>1, <5>3 DEF HashList, Plans
        <5> QED
          BY <3>2, <5>1, <5>2, <5>3
      <4> QED
        BY <4>1, <4>2
    <3> QED
      BY <1>1, <3>1, <3>2 DEF PlanStep
  <2>2. plan' \in Plans /\ pc' \notin PushPhases
    BY <1>1, PlanStepFacts DEF IInv
  <2> QED
    BY <2>1, <2>2 DEF PlanInv
<1>2. CASE UNCHANGED plan /\ (pc' \in PushPhases => pc \in PushPhases \/ plan # NoPlan)
  BY <1>2 DEF PlanInv
<1>3. CASE EndPush
  BY <1>3 DEF PlanInv, EndPush, Release, PushPhases
<1>4. CASE \E f \in Files, v \in EditValues : Edit(f, v)
  BY <1>2, <1>4 DEF Edit
<1>5. CASE PushStep
  BY <1>2, <1>3, <1>5 DEF PushStep, BeginTransaction, FailBegin, JournalBegin, LateCheck,
     MarkWordlist, SkipRunning, NextTarget, WriteFile, VerifyFile, Complete, RollbackFile,
     CopyBack, EndRollback, MarkIncomplete, UnlinkIgnoringErrors, DiscardSnapshots,
     MarkStarted, RollBack, RemoveCreated, OpenForCopy, RolledBack, PushPhases
<1>6. CASE RecoverStep
  BY <1>2, <1>6 DEF RecoverStep, CheckFile, ReplaceFile, EndRestore, CleanupJournal,
     CleanupSnapshots, ForgetJournal, EndRecover, Release, PushPhases
<1>7. CASE StartPush \/ Inspect \/ StartRecovery \/ Crash
  BY <1>2, <1>3, <1>7 DEF StartPush, Inspect, StartRecovery, Crash, EndPush, EndRecover, Release,
     PushPhases
<1>8. CASE UNCHANGED vars
  BY <1>2, <1>8 DEF vars
<1> QED
  BY <1>1, <1>4, <1>5, <1>6, <1>7, <1>8 DEF Next, CommandStep

-----------------------------------------------------------------------------
(* The inductive invariant: one lemma per step.  TornCopies = FALSE: a copy *)
(* onto a file that was opened for it is finished.                          *)


\* Between commands only the plan and what the journal knows are left to say.
LEMMA AtomicIdle ==
    ASSUME pc' = "idle", PlanInv', KnownInv'
    PROVE  AtomicInv'
BY DEF AtomicInv, ClearInv, SnappedInv, WrittenInv, UndoneInv, RestoredInv, SettledInv,
   Writing, RollingBack

\* The files and the journal stay as they are, and no copy is under way.
LEMMA KnownStays ==
    ASSUME AtomicInv, UNCHANGED <<journal, disk>>, pc # "copying", edits' = 0 => edits = 0
    PROVE  KnownInv'
BY DEF AtomicInv, KnownInv, Pre

LEMMA AtomicStart ==
    ASSUME IInv, AtomicInv, PlanInv', StartPush \/ Inspect \/ FailBegin
    PROVE  AtomicInv'
<1>1. KnownInv'
  BY KnownStays DEF StartPush, Inspect, FailBegin, stored, counts
<1>2. CASE pc' = "idle"
  BY <1>1, <1>2, AtomicIdle
<1>3. CASE StartPush /\ pc' = "begin"
  <2>1. ~BlocksMutation(Status)'
    BY <1>3, ClearStays DEF StartPush, stored
  <2> QED
    BY <1>1, <1>3, <2>1 DEF AtomicInv, ClearInv, SnappedInv, WrittenInv, UndoneInv, RestoredInv,
       SettledInv, Writing, RollingBack
<1> QED
  BY <1>2, <1>3 DEF StartPush, Inspect, FailBegin, EndPush, Release

\* Nothing that is said of a recovery mentions the plan.
LEMMA AtomicPlanStep ==
    ASSUME IInv, AtomicInv, PlanInv', PlanStep
    PROVE  AtomicInv'
<1>1. pc \notin PushPhases /\ UNCHANGED <<disk, journal, dirs, snap, pc, tx, work, cur, todo, bad, edits>>
  BY PlanStepFacts DEF IInv, stored, command, counts
<1>2. KnownInv'
  BY <1>1, KnownStays DEF PushPhases
<1>3. RestoredInv' /\ SettledInv'
  BY <1>1 DEF AtomicInv, RestoredInv, SettledInv, Settled, SettledFile, Foreign, Pre, Pending,
     Status, PushPhases
<1>4. ClearInv' /\ SnappedInv' /\ WrittenInv' /\ UndoneInv'
  BY <1>1 DEF ClearInv, SnappedInv, WrittenInv, UndoneInv, Writing, RollingBack, PushPhases
<1> QED
  BY <1>2, <1>3, <1>4 DEF AtomicInv

LEMMA AtomicCrash ==
    ASSUME TornCopies = FALSE, AtomicInv, PlanInv', Crash
    PROVE  AtomicInv'
BY KnownStays, AtomicIdle DEF Crash, EndPush, EndRecover, Release, stored

LEMMA AtomicBeginTransaction ==
    ASSUME IInv, TypeInv', AtomicInv, PlanInv', BeginTransaction
    PROVE  AtomicInv'
<1>1. KnownInv'
  BY KnownStays DEF BeginTransaction
<1>2. CASE EndPush
  BY <1>1, <1>2, AtomicIdle DEF EndPush, Release
<1>3. CASE pc' = "journal_begin"
  <2> DEFINE source == plan.targets \cup {Wordlist}
             existed == [f \in Files |-> f \in source /\ disk[f] # None]
             saved(lost) == {f \in source \ lost : disk[f] \notin {None, Unreadable}}
             backed(lost) == {f \in source : existed[f] => f \in saved(lost)}
             kept(lost) == [f \in Files |-> IF f \in saved(lost) THEN disk[f] ELSE None]
  <2>1. PICK lost \in SUBSET source, locked \in SUBSET source :
           /\ dirs' = dirs \cup {tx} /\ snap' = [snap EXCEPT ![tx] = kept(lost)]
           /\ Wordlist \in backed(lost)
           /\ work' = [tx |-> tx, state |-> "writing",
                       listed |-> ((backed(lost) \ locked) \ {Wordlist}) \cup {Wordlist},
                       existed |-> existed,
                       before |-> NoSnapshots, after |-> NoSnapshots,
                       started |-> [f \in Files |-> FALSE],
                       completed |-> [f \in Files |-> FALSE]]
           /\ UNCHANGED <<tx, plan>>
    BY <1>3, Zenon DEF BeginTransaction, Saved, TakeSnapshots, EndPush, Release
  <2>2. tx \in TxIds /\ source \subseteq Files
    BY FileTypes DEF BeginTransaction, IInv, TypeInv, Commanded, PushPhases, Plans
  <2>3. tx' \in dirs' /\ UNCHANGED <<disk, journal>>
    BY <2>1 DEF BeginTransaction
  <2>4. ASSUME NEW f \in work'.listed PROVE Planned(f)' /\ Snapped(f)' /\ ~work'.completed[f]
    <3>1. f \in backed(lost) /\ f \in Files
      BY <2>1, <2>2
    <3>2. work'.existed[f] = (disk[f] # None) /\ ~work'.completed[f]
      BY <2>1, <3>1
    <3>3. work'.existed[f] => snap'[tx][f] = disk[f]
      BY <2>1, <2>2, <3>1 DEF IInv, TypeInv, TypeOK
    <3> QED
      BY <2>1, <2>3, <3>1, <3>2, <3>3 DEF Planned, Snapped, Due
  <2>5. SnappedInv'
    BY <2>3, <2>4 DEF SnappedInv
  <2>6. ClearInv'
    BY <2>3, ClearStays DEF BeginTransaction, AtomicInv, ClearInv
  <2> QED
    BY <1>1, <1>3, <2>5, <2>6 DEF AtomicInv, WrittenInv, UndoneInv, RestoredInv, SettledInv,
       Writing, RollingBack
<1> QED
  BY <1>2, <1>3 DEF BeginTransaction

LEMMA AtomicJournalBegin ==
    ASSUME LateFsync = FALSE, IInv, IInv', AtomicInv, PlanInv', JournalBegin
    PROVE  AtomicInv'
<1>1. /\ pc = "journal_begin" /\ undo = {} /\ work \in Journals /\ Protected
      /\ work.state = "writing" /\ \A f \in Files : ~work.started[f]
      /\ work.listed \subseteq Files /\ disk \in [Files -> Values] /\ plan \in Plans
  BY DEF JournalBegin, IInv, QuietInv, BeginInv, TypeInv, TypeOK, Commanded, PushPhases, Journals
<1>2. UNCHANGED <<disk, edits, dirs, snap, plan, tx, undo, todo, cur, bad>>
  BY DEF JournalBegin, Persist, FailPersist
<1>3. CASE pc' = "late_check"
  <2> DEFINE b == [f \in Files |-> IF f \in work.listed THEN Hash(disk[f]) ELSE None]
  <2>1. work' = [work EXCEPT !.before = b] /\ journal' = work'
    BY <1>3 DEF JournalBegin, Persist
  <2>2. /\ work'.tx = work.tx /\ work'.listed = work.listed /\ work'.existed = work.existed
        /\ work'.started = work.started /\ work'.completed = work.completed /\ work'.before = b
    BY <1>1, <2>1 DEF Journals
  <2>3. ASSUME NEW f \in work.listed
        PROVE  Planned(f)' /\ Snapped(f)' /\ Hashed(f)' /\ ~work'.completed[f] /\ ~work'.started[f]
    <3>1. Planned(f) /\ Snapped(f) /\ ~work.completed[f]
      BY <1>1 DEF AtomicInv, SnappedInv
    <3>2. f \in Files /\ (Due(f) => disk[f] \in Hashes)
      <4>1. f \in Files /\ plan.read[f] \in Hashes /\ snap[tx][f] \in Hashes /\ None \in Hashes
        BY <1>1, ValueTypes DEF Plans, JournalBegin, IInv, TypeInv, TypeOK, Commanded, PushPhases
      <4> QED
        BY <3>1, <4>1 DEF Snapped
    <3>3. b[f] = Hash(disk[f])
      BY <3>2
    <3>4. Hashed(f)'
      BY <1>2, <2>2, <3>2, <3>3, HashOfHash DEF Hashed, Due
    <3> HIDE DEF b
    <3> QED
      BY <1>1, <1>2, <2>2, <3>1, <3>2, <3>4 DEF Planned, Snapped, Due
  <2>4. Intact(work)'
    BY <1>1, <1>2, <2>2, <2>3 DEF Intact, WellFormed, SnapshotsIntact, AtomicInv, SnappedInv,
       Protected
  <2> HIDE DEF b
  <2>5. WrittenInv'
    BY <1>1, <1>2, <1>3, <2>2, <2>3, <2>4 DEF WrittenInv
  <2>6. KnownInv'
    BY <2>1, <2>2, <2>3 DEF KnownInv
  <2> QED
    BY <1>3, <2>5, <2>6 DEF AtomicInv, ClearInv, SnappedInv, UndoneInv, RestoredInv, SettledInv,
       RollingBack
<1>4. CASE pc' = "discard"
  <2>1. UNCHANGED journal
    BY <1>4 DEF JournalBegin, FailPersist
  <2>2. KnownInv'
    BY <1>1, <1>2, <2>1, KnownStays
  <2>3. Settled'
    BY <1>1, <2>1, NotBlocked DEF AtomicInv, ClearInv, Settled
  <2> QED
    BY <1>4, <2>2, <2>3 DEF AtomicInv, ClearInv, SnappedInv, WrittenInv, UndoneInv, RestoredInv,
       SettledInv, Writing, RollingBack
<1> QED
  BY <1>3, <1>4 DEF JournalBegin

\* What is known while the files are written.
LEMMA WrittenFacts ==
    ASSUME IInv, AtomicInv, pc \in Writing
    PROVE  /\ journal = work /\ work \in Journals /\ journal # NoJournal /\ work.state = "writing"
           /\ work.listed \subseteq Files /\ undo \subseteq Files /\ plan \in Plans
           /\ plan.words \in Content /\ work.tx = tx /\ undo \subseteq work.listed
           /\ \A f \in undo : work.started[f] /\ work.after[f] = plan.words
           /\ \A f \in work.listed : work.started[f] => work.after[f] \in Content
           /\ \A f \in work.listed : f \in Files /\ work.before[f] \in Hashes
           /\ Intact(work) /\ Intact(journal) /\ WrittenInv
<1>1. WrittenInv /\ Intact(work)
  BY DEF AtomicInv, WrittenInv
<1>2. work \in Journals
  BY WritingFacts
<1>3. work.listed \subseteq Files /\ \A f \in work.listed : work.before[f] \in Hashes
  BY <1>2 DEF Journals
<1>4. undo \subseteq Files
  BY DEF IInv, TypeInv, TypeOK
<1> QED
  BY <1>1, <1>2, <1>3, <1>4, WritingFacts DEF Protected, Recorded

\* A failure sends the push into the rollback of the files in u.
LEMMA AtomicEnterRollback ==
    ASSUME IInv, IInv', AtomicInv, PlanInv', pc \in Writing, NEW u, RollBack(u),
           UNCHANGED <<journal, dirs, snap, disk, edits>>,
           u \subseteq work.listed, undo \subseteq u, pc = "write" => cur \in u,
           work'.tx = work.tx, work'.listed = work.listed, work'.existed = work.existed,
           work'.before = work.before, Intact(work)',
           \A f \in u : work'.after[f] = plan.words,
           \A f \in u \ undo : disk[f] = Pre(work, f),
           \A f \in work.listed : work'.started[f] => \/ work.started[f]
                                                      \/ disk[f] = Pre(work, f)
    PROVE  AtomicInv'
<1>1. pc' = "rollback" /\ todo' = u /\ undo' = u
  BY DEF RollBack
<1>2. KnownInv'
  BY KnownStays DEF Writing
<1>3. Intact(journal)'
  BY WrittenFacts DEF Intact
<1>4. \A f \in work.listed : work.started[f] => f \in u
  BY WrittenFacts DEF WrittenInv
<1>5. \A f \in u : disk'[f] = Pre(work, f)' \/ disk'[f] = work'.after[f]
  <2>1. \A f \in undo : disk[f] = plan.words
    BY WrittenFacts DEF WrittenInv
  <2> QED
    BY <2>1 DEF Pre
<1>6. \A f \in work'.listed \ undo' : SettledFile(work, f)'
  BY <1>1, <1>4 DEF SettledFile, Pre
<1>7. UndoneInv'
  BY <1>1, <1>3, <1>4, <1>5, <1>6, WrittenFacts DEF UndoneInv, Pre
<1> QED
  BY <1>1, <1>2, <1>7 DEF AtomicInv, ClearInv, SnappedInv, WrittenInv, RestoredInv, SettledInv,
     Writing

\* A path that hashes to a content holds it.
LEMMA HashedNotNone ==
    ASSUME NEW v, NEW h, h # None, Hash(v) = h
    PROVE  v = h
BY DEF Hash

LEMMA AtomicLateCheck ==
    ASSUME IInv, IInv', AtomicInv, PlanInv', LateCheck
    PROVE  AtomicInv'
<1>1. /\ pc = "late_check" /\ pc \in Writing /\ UNCHANGED <<disk, journal, dirs, snap, work, edits>>
      /\ undo = {} /\ \A f \in work.listed : ~work.started[f]
  BY DEF LateCheck, Writing, stored, counts, IInv, QuietInv, AtomicInv, WrittenInv
<1>2. Intact(work)'
  BY <1>1, WrittenFacts DEF Intact
<1>3. CASE RollBack(undo)
  BY <1>1, <1>2, <1>3, AtomicEnterRollback
<1>4. CASE /\ ~PlanConflict(plan, disk)
           /\ pc' = IF plan.rewrite THEN "mark_wordlist" ELSE "targets"
           /\ todo' = work.listed \ {Wordlist}
           /\ UNCHANGED <<plan, preview, tx, cur, undo, bad>>
  <2>1. plan.rewrite => Due(Wordlist)
    BY <1>1, <1>4, WrittenFacts, HashedNotNone DEF PlanConflict, Due
  <2>2. KnownInv'
    BY <1>1, KnownStays
  <2>3. Wordlist \in work.listed
    BY <1>1, WritingFacts DEF Protected
  <2>4. WrittenInv'
    BY <1>1, <1>2, <1>4, <2>1, <2>3, WrittenFacts DEF WrittenInv, Planned, Snapped, Hashed, Due, Ahead
  <2> QED
    BY <1>4, <2>2, <2>4 DEF AtomicInv, ClearInv, SnappedInv, UndoneInv, RestoredInv, SettledInv,
       RollingBack
<1> QED
  BY <1>3, <1>4 DEF LateCheck

\* The snapshot and the record of a file that is about to be announced hold what
\* is there.
LEMMA ReadIsPre ==
    ASSUME NEW f \in work.listed, Snapped(f), Hashed(f), Due(f)
    PROVE  /\ disk[f] = Pre(work, f)
           /\ work.existed[f] => snap[tx][f] = work.before[f] /\ work.before[f] # None
BY DEF Snapped, Hashed, Pre

LEMMA AtomicMarkStarted ==
    ASSUME LateFsync = FALSE, IInv, IInv', AtomicInv, PlanInv', pc \in {"mark_wordlist", "targets"},
           NEW f \in work.listed, Ahead(f), Due(f),
           MarkStarted(f), UNCHANGED <<disk, edits>>
    PROVE  AtomicInv'
<1>1. pc \in Writing /\ pc # "write" /\ pc # "late_check"
  BY DEF Writing
<1>2. work \in Journals /\ f \in Files /\ undo \subseteq Files
  BY <1>1, WrittenFacts
<1>3. work' = Marked(work, f)
  BY DEF MarkStarted
<1>4. /\ work'.tx = work.tx /\ work'.listed = work.listed
      /\ work'.existed = work.existed /\ work'.before = work.before
      /\ work'.state = work.state /\ work'.started[f] /\ work'.after[f] = plan.words
      /\ \A g \in Files \ {f} : work'.started[g] = work.started[g] /\ work'.after[g] = work.after[g]
  BY <1>2, <1>3, MarkedFields
<1>5. \A g \in Files : work'.completed[g] => g # f /\ work.completed[g]
  BY <1>2, <1>3 DEF Marked, Journals
<1>6. Snapped(f) /\ Hashed(f) /\ f \notin undo
  BY <1>1, WrittenFacts DEF WrittenInv, Ahead
<1>7. /\ disk[f] = Pre(work, f)
      /\ work.existed[f] => snap[tx][f] = work.before[f] /\ work.before[f] # None
  BY <1>6, ReadIsPre
<1>8. UNCHANGED <<dirs, snap, plan, tx, undo>>
  BY DEF MarkStarted, Persist, FailPersist, RollBack
<1>9. Intact(work)'
  <2>1. WellFormed(work')
    BY <1>1, <1>2, <1>4, <1>5, <1>7, WrittenFacts DEF Intact, WellFormed
  <2>2. SnapshotsIntact(work', dirs, snap)
    BY <1>1, <1>2, <1>4, <1>7, WrittenFacts DEF Intact, SnapshotsIntact
  <2> QED
    BY <1>8, <2>1, <2>2 DEF Intact
<1>10. \A g \in undo : g # f /\ work'.after[g] = plan.words
  BY <1>1, <1>2, <1>4, <1>6, WrittenFacts
<1>11. CASE Persist(work') /\ pc' = "write" /\ cur' = f /\ todo' = todo \ {f}
  <2>1. journal' = work'
    BY <1>11 DEF Persist
  <2>2. \A g \in work.listed : g # f => (work'.started[g] = work.started[g]) /\ g \in Files
    BY <1>1, <1>4, WrittenFacts
  <2>3. \A g \in work'.listed :
           /\ Planned(g)'
           /\ Ahead(g)' => Snapped(g)' /\ Hashed(g)'
           /\ work'.started[g] => g \in undo' \/ g = cur'
    BY <1>1, <1>4, <1>8, <1>11, <2>2, WrittenFacts DEF WrittenInv, Planned, Snapped, Hashed, Due, Ahead
  <2>4. todo \subseteq work.listed
    BY DEF IInv, WritingInv, Writing
  <2>5. Wordlist \notin todo' /\ \A g \in todo' : ~work'.started[g]
    BY <1>1, <1>11, <2>2, <2>4, WrittenFacts DEF WrittenInv
  <2>6. Due(cur)' /\ disk'[cur'] = Pre(work, cur)'
    BY <1>4, <1>7, <1>8, <1>11 DEF Pre, Due
  <2>7. \A g \in undo' : disk'[g] = plan'.words
    BY <1>1, <1>8, WrittenFacts DEF WrittenInv
  <2>8. WrittenInv'
    BY <1>9, <1>11, <2>3, <2>5, <2>6, <2>7 DEF WrittenInv
  <2>9. KnownInv'
    BY <1>1, <1>2, <1>4, <1>7, <1>11, <2>1, <2>2, WrittenFacts DEF AtomicInv, KnownInv, Pre
  <2> QED
    BY <1>11, <2>8, <2>9 DEF AtomicInv, ClearInv, SnappedInv, UndoneInv, RestoredInv, SettledInv,
       RollingBack
<1>12. CASE FailPersist(work') /\ RollBack(undo)
  <2>1. UNCHANGED journal
    BY <1>12 DEF FailPersist
  <2>2. \A g \in work.listed : work'.started[g] => work.started[g] \/ disk[g] = Pre(work, g)
    BY <1>1, <1>4, <1>7, WrittenFacts
  <2> QED
    BY <1>1, <1>4, <1>8, <1>9, <1>10, <1>12, <2>1, <2>2, WrittenFacts, AtomicEnterRollback
<1> QED
  BY <1>11, <1>12 DEF MarkStarted

LEMMA AtomicMarkWordlist ==
    ASSUME LateFsync = FALSE, IInv, IInv', AtomicInv, PlanInv', MarkWordlist
    PROVE  AtomicInv'
<1>1. /\ pc = "mark_wordlist" /\ pc \in Writing /\ Wordlist \in work.listed
      /\ Ahead(Wordlist) /\ Due(Wordlist)
  BY WritingFacts DEF MarkWordlist, Writing, Protected, AtomicInv, WrittenInv, Ahead
<1> QED
  BY <1>1, AtomicMarkStarted DEF MarkWordlist

LEMMA AtomicNextTarget ==
    ASSUME LateFsync = FALSE, IInv, IInv', AtomicInv, PlanInv', NextTarget
    PROVE  AtomicInv'
<1>1. pc = "targets" /\ pc \in Writing /\ UNCHANGED <<disk, edits>> /\ todo \subseteq work.listed
  BY DEF NextTarget, Writing, IInv, WritingInv
<1>2. First(todo) \in todo
  BY FirstMember, FileTypes DEF NextTarget, IInv, TypeInv, TypeOK
<1>3. CASE ~TargetConflict(First(todo)) /\ MarkStarted(First(todo))
  <2>1. First(todo) \in work.listed /\ Ahead(First(todo)) /\ First(todo) # Wordlist
    BY <1>1, <1>2, WrittenFacts DEF WrittenInv, Ahead
  <2>2. Due(First(todo))
    BY <1>3, <2>1 DEF TargetConflict, Due
  <2> QED
    BY <1>1, <1>3, <2>1, <2>2, AtomicMarkStarted
<1>4. CASE RollBack(undo) /\ UNCHANGED <<stored, work, faults>>
  <2>1. Intact(work)' /\ UNCHANGED <<journal, dirs, snap>>
    BY <1>1, <1>4, WrittenFacts DEF Intact, stored
  <2> QED
    BY <1>1, <1>4, <2>1, WrittenFacts, AtomicEnterRollback
<1> QED
  BY <1>3, <1>4 DEF NextTarget

LEMMA AtomicSkipRunning ==
    ASSUME IInv, AtomicInv, PlanInv', SkipRunning
    PROVE  AtomicInv'
<1>1. /\ pc = "targets" /\ pc \in Writing /\ todo' \subseteq todo
      /\ UNCHANGED <<disk, journal, dirs, snap, work, edits, pc, plan, tx, undo, cur>>
  BY DEF SkipRunning, Writing, stored, counts
<1>2. KnownInv'
  BY <1>1, KnownStays
<1>3. WrittenInv'
  BY <1>1, WrittenFacts DEF WrittenInv, Planned, Snapped, Hashed, Due, Ahead, Pre, Intact
<1> QED
  BY <1>1, <1>2, <1>3 DEF AtomicInv, ClearInv, SnappedInv, UndoneInv, RestoredInv, SettledInv,
     RollingBack

LEMMA AtomicWriteFile ==
    ASSUME IInv, IInv', AtomicInv, PlanInv', WriteFile
    PROVE  AtomicInv'
<1>1. /\ pc = "write" /\ pc \in Writing /\ cur \in work.listed
      /\ work.started[cur] /\ work.after[cur] = plan.words
      /\ UNCHANGED <<journal, dirs, snap, work, edits>>
  BY DEF WriteFile, Writing, stored, IInv, WritingInv
<1>2. disk[cur] = Pre(work, cur) /\ cur \in Files
  BY <1>1, WrittenFacts DEF WrittenInv
<1>3. CASE Leave(cur, plan.words) /\ undo' = undo \cup {cur} /\ pc' = "verify"
           /\ UNCHANGED <<plan, preview, tx, cur, todo, bad, faults>>
  <2>1. /\ disk'[cur] = plan.words
        /\ \A g \in Files \ {cur} : disk'[g] = disk[g]
    BY <1>2, <1>3 DEF Leave, IInv, TypeInv, TypeOK
  <2>2. WrittenInv'
    BY <1>1, <1>3, <2>1, WrittenFacts DEF WrittenInv, Planned, Snapped, Hashed, Due, Ahead, Intact
  <2>3. KnownInv'
    BY <1>1, <1>3, <2>1, WrittenFacts DEF AtomicInv, KnownInv, Pre
  <2> QED
    BY <1>3, <2>2, <2>3 DEF AtomicInv, ClearInv, SnappedInv, UndoneInv, RestoredInv, SettledInv,
       RollingBack
<1>4. CASE RollBack(undo \cup {cur}) /\ UNCHANGED <<disk, uncommitted>>
  <2>1. Intact(work)'
    BY <1>1, WrittenFacts DEF Intact
  <2> QED
    BY <1>1, <1>2, <1>4, <2>1, WrittenFacts, AtomicEnterRollback
<1> QED
  BY <1>3, <1>4 DEF WriteFile

LEMMA AtomicVerifyFile ==
    ASSUME LateFsync = FALSE, IInv, IInv', AtomicInv, PlanInv', VerifyFile
    PROVE  AtomicInv'
<1>1. /\ pc = "verify" /\ pc \in Writing /\ UNCHANGED <<disk, edits>> /\ cur \in work.listed
      /\ work.started[cur] /\ cur \in Files
  BY DEF VerifyFile, Writing, IInv, WritingInv, TypeInv, TypeOK
<1>2. CASE RollBack(undo) /\ UNCHANGED <<stored, work, faults>>
  <2>1. Intact(work)' /\ UNCHANGED <<journal, dirs, snap>>
    BY <1>1, <1>2, WrittenFacts DEF Intact, stored
  <2> QED
    BY <1>1, <1>2, <2>1, WrittenFacts, AtomicEnterRollback
<1>3. CASE work' = [work EXCEPT !.completed[cur] = TRUE]
  <2>1. /\ work'.tx = work.tx /\ work'.listed = work.listed /\ work'.existed = work.existed
        /\ work'.before = work.before /\ work'.state = work.state
        /\ work'.started = work.started /\ work'.after = work.after
    BY <1>1, <1>3, WrittenFacts, CompletedFields
  <2>2. \A g \in Files \ {cur} : work'.completed[g] = work.completed[g]
    BY <1>1, <1>3, WrittenFacts DEF Journals
  <2>3. CASE UNCHANGED <<dirs, snap>>
    <3>1. None \notin Content
      BY ValuesAssumption
    <3>2. work.after[cur] # None
      BY <1>1, <3>1, WrittenFacts
    <3>3. WellFormed(work')
      BY <1>1, <2>1, <2>2, <3>2, WrittenFacts DEF Intact, WellFormed
    <3>4. Intact(work)'
      BY <1>1, <2>1, <2>3, <3>3, WrittenFacts DEF Intact, SnapshotsIntact
    <3>5. CASE Persist(work') /\ pc' = "targets" /\ UNCHANGED <<plan, preview, tx, cur, todo, undo, bad>>
      <4>1. journal' = work'
        BY <3>5 DEF Persist
      <4>2. WrittenInv'
        BY <1>1, <2>1, <2>3, <3>4, <3>5, WrittenFacts DEF WrittenInv, Planned, Snapped, Hashed, Due, Ahead
      <4>3. KnownInv'
        BY <1>1, <2>1, <3>5, <4>1, WrittenFacts DEF AtomicInv, KnownInv, Pre
      <4> QED
        BY <3>5, <4>2, <4>3 DEF AtomicInv, ClearInv, SnappedInv, UndoneInv, RestoredInv, SettledInv,
           RollingBack
    <3>6. CASE FailPersist(work') /\ RollBack(undo)
      <4>1. UNCHANGED journal
        BY <3>6 DEF FailPersist
      <4> QED
        BY <1>1, <2>1, <2>3, <3>4, <3>6, <4>1, WrittenFacts, AtomicEnterRollback
    <3> QED
      BY <1>2, <1>3, <3>5, <3>6 DEF VerifyFile
  <2> QED
    BY <1>2, <2>3 DEF VerifyFile, Persist, FailPersist
<1> QED
  BY <1>2, <1>3 DEF VerifyFile

LEMMA AtomicComplete ==
    ASSUME LateFsync = FALSE, IInv, IInv', AtomicInv, PlanInv', Complete
    PROVE  AtomicInv'
<1>1. pc = "targets" /\ pc \in Writing /\ UNCHANGED <<disk, edits>>
  BY DEF Complete, Writing
<1>2. /\ work'.tx = work.tx /\ work'.listed = work.listed /\ work'.existed = work.existed
      /\ work'.before = work.before /\ work'.started = work.started /\ work'.after = work.after
      /\ work'.state = "completed"
  BY <1>1, WrittenFacts, StateFields DEF Complete
<1>3. CASE Persist(work') /\ pc' = "unlink"
  <2>1. Settled' /\ KnownInv'
    BY <1>2, <1>3 DEF Persist, Settled, KnownInv
  <2> QED
    BY <1>3, <2>1 DEF AtomicInv, ClearInv, SnappedInv, WrittenInv, UndoneInv, RestoredInv,
       SettledInv, Writing, RollingBack
<1>4. CASE FailPersist(work') /\ RollBack(undo)
  <2>1. UNCHANGED <<journal, dirs, snap>>
    BY <1>4 DEF FailPersist
  <2>2. work'.completed = work.completed
    BY <1>1, WrittenFacts DEF Complete, Journals
  <2>3. Intact(work)'
    BY <1>1, <1>2, <2>1, <2>2, WrittenFacts DEF Intact, WellFormed, SnapshotsIntact
  <2> QED
    BY <1>1, <1>2, <1>4, <2>1, <2>3, WrittenFacts, AtomicEnterRollback
<1> QED
  BY <1>3, <1>4 DEF Complete

\* The rollback goes on: only f, which the push wrote, may be touched.
LEMMA AtomicRollbackGoesOn ==
    ASSUME IInv, AtomicInv, PlanInv', pc \in RollingBack, pc' \in {"rollback", "copying"},
           UNCHANGED <<journal, dirs, snap, tx, work, undo, edits>>,
           NEW f \in undo, \A g \in Files \ {f} : disk'[g] = disk[g],
           todo \cup bad \subseteq todo' \cup bad' \cup {f},
           \/ disk'[f] = Pre(work, f)
           \/ disk'[f] = disk[f] /\ pc # "copying" /\ f \in todo' \cup bad'
           \/ pc' = "copying" /\ f = cur',
           pc = "copying" => cur = f,
           pc' = "copying" => cur' = f /\ work.existed[f]
    PROVE  AtomicInv'
<1>1. /\ UndoneInv /\ \A g \in undo : g \in Files
      /\ \A g \in work.listed : g \in Files
      /\ journal.listed = work.listed /\ journal.existed = work.existed
      /\ journal.before = work.before
      /\ \A g \in undo : journal.after[g] = work.after[g]
  BY RollingBackFacts DEF AtomicInv, Journals
<1>2. Intact(work)' /\ Intact(journal)'
  BY <1>1 DEF UndoneInv, Intact
<1>3. \A g \in undo : \/ disk'[g] = Pre(work, g)
                      \/ g \in todo' \cup bad' /\ disk'[g] = work.after[g]
                      \/ pc' = "copying" /\ g = cur'
  BY <1>1 DEF UndoneInv
<1>4. \A g \in work.listed \ undo : SettledFile(work, g)'
  BY <1>1 DEF UndoneInv, SettledFile, Pre, Foreign
<1>5. UndoneInv'
  BY <1>1, <1>2, <1>3, <1>4 DEF UndoneInv, Pre
<1>6. KnownInv'
  BY <1>1, <1>3 DEF UndoneInv, KnownInv, Pre
<1> QED
  BY <1>5, <1>6 DEF AtomicInv, ClearInv, SnappedInv, WrittenInv, RestoredInv, SettledInv, Writing

LEMMA AtomicRollbackFile ==
    ASSUME IInv, AtomicInv, PlanInv', RollbackFile
    PROVE  AtomicInv'
<1> DEFINE f == NextUndo
<1>1. pc = "rollback" /\ pc \in RollingBack /\ f \in undo /\ f \in Files
  <2>1. todo \subseteq Files /\ todo # {}
    BY DEF RollbackFile, IInv, TypeInv, TypeOK
  <2> QED
    BY <2>1, NextUndoMember, RollingBackFacts DEF RollbackFile, RollingBack
<1>2. UNCHANGED <<journal, dirs, snap, tx, work, undo, edits>>
  BY DEF RollbackFile, RemoveCreated, OpenForCopy, RolledBack, stored, counts
<1>3. disk \in [Files -> Values]
  BY DEF IInv, TypeInv, TypeOK
<1>4. RemoveCreated(f) \/ OpenForCopy(f)
  BY DEF RollbackFile
<1> HIDE DEF f
<1>5. CASE RemoveCreated(f)
  <2>1. /\ pc' = "rollback" /\ todo' = todo \ {f}
        /\ \/ disk' = [disk EXCEPT ![f] = None] /\ bad' = bad
           \/ UNCHANGED disk /\ bad' = bad \cup {f}
        /\ Pre(work, f) = None
    BY <1>5 DEF RemoveCreated, RolledBack, Pre
  <2> QED
    BY <1>1, <1>2, <1>3, <2>1, AtomicRollbackGoesOn
<1>6. CASE OpenForCopy(f)
  <2>1. /\ work.existed[f]
        /\ \/ pc' = "copying" /\ cur' = f /\ disk' = [disk EXCEPT ![f] = Torn] /\ UNCHANGED <<todo, bad>>
           \/ pc' = "rollback" /\ todo' = todo \ {f} /\ UNCHANGED disk /\ bad' = bad \cup {f}
    BY <1>6 DEF OpenForCopy, RolledBack, Leave
  <2> QED
    BY <1>1, <1>2, <1>3, <2>1, AtomicRollbackGoesOn
<1> QED
  BY <1>4, <1>5, <1>6

\* The snapshot that is copied back is the recorded content.
LEMMA SnapshotIsPre ==
    ASSUME IInv, AtomicInv, pc = "copying"
    PROVE  /\ cur \in undo /\ cur \in Files /\ work.existed[cur]
           /\ snap[tx][cur] = Pre(work, cur)
<1>1. pc \in RollingBack /\ cur \in undo
  BY RollingBackFacts DEF RollingBack, IInv, RollingBackInv
<1>2. UndoneInv /\ work.tx = tx /\ cur \in work.listed /\ work.started[cur] /\ cur \in Files
  BY <1>1, RollingBackFacts DEF AtomicInv, Protected
<1> QED
  BY <1>1, <1>2 DEF UndoneInv, Intact, SnapshotsIntact, Pre

LEMMA AtomicCopyBack ==
    ASSUME TornCopies = FALSE, IInv, AtomicInv, PlanInv', CopyBack
    PROVE  AtomicInv'
<1>1. /\ pc = "copying" /\ pc \in RollingBack /\ pc' = "rollback" /\ todo' = todo \ {cur}
      /\ UNCHANGED <<journal, dirs, snap, tx, work, undo, edits, bad>>
      /\ disk' = [disk EXCEPT ![cur] = snap[tx][cur]]
  BY DEF CopyBack, RolledBack, stored, RollingBack
<1>2. disk'[cur] = Pre(work, cur) /\ \A g \in Files \ {cur} : disk'[g] = disk[g]
  BY <1>1, SnapshotIsPre DEF IInv, TypeInv, TypeOK
<1> QED
  BY <1>1, <1>2, SnapshotIsPre, AtomicRollbackGoesOn

LEMMA AtomicEndRollback ==
    ASSUME IInv, AtomicInv, PlanInv', EndRollback
    PROVE  AtomicInv'
<1>1. /\ pc = "rollback" /\ pc \in RollingBack /\ todo = {}
      /\ UNCHANGED <<disk, journal, dirs, snap, tx, work, cur, todo, undo, bad, edits>>
  BY DEF EndRollback, RollingBack, stored, command, counts
<1>2. KnownInv'
  BY <1>1, KnownStays
<1>3. CASE bad = {} /\ pc' = "unlink"
  <2>1. Settled'
    BY <1>1, <1>3, RollingBackFacts DEF AtomicInv, UndoneInv, Settled, SettledFile, Pre
  <2> QED
    BY <1>2, <1>3, <2>1 DEF AtomicInv, ClearInv, SnappedInv, WrittenInv, UndoneInv, RestoredInv,
       SettledInv, Writing, RollingBack
<1>4. CASE pc' = "mark_incomplete"
  <2>1. UndoneInv'
    BY <1>1, <1>4 DEF AtomicInv, UndoneInv, SettledFile, Foreign, Pre, Intact
  <2> QED
    BY <1>2, <1>4, <2>1 DEF AtomicInv, ClearInv, SnappedInv, WrittenInv, RestoredInv, SettledInv,
       Writing
<1> QED
  BY <1>3, <1>4 DEF EndRollback

LEMMA AtomicMarkIncomplete ==
    ASSUME LateFsync = FALSE, IInv, AtomicInv, PlanInv', MarkIncomplete
    PROVE  AtomicInv'
<1> DEFINE j == [work EXCEPT !.state = "rollback_incomplete"]
<1>1. /\ pc = "mark_incomplete" /\ pc \in RollingBack /\ pc' = "idle"
      /\ UNCHANGED <<disk, edits>> /\ journal' \in {j, journal}
  BY DEF MarkIncomplete, RollingBack, Persist, FailPersist, EndPush, Release
<1>2. /\ j.listed = work.listed /\ j.existed = work.existed
      /\ j.before = work.before /\ j.started = work.started /\ j.after = work.after
  BY <1>1, RollingBackFacts, StateFields
<1>3. UndoneInv /\ \A f \in work.listed : f \in undo \/ f \in work.listed \ undo
  BY DEF AtomicInv
<1> HIDE DEF j
<1>4. CASE journal' = j
  <2>1. KnownInv'
    BY <1>1, <1>2, <1>3, <1>4 DEF UndoneInv, KnownInv, SettledFile, Foreign, Pre
  <2> QED
    BY <1>1, <2>1, AtomicIdle
<1>5. CASE journal' = journal
  BY <1>1, <1>5, KnownStays, AtomicIdle
<1> QED
  BY <1>1, <1>4, <1>5

LEMMA AtomicDiscard ==
    ASSUME IInv, AtomicInv, PlanInv', UnlinkIgnoringErrors \/ DiscardSnapshots
    PROVE  AtomicInv'
<1>1. /\ journal' \in {journal, NoJournal} /\ UNCHANGED <<disk, edits>> /\ pc # "copying"
  BY DEF UnlinkIgnoringErrors, DiscardSnapshots, UnlinkJournal, RemoveSnapshots, stored
<1>2. KnownInv'
  BY <1>1, KnownStays DEF KnownInv
<1>3. CASE UnlinkIgnoringErrors
  <2>1. Settled'
    BY <1>1, <1>3 DEF UnlinkIgnoringErrors, AtomicInv, SettledInv, Settled, SettledFile, Foreign, Pre
  <2> QED
    BY <1>2, <1>3, <2>1 DEF UnlinkIgnoringErrors, AtomicInv, ClearInv, SnappedInv, WrittenInv,
       UndoneInv, RestoredInv, SettledInv, Writing, RollingBack
<1>4. CASE DiscardSnapshots
  BY <1>2, <1>4, AtomicIdle DEF DiscardSnapshots, EndPush, Release
<1> QED
  BY <1>3, <1>4
-----------------------------------------------------------------------------
(* Recovery.                                                                *)

LEMMA AtomicStartRecovery ==
    ASSUME IInv, AtomicInv, PlanInv', StartRecovery
    PROVE  AtomicInv'
<1>1. UNCHANGED <<disk, journal, dirs, snap, edits>> /\ pc = "idle"
  BY DEF StartRecovery, stored, counts
<1>2. KnownInv'
  BY <1>1, KnownStays
<1>3. CASE EndRecover
  BY <1>2, <1>3, AtomicIdle DEF EndRecover, Release
<1>4. CASE /\ StillAsShown
           /\ pc' = CASE preview.action = "recover"         -> "restore"
                      [] preview.action = "discard_corrupt" -> "forget"
                      [] OTHER                              -> "cleanup"
           /\ todo' = IF preview.action = "recover" THEN journal.listed ELSE {}
  <2>1. preview.action \in {"recover", "discard_inert", "discard_corrupt", "cleanup"}
    BY DEF StartRecovery, IInv, TypeInv, TypeOK, Previews
  <2>2. Status' = Status
    BY <1>1 DEF Status
  <2>3. CASE preview.action = "recover"
    <3>1. pc' = "restore" /\ todo' = journal.listed /\ Status = "in_progress"
      BY <1>4, <2>3 DEF StillAsShown
    <3>2. RestoredInv'
      BY <1>1, <2>2, <3>1 DEF RestoredInv, Pending
    <3> QED
      BY <1>2, <3>1, <3>2 DEF AtomicInv, ClearInv, SnappedInv, WrittenInv, UndoneInv, SettledInv,
         Writing, RollingBack
  <2>4. CASE preview.action = "discard_corrupt"
    <3>1. pc' = "forget" /\ Status = "corrupt"
      BY <1>4, <2>4 DEF StillAsShown
    <3> QED
      BY <1>2, <2>2, <3>1 DEF AtomicInv, ClearInv, SnappedInv, WrittenInv, UndoneInv, RestoredInv,
         SettledInv, Writing, RollingBack
  <2>5. CASE preview.action \in {"discard_inert", "cleanup"}
    <3>1. pc' = "cleanup"
      BY <1>4, <2>5
    <3>2. CASE preview.action = "discard_inert"
      <4>1. \A f \in journal.listed : ~journal.started[f]
        BY <1>4, <3>2 DEF StillAsShown, MayDiscard
      <4>2. Settled'
        BY <1>1, <4>1 DEF Settled, SettledFile
      <4> QED
        BY <1>2, <3>1, <4>2 DEF AtomicInv, ClearInv, SnappedInv, WrittenInv, UndoneInv, RestoredInv,
           SettledInv, Writing, RollingBack
    <3>3. CASE preview.action = "cleanup"
      <4>1. Status = "completed"
        BY <1>4, <3>3 DEF StillAsShown, MayCleanUp
      <4>2. Settled'
        BY <1>1, <4>1 DEF Settled, Status, LoadStatus
      <4> QED
        BY <1>2, <3>1, <4>2 DEF AtomicInv, ClearInv, SnappedInv, WrittenInv, UndoneInv, RestoredInv,
           SettledInv, Writing, RollingBack
    <3> QED
      BY <2>5, <3>2, <3>3
  <2> QED
    BY <2>1, <2>3, <2>4, <2>5
<1> QED
  BY <1>3, <1>4 DEF StartRecovery

\* What recovery decides about a file.
LEMMA RestoreDecision ==
    ASSUME NEW j \in Journals, NEW f \in Files, NEW v \in Values, NEW s, j.started[f],
           j.after[f] \in Content
    PROVE  /\ RestoreStatus(j, f, v, s) = "skipped" => v = Pre(j, f)
           /\ RestoreStatus(j, f, v, s) = "ready" => v \in {j.after[f], None}
           /\ RestoreStatus(j, f, v, s) = "conflict" => v \notin {j.after[f], Pre(j, f), None}
<1>1. j.existed[f] \in BOOLEAN /\ j.before[f] \in Hashes
  BY DEF Journals
<1>2. /\ v = Unreadable => Hash(v) = None
      /\ v # Unreadable => Hash(v) = v
      /\ j.after[f] # None /\ j.after[f] # Unreadable
      /\ j.before[f] # Unreadable /\ None # Unreadable
      /\ Hash(j.after[f]) = j.after[f]
  BY <1>1, ValuesAssumption DEF Hash, Hashes
<1>3. CASE j.existed[f]
  BY <1>1, <1>2, <1>3 DEF RestoreStatus, ItemStatus, Pre
<1>4. CASE ~j.existed[f]
  BY <1>1, <1>2, <1>4 DEF RestoreStatus, ItemStatus, Pre
<1> QED
  BY <1>1, <1>3, <1>4

LEMMA AtomicCheckFile ==
    ASSUME IInv, AtomicInv, PlanInv', CheckFile
    PROVE  AtomicInv'
<1> DEFINE f == First(todo)
           status == RestoreStatus(work, f, disk[f], snap[tx][f])
<1>1. /\ pc = "restore" /\ f \in todo /\ f \in Files /\ f \in work.listed /\ work \in Journals
      /\ UNCHANGED <<disk, journal, dirs, snap, work, edits>> /\ journal = work
      /\ Recorded(work) /\ disk[f] \in Values
  <2>1. todo # {} /\ pc = "restore"
    BY DEF CheckFile
  <2>2. f \in todo
    BY <2>1, FirstMember, FileTypes, RecoveringFacts
  <2> QED
    BY <2>1, <2>2, RecoveringFacts DEF CheckFile, stored, counts, IInv, TypeInv, TypeOK
<1>2. /\ todo' = todo \ {f}
      /\ bad' = IF status \in {"failed", "conflict"} THEN bad \cup {f} ELSE bad
      /\ IF status = "ready" THEN pc' = "replace" /\ cur' = f ELSE UNCHANGED <<pc, cur>>
  BY DEF CheckFile
<1>3. work.started[f] \in BOOLEAN /\ (work.started[f] => work.after[f] \in Content)
  BY <1>1 DEF Journals, Recorded
<1>4. /\ status = "skipped" /\ work.started[f] => disk[f] = Pre(work, f)
      /\ status = "ready" => disk[f] \in {work.after[f], None}
      /\ status \in {"skipped", "ready", "conflict", "failed"}
  <2>1. status = "ready" => work.started[f]
    BY <1>1, ReadyIsStarted
  <2>2. status \in {"skipped", "ready", "conflict", "failed"}
    BY <1>1, RestoreStatusValues
  <2> HIDE DEF f
  <2> QED
    BY <1>1, <1>3, <2>1, <2>2, RestoreDecision
<1> HIDE DEF f, status
<1>5. KnownInv'
  BY <1>1, KnownStays
<1>6. /\ Status = "in_progress"
      /\ \A g \in journal.listed \ (todo \cup bad) : SettledFile(journal, g)
  BY <1>1 DEF AtomicInv, RestoredInv, Pending
<1>7. \A g \in journal.listed \ Pending' : SettledFile(journal, g)'
  <2>1. Pending' = todo' \cup bad' \cup (IF pc' = "replace" THEN {cur'} ELSE {})
    BY DEF Pending
  <2>2. \A g \in journal.listed \ Pending' : g = f => status = "skipped"
    BY <1>1, <1>2, <1>4, <2>1
  <2>3. \A g \in journal.listed \ Pending' : g # f => g \notin todo \cup bad
    BY <1>2, <2>1
  <2> QED
    BY <1>1, <1>4, <1>6, <2>2, <2>3 DEF SettledFile, Foreign, Pre
<1>8. pc' = "replace" => disk'[cur'] \in {journal'.after[cur'], None}
  BY <1>1, <1>2, <1>4
<1>9. pc' \in {"restore", "replace"}
  BY <1>1, <1>2
<1>10. RestoredInv'
  BY <1>1, <1>6, <1>7, <1>8, <1>9 DEF RestoredInv, Status
<1> QED
  BY <1>5, <1>9, <1>10 DEF AtomicInv, ClearInv, SnappedInv, WrittenInv, UndoneInv, SettledInv,
     Writing, RollingBack

\* What recovery puts in the place of a file is what the file held.
LEMMA ReplacedIsPre ==
    ASSUME IInv, AtomicInv, pc = "replace"
    PROVE  /\ (IF work.existed[cur] THEN snap[tx][cur] ELSE None) = Pre(journal, cur)
           /\ journal = work /\ cur \in journal.listed /\ journal.started[cur] /\ cur \in Files
           /\ Status = "in_progress" /\ disk[cur] \in {journal.after[cur], None}
<1>1. /\ journal = work /\ work.tx = tx /\ cur \in work.listed /\ work.started[cur] /\ cur \in Files
  BY RecoveringFacts DEF IInv, TypeInv, TypeOK
<1>2. Status = "in_progress" /\ disk[cur] \in {journal.after[cur], None}
  BY DEF AtomicInv, RestoredInv
<1>3. SnapshotsIntact(journal, dirs, snap)
  BY <1>2, NotBlocked DEF Intact
<1> QED
  BY <1>1, <1>2, <1>3 DEF SnapshotsIntact, Pre

LEMMA AtomicReplaceFile ==
    ASSUME IInv, AtomicInv, PlanInv', ReplaceFile
    PROVE  AtomicInv'
<1>1. /\ pc = "replace" /\ pc' = "restore"
      /\ UNCHANGED <<journal, dirs, snap, tx, work, todo, edits>>
      /\ journal = work /\ cur \in Files /\ work \in Journals
  BY RecoveringFacts DEF ReplaceFile, stored, IInv, TypeInv, TypeOK
<1>2. /\ \A g \in Files \ {cur} : disk'[g] = disk[g]
      /\ \/ disk'[cur] = Pre(journal, cur) /\ bad' = bad
         \/ disk'[cur] = disk[cur] /\ bad' = bad \cup {cur}
  BY <1>1, ReplacedIsPre DEF ReplaceFile, IInv, TypeInv, TypeOK
<1>3. journal.listed \subseteq Files
  BY <1>1 DEF Journals
<1>4. KnownInv'
  BY <1>1, <1>2, <1>3 DEF AtomicInv, KnownInv, Pre
<1>5. /\ Status = "in_progress"
      /\ \A g \in journal.listed \ (todo \cup bad \cup {cur}) : SettledFile(journal, g)
  BY <1>1 DEF AtomicInv, RestoredInv, Pending
<1>6. \A g \in journal.listed \ (todo' \cup bad') : SettledFile(journal, g)'
  BY <1>1, <1>2, <1>3, <1>5 DEF SettledFile, Foreign, Pre
<1>7. RestoredInv'
  BY <1>1, <1>5, <1>6 DEF RestoredInv, Status, Pending
<1> QED
  BY <1>1, <1>4, <1>7 DEF AtomicInv, ClearInv, SnappedInv, WrittenInv, UndoneInv, SettledInv,
     Writing, RollingBack

LEMMA AtomicEndRestore ==
    ASSUME IInv, AtomicInv, PlanInv', EndRestore
    PROVE  AtomicInv'
<1>1. /\ pc = "restore" /\ todo = {} /\ UNCHANGED <<disk, journal, dirs, snap, edits>>
  BY DEF EndRestore, stored, counts
<1>2. KnownInv'
  BY <1>1, KnownStays
<1>3. CASE EndRecover
  BY <1>2, <1>3, AtomicIdle DEF EndRecover, Release
<1>4. CASE bad = {} /\ pc' = "cleanup"
  <2>1. Settled'
    BY <1>1, <1>4 DEF AtomicInv, RestoredInv, Pending, Settled, SettledFile, Foreign, Pre
  <2> QED
    BY <1>2, <1>4, <2>1 DEF AtomicInv, ClearInv, SnappedInv, WrittenInv, UndoneInv, RestoredInv,
       SettledInv, Writing, RollingBack
<1> QED
  BY <1>3, <1>4 DEF EndRestore

LEMMA AtomicCleanup ==
    ASSUME IInv, AtomicInv, PlanInv', CleanupJournal \/ CleanupSnapshots \/ ForgetJournal
    PROVE  AtomicInv'
<1>1. /\ journal' \in {journal, NoJournal} /\ UNCHANGED <<disk, edits>> /\ pc # "copying"
  BY DEF CleanupJournal, CleanupSnapshots, ForgetJournal, UnlinkJournal, RemoveSnapshots, stored
<1>2. KnownInv'
  BY <1>1, KnownStays DEF KnownInv
<1>3. CASE pc' = "idle"
  BY <1>2, <1>3, AtomicIdle
<1>4. CASE journal' = NoJournal /\ pc' = "cleanup_snapshots"
  BY <1>2, <1>4 DEF AtomicInv, ClearInv, SnappedInv, WrittenInv, UndoneInv, RestoredInv,
     SettledInv, Writing, RollingBack
<1> QED
  BY <1>3, <1>4 DEF CleanupJournal, CleanupSnapshots, ForgetJournal, UnlinkJournal, EndRecover,
     Release

-----------------------------------------------------------------------------
(* The world outside.                                                       *)

\* What an edit in a guarded window cannot do.
LEMMA GuardedEdit ==
    ASSUME BenignEdits = TRUE, NEW f \in Files, NEW v \in EditValues, Edit(f, v)
    PROVE  /\ disk' = [disk EXCEPT ![f] = v]
           /\ UNCHANGED <<journal, dirs, snap, pc, plan, tx, work, cur, todo, undo, bad>>
           /\ ~Unguarded(f, v) /\ ~Remembered(f, v)
BY DEF Edit, stored, command

LEMMA AtomicEdit ==
    ASSUME BenignEdits = TRUE, IInv, IInv', AtomicInv, PlanInv',
           NEW f \in Files, NEW v \in EditValues, Edit(f, v)
    PROVE  AtomicInv'
<1>1. /\ edits' # 0 /\ \A g \in Files : disk'[g] = IF g = f THEN v ELSE disk[g]
      /\ UNCHANGED <<journal, dirs, snap, pc, plan, tx, work, cur, todo, undo, bad>>
  <2>1. edits' # 0 /\ disk \in [Files -> Values]
    BY DEF Edit, IInv, TypeInv, TypeOK
  <2> QED
    BY <2>1, GuardedEdit
<1>2. /\ pc \in {"write", "verify", "copying", "replace"} => f # cur
      /\ pc = "mark_wordlist" => f # Wordlist
      /\ pc \in {"journal_begin", "late_check"} /\ plan.rewrite /\ plan.read[Wordlist] = None
            => f # Wordlist
      /\ pc \in PushPhases \ {"unlink", "discard"} => f \notin undo
      /\ pc # "idle" /\ journal # NoJournal /\ journal.started[f] => v # None
      /\ pc # "idle" /\ work # NoJournal /\ work.started[f] => v # None
  BY GuardedEdit DEF Unguarded
<1>3. /\ plan # NoPlan /\ v = plan.read[f] => v = None /\ f \notin plan.targets
      /\ work # NoJournal /\ v # None => v # work.after[f]
      /\ journal # NoJournal /\ v # None => v # journal.after[f]
  BY GuardedEdit DEF Remembered
<1>4. /\ work \in Journals => work.listed \subseteq Files
      /\ journal # NoJournal => journal.listed \subseteq Files
      /\ work \in Journals => work # NoJournal
  BY NoJournalAssumption DEF IInv, TypeInv, TypeOK, Journals
<1>5. KnownInv' /\ ClearInv'
  BY <1>1 DEF KnownInv, AtomicInv, ClearInv, Status
<1>6. ASSUME pc \in PushPhases, NEW g \in Files, Planned(g),
             g = Wordlist => pc \in {"journal_begin", "late_check", "mark_wordlist"}
      PROVE  Planned(g)' /\ (Snapped(g) => Snapped(g)') /\ (Hashed(g) => Hashed(g)')
  <2>1. plan # NoPlan
    BY <1>6 DEF AtomicInv, PlanInv
  <2>2. g = f => ~Due(g)'
    BY <1>1, <1>2, <1>3, <1>6, <2>1 DEF Planned, Due
  <2>3. g # f => disk'[g] = disk[g] /\ (Due(g)' <=> Due(g))
    BY <1>1, <1>6 DEF Due
  <2> QED
    BY <1>1, <1>6, <2>2, <2>3 DEF Planned, Snapped, Hashed
<1>7. SnappedInv'
  <2>1. pc = "journal_begin" => pc \in PushPhases /\ work \in Journals
    BY DEF IInv, TypeInv, Commanded, PushPhases
  <2> QED
    BY <1>1, <1>4, <1>6, <2>1 DEF AtomicInv, SnappedInv
<1>8. WrittenInv'
  <2> SUFFICES ASSUME pc \in Writing PROVE WrittenInv'
    BY <1>1 DEF WrittenInv
  <2>1. pc \in PushPhases \ {"unlink", "discard"}
    BY DEF Writing, PushPhases
  <2>2. f \notin undo
    BY <1>2, <2>1
  <2>3. ASSUME NEW g \in work.listed
        PROVE  /\ Planned(g)'
               /\ Ahead(g)' => Snapped(g)' /\ Hashed(g)'
               /\ work.started[g] => g \in undo \/ (pc = "write" /\ g = cur)
    BY <1>1, <1>6, <2>1, WrittenFacts DEF WrittenInv, Ahead, Planned
  <2>4. \A g \in undo : disk'[g] = plan.words
    BY <1>1, <2>2, WrittenFacts DEF WrittenInv
  <2>5. Intact(work)'
    BY <1>1, WrittenFacts DEF Intact
  <2>6. pc = "mark_wordlist" => ~work.started[Wordlist] /\ Due(Wordlist)'
    BY <1>1, <1>2, WrittenFacts, FileTypes DEF WrittenInv, Due
  <2>7. pc = "write" => Due(cur)' /\ disk'[cur] = Pre(work, cur)
    <3>1. cur \in Files
      BY DEF IInv, TypeInv, TypeOK
    <3> QED
      BY <1>1, <1>2, <3>1, WrittenFacts DEF WrittenInv, Due
  <2> QED
    BY <1>1, <2>3, <2>4, <2>5, <2>6, <2>7, WrittenFacts DEF WrittenInv, Pre
<1>9. UndoneInv'
  <2> SUFFICES ASSUME pc \in RollingBack PROVE UndoneInv'
    BY <1>1 DEF UndoneInv
  <2>1. f \notin undo /\ pc # "idle" /\ work \in Journals /\ undo \subseteq Files
    BY <1>2, RollingBackFacts DEF RollingBack, PushPhases
  <2>2. UndoneInv
    BY DEF AtomicInv
  <2>3. \A g \in work.listed \ undo : SettledFile(work, g)'
    BY <1>1, <1>2, <1>3, <1>4, <2>1, <2>2 DEF UndoneInv, SettledFile, Foreign, Pre
  <2>4. Intact(work)' /\ Intact(journal)'
    BY <1>1, <2>2 DEF UndoneInv, Intact
  <2> QED
    BY <1>1, <2>1, <2>2, <2>3, <2>4 DEF UndoneInv, Pre
<1>10. ASSUME pc # "idle", journal # NoJournal, NEW g \in journal.listed, SettledFile(journal, g)
       PROVE  SettledFile(journal, g)'
  BY <1>1, <1>2, <1>3, <1>4, <1>10 DEF SettledFile, Foreign, Pre
<1>11. RestoredInv'
  <2>1. pc \in {"restore", "replace"} => journal # NoJournal
    BY RecoveringFacts, NoJournalAssumption
  <2>2. Pending' = Pending /\ Status' = Status
    BY <1>1 DEF Pending, Status
  <2>3. cur \in Files
    BY DEF IInv, TypeInv, TypeOK
  <2> QED
    BY <1>1, <1>2, <1>10, <2>1, <2>2, <2>3 DEF AtomicInv, RestoredInv
<1>12. SettledInv'
  BY <1>1, <1>10 DEF AtomicInv, SettledInv, Settled
<1> QED
  BY <1>5, <1>7, <1>8, <1>9, <1>11, <1>12 DEF AtomicInv

LEMMA AtomicStutter ==
    ASSUME AtomicInv, UNCHANGED vars
    PROVE  AtomicInv'
<1>1. UNCHANGED <<disk, journal, dirs, snap, pc, plan, tx, work, cur, todo, undo, bad, edits>>
  BY DEF vars, stored, command, counts
<1>2. PlanInv' /\ ClearInv' /\ SnappedInv' /\ SettledInv' /\ KnownInv'
  BY <1>1 DEF AtomicInv, PlanInv, ClearInv, SnappedInv, SettledInv, KnownInv, Status,
     Planned, Snapped, Due, Settled, SettledFile, Foreign, Pre
<1>3. WrittenInv'
  BY <1>1 DEF AtomicInv, WrittenInv, Intact, Planned, Snapped, Hashed, Due, Ahead, Pre
<1>4. UndoneInv'
  BY <1>1 DEF AtomicInv, UndoneInv, Intact, SettledFile, Foreign, Pre
<1>5. RestoredInv'
  BY <1>1 DEF AtomicInv, RestoredInv, Pending, Status, SettledFile, Foreign, Pre
<1> QED
  BY <1>2, <1>3, <1>4, <1>5 DEF AtomicInv

-----------------------------------------------------------------------------
(* The invariant holds as long as edits stay out of the unguarded windows,  *)
(* or there are none.                                                       *)

Undisturbed == BenignEdits = TRUE \/ edits = 0

LEMMA AtomicInit == Init => PlanInv /\ AtomicInv
BY DEF Init, AtomicInv, PlanInv, ClearInv, SnappedInv, WrittenInv, UndoneInv, RestoredInv,
   SettledInv, KnownInv, Writing, RollingBack, PushPhases

LEMMA AtomicNext ==
    ASSUME LateFsync = FALSE, TornCopies = FALSE, IInv, PlanInv, AtomicInv, [Next]_vars, Undisturbed'
    PROVE  AtomicInv'
<1>1. IInv' /\ TypeInv'
  BY InvNext DEF IInv
<1>2. PlanInv'
  BY <1>1, PlanNext
<1>3. CASE \E f \in Files, v \in EditValues : Edit(f, v)
  <2>1. BenignEdits = TRUE
    BY <1>3 DEF Undisturbed, Edit, IInv, TypeInv, TypeOK
  <2> QED
    BY <1>1, <1>2, <1>3, <2>1, AtomicEdit
<1> QED
  BY <1>1, <1>2, <1>3, AtomicStart, AtomicPlanStep, AtomicCrash, AtomicBeginTransaction, AtomicJournalBegin,
     AtomicLateCheck, AtomicMarkWordlist, AtomicSkipRunning, AtomicNextTarget, AtomicWriteFile,
     AtomicVerifyFile, AtomicComplete, AtomicRollbackFile, AtomicCopyBack, AtomicEndRollback,
     AtomicMarkIncomplete, AtomicDiscard, AtomicStartRecovery, AtomicCheckFile, AtomicReplaceFile,
     AtomicEndRestore, AtomicCleanup, AtomicStutter
  DEF Next, CommandStep, PushStep, RecoverStep

\* Only another program's edit is counted as one.
LEMMA EditsStay ==
    ASSUME [Next]_vars, ~(\E f \in Files, v \in EditValues : Edit(f, v))
    PROVE  UNCHANGED edits
BY DEF Next, CommandStep, PushStep, RecoverStep, vars, counts, PlanStep, ReadWords,
      ReadTargets, PlanRewrite, HashList, StartPush, Inspect, StartRecovery, BeginTransaction, FailBegin, JournalBegin, LateCheck, MarkWordlist,
      SkipRunning, NextTarget, WriteFile, VerifyFile, Complete, RollbackFile, RemoveCreated,
      OpenForCopy, RolledBack, CopyBack, EndRollback, MarkIncomplete, UnlinkIgnoringErrors,
      DiscardSnapshots, CheckFile, ReplaceFile, EndRestore, CleanupJournal, CleanupSnapshots,
      ForgetJournal, Crash

\* The number of edits never goes down.
LEMMA EditsGrow ==
    ASSUME IInv, [Next]_vars, edits' = 0
    PROVE  edits = 0
<1>1. CASE \E f \in Files, v \in EditValues : Edit(f, v)
  BY <1>1 DEF Edit, IInv, TypeInv, TypeOK
<1> QED
  BY <1>1, EditsStay

LEMMA AtomicAlways ==
    ASSUME LateFsync = FALSE, TornCopies = FALSE
    PROVE  Spec => [](IInv /\ (Undisturbed => AtomicInv))
<1> DEFINE J == IInv /\ PlanInv /\ (Undisturbed => AtomicInv)
<1>1. Init => J
  BY AtomicInit, InvInit
<1>2. J /\ [Next]_vars => J'
  <2> SUFFICES ASSUME J, [Next]_vars PROVE J'
    OBVIOUS
  <2>1. IInv' /\ PlanInv'
    BY InvNext, PlanNext DEF IInv
  <2>2. ASSUME Undisturbed' PROVE AtomicInv'
    <3>1. Undisturbed
      BY <2>2, EditsGrow DEF Undisturbed
    <3> QED
      BY <2>2, <3>1, AtomicNext
  <2> QED
    BY <2>1, <2>2
<1> QED
  BY <1>1, <1>2, PTL DEF Spec

\* A push overwrites a file only while it holds what the plan is based on: what
\* another program saved after the preview is never lost, but for a list that
\* changed before it was hashed, or was gone then.
THEOREM NoLostUpdateHolds ==
    ASSUME LateFsync = FALSE, TornCopies = FALSE, BenignEdits = TRUE
    PROVE  Spec => NoLostUpdate
<1> DEFINE J == IInv /\ (Undisturbed => AtomicInv)
           Kept == pc = "write" /\ disk' # disk /\ edits' = edits
                      => \/ disk[cur] = BasedOn(plan, cur)
                         \/ /\ cur = Wordlist /\ plan.read[cur] # plan.from
                            /\ plan.read[cur] \in {disk[cur], None}
<1>1. J /\ [Next]_vars => [Kept]_vars
  <2> SUFFICES ASSUME J, [Next]_vars, pc = "write"
               PROVE  \/ disk[cur] = BasedOn(plan, cur)
                      \/ /\ cur = Wordlist /\ plan.read[cur] # plan.from
                         /\ plan.read[cur] \in {disk[cur], None}
    OBVIOUS
  <2>1. Due(cur) /\ plan \in Plans
    BY WrittenFacts DEF AtomicInv, WrittenInv, Writing, Undisturbed
  <2>2. plan.from # None
    BY <2>1, ValuesAssumption DEF Plans
  <2>3. CASE cur = Wordlist /\ plan.read[cur] = None
    BY <2>2, <2>3
  <2>4. CASE ~(cur = Wordlist /\ plan.read[cur] = None)
    BY <2>1, <2>4 DEF Due, BasedOn
  <2> QED
    BY <2>3, <2>4
<1> QED
  BY <1>1, AtomicAlways, PTL DEF Spec, NoLostUpdate

\* Through failures, aborts, crashes and repeated recoveries a file holds its
\* pre-image, the bytes of the push or nothing: as long as nobody edits, recovery
\* finds no conflict.
THEOREM ConflictsAreExternalHolds ==
    ASSUME LateFsync = FALSE, TornCopies = FALSE
    PROVE  Spec => []ConflictsAreExternal
<1>1. IInv /\ (Undisturbed => AtomicInv) => ConflictsAreExternal
  <2> SUFFICES ASSUME IInv, Undisturbed => AtomicInv, pc = "idle", edits = 0,
                      Status = "in_progress",
                      NEW f \in ItemsWith("conflict", journal, disk, snap)
               PROVE  FALSE
    BY DEF ConflictsAreExternal
  <2>1. AtomicInv /\ journal # NoJournal /\ journal.state # "completed" /\ Intact(journal)
    BY NotBlocked DEF Undisturbed
  <2>2. journal \in Journals /\ f \in journal.listed /\ f \in Files /\ disk[f] \in Values
    BY <2>1 DEF ItemsWith, IInv, TypeInv, TypeOK, Journals
  <2>3. journal.started[f] \in BOOLEAN /\ journal.existed[f] \in BOOLEAN
    BY <2>2 DEF Journals
  <2>4. journal.started[f]
    BY <2>2, <2>3 DEF ItemsWith, ItemStatus
  <2>5. disk[f] \in {journal.after[f], Pre(journal, f)} /\ journal.after[f] \in Content
    BY <2>1, <2>2, <2>4 DEF AtomicInv, KnownInv, IInv, JournalCore, Recorded
  <2>6. ItemStatus(journal, f, disk[f], snap[journal.tx][f]) = "conflict"
    BY DEF ItemsWith
  <2>7. disk[f] # Unreadable
    BY <2>2, <2>5, ValuesAssumption DEF Pre, Journals, Hashes
  <2>8. RestoreStatus(journal, f, disk[f], snap[journal.tx][f]) = "conflict"
    BY <2>6, <2>7 DEF RestoreStatus
  <2> QED
    BY <2>2, <2>4, <2>5, <2>8, RestoreDecision
<1> QED
  BY <1>1, AtomicAlways, PTL

-----------------------------------------------------------------------------
(* The refinement: what every step does to the effective content.           *)

\* Nothing but what is on disk counts: no file holds bytes that would go.
Plain == \A f \in Files : Covered(f) => disk[f] = BeforePush(f)

LEMMA PlainIsDisk == ASSUME TypeOK, Plain PROVE Effective = disk
BY DEF TypeOK, Plain, Effective

LEMMA PlainCases ==
    ASSUME \/ journal = NoJournal
           \/ journal # NoJournal /\ journal.state = "completed"
           \/ ~BlocksMutation(Status)
           \/ Status # "in_progress"
           \/ pc # "copying" /\ \A f \in journal.listed : ~journal.started[f]
    PROVE  Plain
BY DEF Plain, Covered, Status, LoadStatus, BlocksMutation

\* A settled journal protects nothing any more.
LEMMA SettledIsPlain ==
    ASSUME Settled, pc # "copying", Status # "absent"
    PROVE  Plain
<1> SUFFICES ASSUME NEW f \in Files, Covered(f) PROVE disk[f] = BeforePush(f)
  BY DEF Plain
<1>1. /\ journal # NoJournal /\ journal.state # "completed"
      /\ f \in journal.listed /\ journal.started[f] /\ disk[f] \in {journal.after[f], None}
  BY NotBlocked DEF Covered
<1> QED
  BY <1>1 DEF Settled, SettledFile, Foreign, Pre, BeforePush

\* Before and after the step what counts is what is on disk, and it stays.
LEMMA EffectivePlain ==
    ASSUME TypeOK, TypeOK', Plain, Plain', UNCHANGED disk
    PROVE  UNCHANGED Effective
<1>1. Effective' = disk'
  BY DEF TypeOK, Plain, Effective
<1> QED
  BY <1>1, PlainIsDisk

\* Neither the disk nor the file that is being copied changes.
LEMMA EffectiveStays ==
    ASSUME UNCHANGED <<disk, journal, dirs, snap>>, pc = "copying" <=> pc' = "copying",
           pc = "copying" => cur' = cur
    PROVE  UNCHANGED Effective
BY DEF Effective, Covered, BeforePush, Status

\* The content of one announced file changes, between the pre-image, the bytes of
\* the push, nothing, and a copy under way.
LEMMA EffectiveUndo ==
    ASSUME TypeOK, Status = "in_progress", UNCHANGED <<journal, dirs, snap>>,
           NEW f \in Files, f \in journal.listed, journal.started[f],
           \A g \in Files \ {f} : disk'[g] = disk[g],
           \/ disk[f] \in {journal.after[f], None, Pre(journal, f)}
           \/ pc = "copying" /\ cur = f,
           \/ disk'[f] \in {journal.after[f], None, Pre(journal, f)}
           \/ pc' = "copying" /\ cur' = f,
           pc = "copying" => cur = f, pc' = "copying" => cur' = f
    PROVE  UNCHANGED Effective
<1>1. Status' = "in_progress"
  BY DEF Status
<1>2. Effective[f] = Pre(journal, f) /\ Effective'[f] = Pre(journal, f)
  BY <1>1 DEF Effective, Covered, BeforePush, Pre
<1>3. ASSUME NEW g \in Files \ {f} PROVE Effective'[g] = Effective[g]
  BY <1>1 DEF Effective, Covered, BeforePush
<1> QED
  BY <1>2, <1>3 DEF Effective

\* The record of one file changes while the file holds its pre-image, or what is
\* neither the bytes of the push nor nothing.
LEMMA EffectiveRecord ==
    ASSUME journal # NoJournal, Status = "in_progress", Status' = "in_progress",
           UNCHANGED disk, pc # "copying", pc' # "copying",
           journal'.listed = journal.listed, journal'.existed = journal.existed,
           journal'.before = journal.before,
           \A f \in journal.listed :
              \/ /\ journal'.started[f] = journal.started[f]
                 /\ journal.started[f] => journal'.after[f] = journal.after[f]
              \/ /\ ~journal.started[f] /\ journal'.started[f]
                 /\ disk[f] = Pre(journal, f) \/ disk[f] \notin {journal'.after[f], None}
    PROVE  UNCHANGED Effective
BY DEF Effective, Covered, BeforePush, Pre

\* Steps that touch neither the files nor what is stored.
LEMMA EffectiveIdle ==
    ASSUME TornCopies = FALSE,
           StartPush \/ PlanStep \/ Inspect \/ FailBegin \/ LateCheck \/ SkipRunning
           \/ EndRollback \/ StartRecovery \/ CheckFile \/ EndRestore \/ Crash
    PROVE  UNCHANGED <<Effective, edits, commits>>
<1>1. UNCHANGED <<disk, journal, dirs, snap, edits, commits>> /\ pc # "copying" /\ pc' # "copying"
  BY DEF StartPush, PlanStep, ReadWords, ReadTargets, PlanRewrite, HashList, PushPhases, Inspect,
     FailBegin, LateCheck, SkipRunning, EndRollback,
     StartRecovery, CheckFile, EndRestore, Crash, EndPush, EndRecover, Release, RollBack,
     stored, counts, ghosts
<1> QED
  BY <1>1, EffectiveStays

LEMMA EffectiveBegin ==
    ASSUME LateFsync = FALSE, IInv, IInv', AtomicInv, BeginTransaction \/ JournalBegin
    PROVE  UNCHANGED <<Effective, edits, commits>>
<1>1. UNCHANGED <<disk, edits, commits>> /\ TypeOK /\ TypeOK'
  BY DEF BeginTransaction, JournalBegin, ghosts, IInv, TypeInv
<1>2. ~BlocksMutation(Status)
  BY DEF BeginTransaction, JournalBegin, AtomicInv, ClearInv
<1>3. CASE UNCHANGED journal
  <2>1. ~BlocksMutation(Status)'
    BY <1>2, <1>3, ClearStays
  <2>2. Plain'
    BY <2>1 DEF Plain, Covered, Status, BlocksMutation
  <2> QED
    BY <1>1, <1>2, <2>2, PlainCases, EffectivePlain
<1>4. CASE journal' = work' /\ pc' = "late_check"
  <2>1. \A f \in journal'.listed : ~journal'.started[f]
    <3>1. work'.listed \subseteq Files /\ IInv' /\ work'.started = work.started /\ JournalBegin
      BY <1>4 DEF BeginTransaction, JournalBegin, EndPush, Release, IInv, TypeInv, Commanded,
         PushPhases, Journals
    <3> QED
      BY <1>4, <3>1 DEF JournalBegin, IInv, BeginInv
  <2>2. Plain'
    BY <1>4, <2>1 DEF Plain, Covered
  <2> QED
    BY <1>1, <1>2, <2>2, PlainCases, EffectivePlain
<1> QED
  BY <1>3, <1>4 DEF BeginTransaction, JournalBegin, Persist, FailPersist

LEMMA EffectiveMarkStarted ==
    ASSUME LateFsync = FALSE, IInv, IInv', AtomicInv, AtomicInv', pc \in {"mark_wordlist", "targets"},
           NEW f \in work.listed, Ahead(f), Due(f),
           MarkStarted(f), UNCHANGED disk
    PROVE  UNCHANGED Effective
<1>1. pc \in Writing /\ pc # "write" /\ pc # "late_check"
  BY DEF Writing
<1>2. Status = "in_progress"
  BY <1>1, NotBlocked, WrittenFacts
<1>3. CASE Persist(work') /\ pc' = "write"
  <2>1. journal' = work' /\ work' = Marked(work, f) /\ UNCHANGED <<dirs, snap>>
    BY <1>3 DEF MarkStarted, Persist
  <2>2. f \in Files /\ work \in Journals
    BY <1>1, WrittenFacts
  <2>3. /\ work'.listed = work.listed /\ work'.existed = work.existed /\ work'.before = work.before
        /\ work'.state = work.state /\ work'.started[f]
        /\ \A g \in Files \ {f} : work'.started[g] = work.started[g] /\ work'.after[g] = work.after[g]
    BY <2>1, <2>2, MarkedFields
  <2>4. disk[f] = Pre(work, f)
    BY <1>1, WrittenFacts, ReadIsPre DEF WrittenInv
  <2>5. work' \in Journals /\ Intact(work)'
    BY <1>3 DEF IInv, TypeInv, Commanded, PushPhases, AtomicInv, WrittenInv, Writing
  <2>6. Status' = "in_progress"
    BY <1>1, <2>1, <2>3, <2>5, NoJournalAssumption, WrittenFacts DEF Status, LoadStatus, Intact
  <2>7. ~work.started[f]
    BY DEF Ahead
  <2> QED
    BY <1>1, <1>2, <1>3, <2>1, <2>3, <2>4, <2>6, <2>7, WrittenFacts, EffectiveRecord
<1>4. CASE FailPersist(work') /\ RollBack(undo)
  BY <1>1, <1>4, EffectiveStays DEF FailPersist, RollBack, Writing
<1> QED
  BY <1>3, <1>4 DEF MarkStarted

LEMMA EffectiveMark ==
    ASSUME LateFsync = FALSE, IInv, IInv', AtomicInv, AtomicInv', MarkWordlist \/ NextTarget
    PROVE  UNCHANGED <<Effective, edits, commits>>
<1>1. UNCHANGED <<disk, edits, commits>> /\ pc \in Writing
  BY DEF MarkWordlist, NextTarget, ghosts, Writing
<1>2. CASE MarkWordlist
  <2>1. Wordlist \in work.listed /\ Ahead(Wordlist) /\ Due(Wordlist)
    BY <1>1, <1>2, WritingFacts DEF MarkWordlist, Protected, AtomicInv, WrittenInv, Ahead
  <2> QED
    BY <1>1, <1>2, <2>1, EffectiveMarkStarted DEF MarkWordlist
<1>3. CASE NextTarget
  <2>1. /\ pc = "targets" /\ todo \subseteq work.listed /\ First(todo) \in todo
    BY <1>1, <1>3, FirstMember, FileTypes DEF NextTarget, IInv, TypeInv, TypeOK, WritingInv
  <2>2. First(todo) \in work.listed /\ Ahead(First(todo)) /\ First(todo) # Wordlist
    BY <1>1, <2>1, WrittenFacts DEF WrittenInv, Ahead
  <2>3. CASE ~TargetConflict(First(todo)) /\ MarkStarted(First(todo))
    BY <1>1, <2>1, <2>2, <2>3, EffectiveMarkStarted DEF TargetConflict, Due
  <2>4. CASE RollBack(undo) /\ UNCHANGED <<stored, work, faults>>
    BY <1>1, <2>1, <2>4, EffectiveStays DEF RollBack, stored
  <2> QED
    BY <1>3, <2>3, <2>4 DEF NextTarget
<1> QED
  BY <1>2, <1>3

LEMMA EffectiveWriteFile ==
    ASSUME IInv, AtomicInv, WriteFile
    PROVE  UNCHANGED <<Effective, edits, commits>>
<1>1. /\ pc = "write" /\ pc \in Writing /\ pc' # "copying"
      /\ cur \in work.listed /\ work.started[cur] /\ work.after[cur] = plan.words
      /\ UNCHANGED <<journal, dirs, snap, edits, commits>> /\ TypeOK
  BY DEF WriteFile, Writing, stored, RollBack, IInv, WritingInv, TypeInv
<1>2. disk[cur] = Pre(work, cur) /\ cur \in Files
  BY <1>1, WrittenFacts DEF WrittenInv
<1>3. Status = "in_progress"
  BY <1>1, NotBlocked, WrittenFacts
<1>4. /\ \A g \in Files \ {cur} : disk'[g] = disk[g]
      /\ disk'[cur] \in {disk[cur], plan.words}
  BY <1>1, <1>2 DEF WriteFile, Leave, TypeOK
<1> QED
  BY <1>1, <1>2, <1>3, <1>4, WrittenFacts, EffectiveUndo

LEMMA EffectiveVerifyFile ==
    ASSUME LateFsync = FALSE, IInv, IInv', AtomicInv, AtomicInv', VerifyFile
    PROVE  UNCHANGED <<Effective, edits, commits>>
<1>1. /\ pc = "verify" /\ pc \in Writing /\ pc' # "copying" /\ UNCHANGED <<disk, edits, commits>>
      /\ cur \in Files
  BY DEF VerifyFile, Writing, RollBack, ghosts, IInv, TypeInv, TypeOK
<1>2. CASE UNCHANGED <<journal, dirs, snap>>
  BY <1>1, <1>2, EffectiveStays
<1>3. CASE Persist(work') /\ pc' = "targets" /\ work' = [work EXCEPT !.completed[cur] = TRUE]
  <2>1. journal' = work' /\ UNCHANGED <<dirs, snap>>
    BY <1>3 DEF Persist
  <2>2. /\ work'.listed = work.listed /\ work'.existed = work.existed
        /\ work'.before = work.before /\ work'.state = work.state
        /\ work'.started = work.started /\ work'.after = work.after
    BY <1>1, <1>3, WrittenFacts, CompletedFields
  <2>3. work' \in Journals /\ Intact(work)'
    BY <1>3 DEF IInv, TypeInv, Commanded, PushPhases, AtomicInv, WrittenInv, Writing
  <2>4. Status' = "in_progress"
    BY <1>1, <2>1, <2>2, <2>3, NoJournalAssumption, WrittenFacts DEF Status, LoadStatus, Intact
  <2>5. Status = "in_progress"
    BY <1>1, NotBlocked, WrittenFacts
  <2> QED
    BY <1>1, <1>3, <2>1, <2>2, <2>4, <2>5, WrittenFacts, EffectiveRecord
<1> QED
  BY <1>2, <1>3 DEF VerifyFile, stored, FailPersist

LEMMA EffectiveRollback ==
    ASSUME TornCopies = FALSE, IInv, AtomicInv, RollbackFile \/ CopyBack
    PROVE  UNCHANGED <<Effective, edits, commits>>
<1>1. /\ pc \in RollingBack /\ TypeOK /\ UndoneInv
      /\ UNCHANGED <<journal, dirs, snap, edits, commits>>
  BY DEF RollbackFile, CopyBack, RemoveCreated, OpenForCopy, RolledBack, counts, stored,
     RollingBack, IInv, TypeInv, AtomicInv
<1>2. /\ Status = "in_progress"
      /\ \A g \in undo : /\ g \in Files /\ g \in journal.listed /\ journal.started[g]
                         /\ journal.after[g] = work.after[g] /\ Pre(journal, g) = Pre(work, g)
                         /\ \/ disk[g] \in {journal.after[g], Pre(journal, g)}
                            \/ pc = "copying" /\ cur = g
  BY <1>1, NotBlocked, RollingBackFacts DEF UndoneInv, Pre
<1>3. CASE RollbackFile
  <2> DEFINE f == NextUndo
  <2>1. pc = "rollback" /\ f \in undo
    <3>1. todo \subseteq Files /\ todo # {} /\ pc = "rollback"
      BY <1>1, <1>3 DEF RollbackFile, TypeOK
    <3> QED
      BY <1>1, <3>1, NextUndoMember, RollingBackFacts
  <2>2. RemoveCreated(f) \/ OpenForCopy(f)
    BY <1>3 DEF RollbackFile
  <2> HIDE DEF f
  <2>3. \A g \in Files \ {f} : disk'[g] = disk[g]
    BY <1>1, <2>2 DEF RemoveCreated, OpenForCopy, Leave, TypeOK
  <2>4. \/ pc' = "rollback" /\ disk'[f] \in {disk[f], None}
        \/ pc' = "copying" /\ cur' = f
    BY <1>1, <1>2, <2>1, <2>2 DEF RemoveCreated, OpenForCopy, RolledBack, TypeOK
  <2> QED
    BY <1>1, <1>2, <2>1, <2>3, <2>4, EffectiveUndo
<1>4. CASE CopyBack
  <2>1. /\ pc = "copying" /\ pc' = "rollback" /\ disk' = [disk EXCEPT ![cur] = snap[tx][cur]]
    BY <1>4 DEF CopyBack, RolledBack
  <2>2. cur \in undo /\ cur \in Files /\ snap[tx][cur] = Pre(work, cur)
    BY <2>1, SnapshotIsPre
  <2>3. disk'[cur] = Pre(journal, cur) /\ \A g \in Files \ {cur} : disk'[g] = disk[g]
    BY <1>1, <1>2, <2>1, <2>2 DEF TypeOK
  <2> QED
    BY <1>1, <1>2, <2>1, <2>2, <2>3, EffectiveUndo
<1> QED
  BY <1>3, <1>4

LEMMA EffectiveMarkIncomplete ==
    ASSUME LateFsync = FALSE, IInv, IInv', AtomicInv, MarkIncomplete
    PROVE  UNCHANGED <<Effective, edits, commits>>
<1> DEFINE j == [work EXCEPT !.state = "rollback_incomplete"]
<1>1. /\ pc = "mark_incomplete" /\ pc \in RollingBack /\ pc' = "idle"
      /\ UNCHANGED <<disk, dirs, snap, edits, commits>> /\ journal' \in {j, journal} /\ UndoneInv
  BY DEF MarkIncomplete, RollingBack, Persist, FailPersist, EndPush, Release, ghosts, AtomicInv
<1>2. /\ j.tx = work.tx /\ j.listed = work.listed /\ j.existed = work.existed
      /\ j.before = work.before /\ j.started = work.started /\ j.after = work.after
      /\ j.state = "rollback_incomplete" /\ j \in Journals /\ j.completed = work.completed
  <2>1. work \in Journals
    BY <1>1, RollingBackFacts
  <2> QED
    BY <2>1, StateFields, JournalTypes DEF Journals
<1> HIDE DEF j
<1>3. CASE journal' = journal
  BY <1>1, <1>3, EffectiveStays
<1>4. CASE journal' = j
  <2>1. Status = "in_progress" /\ journal # NoJournal
    BY <1>1, NotBlocked, RollingBackFacts DEF UndoneInv
  <2>2. Status' = "in_progress"
    BY <1>1, <1>2, <1>4, NoJournalAssumption
    DEF UndoneInv, Intact, Status, LoadStatus, WellFormed, SnapshotsIntact
  <2>3. journal \in Journals /\ work \in Journals /\ work.listed \subseteq Files
    BY <1>1, RollingBackFacts DEF Journals
  <2>4. ASSUME NEW f \in journal.listed
        PROVE  \/ /\ journal'.started[f] = journal.started[f]
                  /\ journal.started[f] => journal'.after[f] = journal.after[f]
               \/ /\ ~journal.started[f] /\ journal'.started[f]
                  /\ disk[f] = Pre(journal, f) \/ disk[f] \notin {journal'.after[f], None}
    <3>1. f \in work.listed /\ f \in Files
      BY <1>1, <2>3, RollingBackFacts
    <3>2. journal.started[f] \in BOOLEAN /\ work.started[f] \in BOOLEAN
      BY <2>3, <3>1 DEF Journals
    <3>3. CASE f \in undo
      BY <1>1, <1>2, <1>4, <3>2, <3>3, RollingBackFacts
    <3>4. CASE f \notin undo
      <4>1. ~journal.started[f] /\ SettledFile(work, f)
        BY <1>1, <3>1, <3>4 DEF UndoneInv
      <4> QED
        BY <1>1, <1>2, <1>4, <3>2, <4>1, RollingBackFacts DEF SettledFile, Foreign, Pre
    <3> QED
      BY <3>3, <3>4
  <2> QED
    BY <1>1, <1>2, <1>4, <2>1, <2>2, <2>4, RollingBackFacts, EffectiveRecord
<1> QED
  BY <1>1, <1>3, <1>4

\* What is stored may go: nothing counts but the disk.
LEMMA EffectiveDiscard ==
    ASSUME IInv, IInv', AtomicInv,
           UnlinkIgnoringErrors \/ DiscardSnapshots
           \/ CleanupJournal \/ CleanupSnapshots \/ ForgetJournal
    PROVE  UNCHANGED <<Effective, edits, commits>>
<1>1. /\ journal' \in {journal, NoJournal} /\ UNCHANGED <<disk, edits, commits>>
      /\ pc # "copying" /\ pc' # "copying" /\ TypeOK /\ TypeOK'
  BY DEF UnlinkIgnoringErrors, DiscardSnapshots, CleanupJournal, CleanupSnapshots, ForgetJournal,
     UnlinkJournal, RemoveSnapshots, stored, ghosts, EndPush, EndRecover, Release, IInv, TypeInv
<1>2. CASE UnlinkIgnoringErrors \/ DiscardSnapshots \/ CleanupJournal \/ CleanupSnapshots
  <2>1. Settled
    BY <1>2 DEF UnlinkIgnoringErrors, DiscardSnapshots, CleanupJournal, CleanupSnapshots,
       AtomicInv, SettledInv, Settled
  <2>2. Settled'
    BY <1>1, <1>2, <2>1 DEF UnlinkIgnoringErrors, DiscardSnapshots, CleanupJournal, CleanupSnapshots,
       Settled, SettledFile, Foreign, Pre
  <2>3. Plain
    BY <1>1, <2>1, SettledIsPlain, PlainCases DEF Status, LoadStatus
  <2>4. Plain'
    BY <1>1, <2>2 DEF Plain, Covered, Status, LoadStatus, Settled, SettledFile, Foreign, Pre, BeforePush
  <2> QED
    BY <1>1, <2>3, <2>4, EffectivePlain
<1>3. CASE ForgetJournal
  <2>1. Status = "corrupt"
    BY <1>3 DEF ForgetJournal, AtomicInv, RestoredInv
  <2>2. CASE journal' = NoJournal
    <3>1. Plain'
      BY <2>2 DEF Plain, Covered, Status, LoadStatus
    <3> QED
      BY <1>1, <2>1, <3>1, PlainCases, EffectivePlain
  <2>3. CASE UNCHANGED stored
    BY <1>1, <2>3, EffectiveStays DEF stored
  <2> QED
    BY <1>3, <2>2, <2>3 DEF ForgetJournal, UnlinkJournal
<1> QED
  BY <1>2, <1>3

LEMMA EffectiveReplaceFile ==
    ASSUME IInv, AtomicInv, ReplaceFile
    PROVE  UNCHANGED <<Effective, edits, commits>>
<1>1. /\ pc = "replace" /\ pc' = "restore" /\ TypeOK
      /\ UNCHANGED <<journal, dirs, snap, edits, commits>>
  BY DEF ReplaceFile, stored, IInv, TypeInv
<1>2. /\ \A g \in Files \ {cur} : disk'[g] = disk[g]
      /\ disk'[cur] \in {disk[cur], Pre(journal, cur)}
  BY <1>1, ReplacedIsPre DEF ReplaceFile, TypeOK
<1> QED
  BY <1>1, <1>2, ReplacedIsPre, EffectiveUndo

\* COMPLETED on disk is the moment at which all written files change, to the words
\* of the plan; the others keep their content.
LEMMA EffectiveComplete ==
    ASSUME LateFsync = FALSE, IInv, IInv', PlanInv, AtomicInv, Complete
    PROVE  Abstract!Commit \/ UNCHANGED <<Effective, edits, commits>>
<1>1. /\ pc = "targets" /\ pc \in Writing /\ UNCHANGED <<disk, edits>> /\ pc' # "copying"
      /\ TypeOK /\ TypeOK' /\ todo = {}
  BY DEF Complete, Writing, RollBack, IInv, TypeInv
<1>2. CASE Persist(work') /\ commits' = commits + 1
  <2> DEFINE S == {f \in work.listed : work.started[f]}
  <2>1. journal' = work' /\ work'.state = "completed" /\ work' \in Journals
    <3>1. work' = [work EXCEPT !.state = "completed"] /\ work \in Journals
      BY <1>1, WrittenFacts DEF Complete
    <3> QED
      BY <1>2, <3>1, StateFields, JournalTypes DEF Persist
  <2>2. Effective' = disk
    <3>1. Plain'
      BY <2>1 DEF Plain, Covered, Status, LoadStatus
    <3> QED
      BY <1>1, <3>1 DEF Plain, Effective, TypeOK
  <2>3. plan.words \in Rendered
    BY <1>1 DEF PlanInv, Writing, PushPhases
  <2>4. S \in SUBSET Files /\ \A f \in S : disk[f] = plan.words
    BY <1>1, WrittenFacts DEF WrittenInv
  <2>5. \A f \in Files \ S : Effective[f] = disk[f]
    BY <1>1, WrittenFacts DEF Effective, Covered
  <2>6. Effective' = [f \in Files |-> IF f \in S THEN plan.words ELSE Effective[f]]
    BY <1>1, <2>2, <2>4, <2>5 DEF TypeOK
  <2> HIDE DEF S
  <2> QED
    BY <1>1, <1>2, <2>3, <2>4, <2>6 DEF Abstract!Commit
<1>3. CASE FailPersist(work') /\ UNCHANGED ghosts
  BY <1>1, <1>3, EffectiveStays DEF FailPersist, ghosts
<1> QED
  BY <1>2, <1>3 DEF Complete

\* What another program does to a file changes the content of that file alone.
LEMMA EffectiveEdit ==
    ASSUME IInv, IInv', NEW f \in Files, NEW v \in EditValues, Edit(f, v)
    PROVE  Abstract!Edit
<1>1. /\ UNCHANGED <<journal, dirs, snap, pc, cur, commits>> /\ edits' = edits + 1
      /\ \A g \in Files \ {f} : disk'[g] = disk[g]
  BY DEF Edit, stored, command, IInv, TypeInv, TypeOK
<1>2. Effective'[f] \in Values
  <2>1. disk'[f] \in Values /\ None \in Values /\ journal' \in Journals \cup {NoJournal}
    BY ValueTypes DEF IInv, TypeInv, TypeOK
  <2>2. Covered(f)' => journal' # NoJournal
    BY DEF Covered, Status, LoadStatus
  <2>3. Covered(f)' => BeforePush(f)' \in Values
    BY <2>1, <2>2, ValueTypes DEF BeforePush, Journals
  <2> QED
    BY <2>1, <2>3 DEF Effective
<1>3. \A g \in Files \ {f} : Effective'[g] = Effective[g]
  BY <1>1 DEF Effective, Covered, BeforePush, Status
<1>4. Effective' = [Effective EXCEPT ![f] = Effective'[f]]
  BY <1>3 DEF Effective
<1> QED
  BY <1>1, <1>2, <1>4 DEF Abstract!Edit

LEMMA EffectiveStutter == UNCHANGED vars => UNCHANGED <<Effective, edits, commits>>
<1> SUFFICES ASSUME UNCHANGED vars PROVE UNCHANGED <<Effective, edits, commits>>
  OBVIOUS
<1>1. UNCHANGED <<disk, journal, dirs, snap, pc, cur, edits, commits>>
  BY DEF vars, stored, command, counts, ghosts
<1> QED
  BY <1>1, EffectiveStays

LEMMA AtomicStep ==
    ASSUME LateFsync = FALSE, TornCopies = FALSE, IInv, IInv', PlanInv, AtomicInv, AtomicInv',
           [Next]_vars
    PROVE  [Abstract!Next]_<<Effective, edits, commits>>
<1>1. CASE \E f \in Files, v \in EditValues : Edit(f, v)
  BY <1>1, EffectiveEdit DEF Abstract!Next
<1>2. CASE Complete
  BY <1>2, EffectiveComplete DEF Abstract!Next
<1>3. CASE UNCHANGED <<Effective, edits, commits>>
  BY <1>3
<1> QED
  BY <1>1, <1>2, <1>3, EffectiveIdle, EffectiveBegin, EffectiveMark, EffectiveWriteFile,
     EffectiveVerifyFile, EffectiveRollback, EffectiveMarkIncomplete, EffectiveDiscard,
     EffectiveReplaceFile, EffectiveStutter
  DEF Next, CommandStep, PushStep, RecoverStep

\* An update is all or nothing.  Whatever fails and wherever the process dies, the
\* word list and the dictionaries behave as if the update gave them the new words
\* in one step, when COMPLETED is on disk, or never: PushTransaction implements
\* AtomicUpdate, under the refinement that Effective gives.
THEOREM PushIsAtomic ==
    ASSUME LateFsync = FALSE, TornCopies = FALSE, BenignEdits = TRUE \/ MaxEdits = 0
    PROVE  Spec => IsAtomicUpdate
<1> DEFINE J == IInv /\ PlanInv /\ AtomicInv /\ Undisturbed
<1>1. Init => J
  BY AtomicInit, InvInit DEF Init, Undisturbed
<1>2. J /\ [Next]_vars => J'
  <2> SUFFICES ASSUME J, [Next]_vars PROVE J'
    OBVIOUS
  <2>1. IInv' /\ PlanInv'
    BY InvNext, PlanNext DEF IInv
  <2>2. Undisturbed'
    <3>1. CASE BenignEdits = TRUE
      BY <3>1 DEF Undisturbed
    <3>2. CASE MaxEdits = 0 /\ edits = 0
      <4>1. UNCHANGED edits
        <5>1. CASE \E f \in Files, v \in EditValues : Edit(f, v)
          BY <3>2, <5>1 DEF Edit
        <5>2. CASE [Next]_vars /\ ~(\E f \in Files, v \in EditValues : Edit(f, v))
          BY <5>2, EditsStay
        <5> QED
          BY <5>1, <5>2
      <4> QED
        BY <3>2, <4>1 DEF Undisturbed
    <3> QED
      BY <3>1, <3>2 DEF Undisturbed
  <2> QED
    BY <2>1, <2>2, AtomicNext
<1>3. Init => Abstract!Init
  <2> SUFFICES ASSUME Init PROVE Abstract!Init
    OBVIOUS
  <2>1. TypeOK /\ Effective = disk
    BY TypeInit, PlainCases, PlainIsDisk DEF Init, TypeInv
  <2> QED
    BY <2>1 DEF Init, TypeOK, Abstract!Init
<1>4. J /\ J' /\ [Next]_vars => [Abstract!Next]_<<Effective, edits, commits>>
  BY AtomicStep
<1> QED
  BY <1>1, <1>2, <1>3, <1>4, PTL DEF Spec, IsAtomicUpdate, Abstract!Spec
=============================================================================

------------------------ MODULE PushTransaction_proofs ------------------------
(***************************************************************************)
(* Proofs about PushTransaction, for any number of dictionaries, any        *)
(* contents and any bounds.                                                 *)
(***************************************************************************)
EXTENDS PushTransaction, WellFoundedInduction, TLAPS

(* What is known of the command's own variables in each phase.              *)

Commanded == PushPhases \cup RecoverPhases

TypeInv ==
    /\ TypeOK
    /\ pc \in PushPhases => plan \in Plans
    /\ pc \in Commanded => tx \in TxIds
    /\ pc \in Commanded \ {"begin"} => work \in Journals

(* The inductive invariant behind WriteAhead.                               *)

\* A started file has a recorded hash to come.
Recorded(j) == \A f \in Files : j.started[f] => j.after[f] \in Content

\* The snapshots of the files the command may write are there.
Protected ==
    /\ work.tx = tx /\ undo \subseteq work.listed /\ Wordlist \in work.listed
    /\ \A f \in work.listed : work.existed[f] => tx \in dirs /\ snap[tx][f] # None

Writing     == {"late_check", "mark_wordlist", "write", "verify", "targets"}
RollingBack == {"rollback", "copying", "mark_incomplete"}
Quiet       == {"begin", "journal_begin", "late_check", "mark_wordlist",
                "unlink", "discard", "cleanup", "cleanup_snapshots"}

JournalCore ==
    /\ uncommitted # {} => journal # NoJournal /\ journal.state # "completed"
    /\ WriteAhead
    /\ \A f \in uncommitted : disk[f] # journal.before[f]
    /\ journal # NoJournal => Recorded(journal)

QuietInv ==
    /\ pc \in Quiet => uncommitted = {}
    /\ pc \in {"idle", "begin", "journal_begin", "late_check", "mark_wordlist"} => undo = {}

WritingInv ==
    pc \in Writing =>
       /\ Protected /\ journal = work /\ work.state = "writing"
       /\ uncommitted \subseteq undo
       /\ \A f \in undo : work.started[f] /\ work.after[f] = plan.words
       /\ pc \in {"mark_wordlist", "write", "verify", "targets"} => todo \subseteq work.listed
       /\ pc \in {"write", "verify"} =>
             cur \in work.listed /\ work.started[cur] /\ work.after[cur] = plan.words

BeginInv ==
    pc = "journal_begin" =>
       /\ Protected /\ work.state = "writing" /\ \A f \in Files : ~work.started[f]

RollingBackInv ==
    pc \in RollingBack =>
       /\ Protected /\ journal # NoJournal /\ journal.state = "writing"
       /\ journal.tx = work.tx /\ journal.listed = work.listed
       /\ journal.existed = work.existed /\ journal.before = work.before
       /\ Recorded(work)
       /\ \A f \in undo : /\ journal.started[f] /\ work.started[f]
                          /\ journal.after[f] = work.after[f]
       /\ uncommitted \subseteq todo \cup bad /\ todo \cup bad \subseteq undo
       /\ pc = "copying" => cur \in todo

RecoveringInv ==
    pc \in {"restore", "replace"} =>
       /\ journal = work /\ work.tx = tx /\ todo \subseteq work.listed
       /\ uncommitted \subseteq todo \cup bad \cup (IF pc = "replace" THEN {cur} ELSE {})
       /\ pc = "replace" => cur \in work.listed /\ work.started[cur]

IInv ==
    /\ TypeInv /\ JournalCore /\ QuietInv /\ BeginInv /\ WritingInv
    /\ RollingBackInv /\ RecoveringInv
-----------------------------------------------------------------------------
(* Facts about the operators.                                               *)

\* A non-empty set of files has a first one, so First is a member of it.
LEMMA FirstMember ==
    ASSUME NEW S \in SUBSET Nat, S # {}
    PROVE  First(S) \in S
<1>1. IsWellFoundedOn(OpToRel(<, Nat), Nat)
  BY NatLessThanWellFounded
<1>2. PICK x \in S : \A y \in S : ~(<<y, x>> \in OpToRel(<, Nat))
  BY <1>1, WFMin
<1>3. ASSUME NEW y \in S, y < x PROVE FALSE
  <2>1. <<y, x>> \in OpToRel(<, Nat)
    BY <1>3, <<y, x>>[1] = y, <<y, x>>[2] = x, <<y, x>> \in Nat \X Nat DEF OpToRel
  <2> QED
    BY <2>1, <1>2
<1>4. \A y \in S : x <= y
  BY <1>3
<1>5. QED
  BY <1>4, Zenon DEF First

\* Contents, hashes and what a path may hold.
LEMMA ValueTypes ==
    /\ Content \subseteq Hashes /\ Hashes \subseteq Values /\ None \in Hashes /\ Torn \in Hashes
    /\ \A v \in Values : Hash(v) \in Hashes
    /\ NoSnapshots \in [Files -> Hashes]
BY DEF Hashes, Values, Hash, NoSnapshots

LEMMA FileTypes ==
    /\ Files \subseteq Nat /\ Dicts \subseteq Files /\ Wordlist \in Files
    /\ \A f \in Files : f # Wordlist => f \in Dicts
BY ValuesAssumption DEF Files, Dicts, Wordlist

-----------------------------------------------------------------------------
(* Type correctness.                                                        *)

LEMMA TypeInit == Init => TypeInv
<1> SUFFICES ASSUME Init PROVE TypeInv
  OBVIOUS
<1>1. disk \in [Files -> Values]
  BY EnvironmentAssumption, ValueTypes DEF Init, Values, Hashes
<1>2. snap \in [TxIds -> [Files -> Hashes]]
  BY ValueTypes DEF Init
<1> QED
  BY <1>1, <1>2, FileTypes DEF Init, TypeInv, TypeOK, Commanded, PushPhases, RecoverPhases

\* What a command leaves behind when it ends.
LEMMA TypeRelease ==
    ASSUME TypeInv, Release,
           disk' \in [Files -> Values], journal' \in Journals \cup {NoJournal},
           dirs' \subseteq TxIds, snap' \in [TxIds -> [Files -> Hashes]],
           plan' \in Plans \cup {NoPlan}, preview' \in Previews \cup {NoPreview},
           edits' \in Nat, faults' \in Nat, crashes' \in Nat,
           commits' \in Nat, uncommitted' \subseteq Files
    PROVE  TypeInv'
BY FileTypes DEF Release, TypeInv, TypeOK, Commanded, PushPhases, RecoverPhases

LEMMA TypeRemoveSnapshots ==
    ASSUME TypeInv, NEW t \in TxIds, RemoveSnapshots(t)
    PROVE  /\ dirs' \subseteq TxIds /\ snap' \in [TxIds -> [Files -> Hashes]]
           /\ faults' \in Nat /\ journal' = journal
BY ValueTypes DEF TypeInv, TypeOK, RemoveSnapshots, Fault

\* The updates of a journal give journals.
LEMMA JournalTypes ==
    ASSUME NEW j \in Journals
    PROVE  /\ \A b \in [Files -> Hashes] : [j EXCEPT !.before = b] \in Journals
           /\ \A s \in {"writing", "completed", "rollback_incomplete"} :
                 [j EXCEPT !.state = s] \in Journals
           /\ \A f \in Files : [j EXCEPT !.completed[f] = TRUE] \in Journals
<1>1. \A b \in [Files -> Hashes] : [j EXCEPT !.before = b] \in Journals
  BY DEF Journals
<1>2. \A s \in {"writing", "completed", "rollback_incomplete"} :
         [j EXCEPT !.state = s] \in Journals
  BY DEF Journals
<1>3. \A f \in Files : [j EXCEPT !.completed[f] = TRUE] \in Journals
  BY DEF Journals
<1> QED
  BY <1>1, <1>2, <1>3

LEMMA MarkedType ==
    ASSUME NEW j \in Journals, NEW f \in Files, plan \in Plans
    PROVE  Marked(j, f) \in Journals
<1>1. plan.words \in Hashes
  BY ValueTypes DEF Plans
<1> QED
  BY <1>1 DEF Marked, Journals

LEMMA TypeBeginTransaction == TypeInv /\ BeginTransaction => TypeInv'
<1> SUFFICES ASSUME TypeInv, BeginTransaction PROVE TypeInv'
  OBVIOUS
<1> USE FileTypes, ValueTypes
<1>1. tx \in TxIds /\ plan \in Plans /\ plan.targets \cup {Wordlist} \subseteq Files
  BY DEF BeginTransaction, TypeInv, Plans, Commanded, PushPhases
<1> DEFINE source == plan.targets \cup {Wordlist}
           existed == [f \in Files |-> f \in source /\ disk[f] # None]
           saved(lost) == {f \in source \ lost : disk[f] \notin {None, Unreadable}}
           backed(lost) == {f \in source : existed[f] => f \in saved(lost)}
           ready(lost, locked) == (backed(lost) \ locked) \ {Wordlist}
           kept(lost) == [f \in Files |-> IF f \in saved(lost) THEN disk[f] ELSE None]
           record(lost, locked) ==
              [tx |-> tx, state |-> "writing",
               listed |-> ready(lost, locked) \cup {Wordlist}, existed |-> existed,
               before |-> NoSnapshots, after |-> NoSnapshots,
               started |-> [f \in Files |-> FALSE],
               completed |-> [f \in Files |-> FALSE]]
<1>2. PICK lost \in SUBSET source, locked \in SUBSET source :
         /\ faults' \in Nat
         /\ dirs' = dirs \cup {tx}
         /\ snap' = [snap EXCEPT ![tx] = kept(lost)]
         /\ EndPush \/ /\ work' = record(lost, locked)
                       /\ pc' = "journal_begin"
                       /\ UNCHANGED <<plan, preview, tx, cur, todo, undo, bad>>
  <2>1. PICK lost \in SUBSET source, locked \in SUBSET source, strict \in BOOLEAN :
           /\ IF lost = {} THEN UNCHANGED faults ELSE Fault
           /\ dirs' = dirs \cup {tx}
           /\ snap' = [snap EXCEPT ![tx] = kept(lost)]
           /\ EndPush \/ /\ work' = record(lost, locked)
                         /\ pc' = "journal_begin"
                         /\ UNCHANGED <<plan, preview, tx, cur, todo, undo, bad>>
    BY Zenon DEF BeginTransaction, Saved, TakeSnapshots
  <2>2. faults' \in Nat
    BY <2>1 DEF Fault, TypeInv, TypeOK
  <2> HIDE DEF record, kept
  <2> QED
    BY <2>1, <2>2
<1>3. kept(lost) \in [Files -> Hashes]
  BY DEF TypeInv, TypeOK, Values
<1>4. dirs' \subseteq TxIds /\ snap' \in [TxIds -> [Files -> Hashes]]
  BY <1>1, <1>2, <1>3 DEF TypeInv, TypeOK
<1>5. UNCHANGED <<disk, journal, edits, crashes, commits, uncommitted>>
  BY DEF BeginTransaction, ghosts
<1>6. CASE EndPush
  BY <1>2, <1>4, <1>5, <1>6, TypeRelease DEF EndPush, TypeInv, TypeOK
<1>7. CASE /\ work' = record(lost, locked) /\ pc' = "journal_begin"
           /\ UNCHANGED <<plan, preview, tx, cur, todo, undo, bad>>
  <2>1. record(lost, locked) \in Journals
    BY <1>1 DEF Journals
  <2> HIDE DEF record, kept
  <2> QED
    BY <1>1, <1>2, <1>4, <1>5, <1>7, <2>1 DEF TypeInv, TypeOK, Commanded, PushPhases,
       RecoverPhases
<1> QED
  BY <1>2, <1>6, <1>7

\* A plan is made a field at a time, and nothing else changes meanwhile.
LEMMA PlanStepFacts ==
    ASSUME TypeInv, PlanStep
    PROVE  /\ plan' \in Plans /\ pc \notin PushPhases
           /\ UNCHANGED <<disk, stored, pc, preview, command, counts, ghosts>>
<1>1. CASE ReadWords
  <2>1. PICK words \in Rendered :
           plan' = [stage |-> "words", targets |-> {}, read |-> NoSnapshots,
                    from |-> disk[Wordlist], words |-> words, rewrite |-> FALSE]
    BY <1>1 DEF ReadWords
  <2> QED
    BY <1>1, <2>1, ValueTypes, EnvironmentAssumption DEF ReadWords, Plans
<1>2. CASE ReadTargets
  <2>1. PICK targets \in SUBSET {d \in Dicts : disk[d] # Unreadable} :
           plan' = [plan EXCEPT !.stage = "targets", !.targets = targets,
                      !.read = [f \in Files |-> IF f \in targets THEN disk[f] ELSE None]]
    BY <1>2 DEF ReadTargets
  <2>2. plan \in Plans
    BY <1>2 DEF ReadTargets, TypeInv, TypeOK
  <2>3. [f \in Files |-> IF f \in targets THEN disk[f] ELSE None] \in [Files -> Hashes]
    BY ValueTypes, FileTypes DEF TypeInv, TypeOK, Values
  <2> QED
    BY <1>2, <2>1, <2>2, <2>3 DEF ReadTargets, Plans
<1>3. CASE PlanRewrite
  <2>1. PICK rewrite \in BOOLEAN : plan' = [plan EXCEPT !.stage = "rewrite", !.rewrite = rewrite]
    BY <1>3 DEF PlanRewrite
  <2>2. plan \in Plans
    BY <1>3 DEF PlanRewrite, TypeInv, TypeOK
  <2> QED
    BY <1>3, <2>1, <2>2 DEF PlanRewrite, Plans
<1>4. CASE HashList
  <2>1. plan \in Plans /\ Hash(disk[Wordlist]) \in Hashes
    BY <1>4, ValueTypes, FileTypes DEF HashList, TypeInv, TypeOK
  <2> QED
    BY <1>4, <2>1 DEF HashList, Plans
<1> QED
  BY <1>1, <1>2, <1>3, <1>4 DEF PlanStep

LEMMA TypePlanStep == TypeInv /\ PlanStep => TypeInv'
BY PlanStepFacts DEF stored, command, counts, ghosts, TypeInv, TypeOK, Commanded, PushPhases,
   RecoverPhases

LEMMA TypeFault == TypeInv /\ (Fault \/ faults' = faults) => faults' \in Nat
BY DEF Fault, TypeInv, TypeOK

\* A command goes on with the variables it alone keeps in their types.
LEMMA TypeGoOn ==
    ASSUME TypeInv, pc \in Commanded \ {"begin"}, pc' \in Commanded \ {"begin"},
           pc' \in PushPhases => pc \in PushPhases,
           UNCHANGED <<tx, plan, preview>>,
           work' \in Journals, journal' \in Journals \cup {NoJournal},
           dirs' \subseteq TxIds, snap' \in [TxIds -> [Files -> Hashes]],
           disk' \in [Files -> Values], cur' \in Files,
           todo' \subseteq Files, undo' \subseteq Files, bad' \subseteq Files,
           edits' \in Nat, faults' \in Nat, crashes' \in Nat,
           commits' \in Nat, uncommitted' \subseteq Files
    PROVE  TypeInv'
BY DEF TypeInv, TypeOK, Commanded, PushPhases, RecoverPhases

LEMMA TypeMarkStarted ==
    ASSUME TypeInv, NEW f \in Files, MarkStarted(f), pc \in PushPhases \ {"begin"},
           UNCHANGED <<disk, edits, crashes, ghosts>>
    PROVE  TypeInv'
<1>1. Marked(work, f) \in Journals
  BY MarkedType DEF TypeInv, Commanded
<1>2. work' \in Journals /\ journal' \in Journals \cup {NoJournal} /\ faults' \in Nat
  BY <1>1 DEF MarkStarted, Persist, FailPersist, Fault, TypeInv, TypeOK
<1> QED
  BY <1>2 DEF MarkStarted, Persist, FailPersist, RollBack, ghosts, TypeInv, TypeOK,
     Commanded, PushPhases, RecoverPhases

LEMMA TypeNext == TypeInv /\ [Next]_vars => TypeInv'
<1> SUFFICES ASSUME TypeInv, [Next]_vars PROVE TypeInv'
  OBVIOUS
<1> USE FileTypes, ValueTypes
<1>1. CASE PlanStep
  BY <1>1, TypePlanStep
<1>2. CASE StartPush
  BY <1>2, TypeRelease DEF StartPush, EndPush, stored, counts, ghosts, TypeInv, TypeOK, Commanded,
     PushPhases, RecoverPhases
<1>3. CASE Inspect
  BY <1>3 DEF Inspect, RecoveryAction, LoadStatus, stored, command, counts, ghosts, TypeInv,
     TypeOK, Commanded,
     PushPhases, RecoverPhases, Previews
<1>4. CASE StartRecovery
  BY <1>4, TypeRelease DEF StartRecovery, StillAsShown, MayCleanUp, MayDiscard, SameJournal, EndRecover, stored, counts, ghosts,
     TypeInv, TypeOK, Commanded,
     PushPhases, RecoverPhases, Previews, Journals
<1>5. CASE FailBegin
  BY <1>5, TypeRelease DEF FailBegin, Fault, EndPush, stored, counts, ghosts, TypeInv, TypeOK
<1>6. CASE JournalBegin
  <2> DEFINE j == [work EXCEPT !.before =
                     [f \in Files |-> IF f \in work.listed THEN Hash(disk[f]) ELSE None]]
  <2>1. work \in Journals
    BY <1>6 DEF JournalBegin, TypeInv, Commanded, PushPhases
  <2>2. j \in Journals
    BY <2>1, JournalTypes DEF TypeInv, TypeOK
  <2> HIDE DEF j
  <2>3. /\ work' \in {j, work} /\ journal' \in {j, journal} /\ faults' \in Nat
        /\ pc' \in {"late_check", "discard"}
    BY <1>6 DEF JournalBegin, Persist, FailPersist, Fault, j, TypeInv, TypeOK
  <2> QED
    BY <1>6, <2>1, <2>2, <2>3 DEF JournalBegin, Persist, FailPersist, ghosts, TypeInv, TypeOK,
       Commanded, PushPhases, RecoverPhases
<1>7. CASE LateCheck
  BY <1>7 DEF LateCheck, RollBack, stored, counts, ghosts, TypeInv, TypeOK, Commanded,
     PushPhases, RecoverPhases, Journals
<1>8. CASE MarkWordlist
  BY <1>8, TypeMarkStarted DEF MarkWordlist, PushPhases
<1>9. CASE SkipRunning
  BY <1>9 DEF SkipRunning, stored, counts, ghosts, TypeInv, TypeOK, Commanded,
     PushPhases, RecoverPhases
<1>10. CASE NextTarget
  <2>1. First(todo) \in Files
    BY <1>10, FirstMember DEF NextTarget, TypeInv, TypeOK
  <2>2. CASE MarkStarted(First(todo))
    BY <1>10, <2>1, <2>2, TypeMarkStarted DEF NextTarget, PushPhases
  <2>3. CASE RollBack(undo) /\ UNCHANGED <<stored, work, faults>>
    BY <1>10, <2>3 DEF NextTarget, RollBack, stored, ghosts, TypeInv, TypeOK, Commanded,
       PushPhases, RecoverPhases
  <2> QED
    BY <1>10, <2>2, <2>3 DEF NextTarget
<1>11. CASE WriteFile
  <2>1. plan.words \in Values /\ cur \in Files
    BY <1>11 DEF WriteFile, TypeInv, TypeOK, PushPhases, Plans
  <2>2. disk' \in [Files -> Values] /\ uncommitted' \subseteq Files
    BY <1>11, <2>1 DEF WriteFile, Leave, TypeInv, TypeOK
  <2>3. faults' \in Nat
    BY <1>11, TypeFault DEF WriteFile
  <2>4. todo' \subseteq Files /\ undo' \subseteq Files /\ bad' \subseteq Files
    BY <1>11, <2>1 DEF WriteFile, RollBack, TypeInv, TypeOK
  <2> QED
    BY <1>11, <2>2, <2>3, <2>4, TypeGoOn DEF WriteFile, RollBack, stored, TypeInv, TypeOK,
       Commanded, PushPhases
<1>12. CASE VerifyFile
  <2>1. work \in Journals /\ cur \in Files
    BY <1>12 DEF VerifyFile, TypeInv, TypeOK, Commanded, PushPhases
  <2>2. work' \in Journals
    BY <1>12, <2>1, JournalTypes DEF VerifyFile
  <2> QED
    BY <1>12, <2>2, TypeGoOn DEF VerifyFile, RollBack, Persist, FailPersist, Fault, stored,
       ghosts,
       TypeInv, TypeOK, Commanded, PushPhases
<1>13. CASE Complete
  <2>1. work' \in Journals
    BY <1>13, JournalTypes DEF Complete, TypeInv, TypeOK, Commanded, PushPhases
  <2> QED
    BY <1>13, <2>1 DEF Complete, RollBack, Persist, FailPersist, Fault, stored, ghosts,
       TypeInv, TypeOK, Commanded, PushPhases, RecoverPhases
<1>14. CASE RollbackFile
  <2>1. NextUndo \in Files
    <3>1. todo \cap Dicts # {} => First(todo \cap Dicts) \in Dicts
      BY FirstMember
    <3> QED
      BY <3>1 DEF NextUndo
  <2>2. work \in Journals /\ pc \in Commanded \ {"begin"}
    BY <1>14 DEF RollbackFile, TypeInv, Commanded, PushPhases
  <2>3. CASE RemoveCreated(NextUndo)
    <3>1. disk' \in [Files -> Values] /\ uncommitted' \subseteq Files
      BY <2>1, <2>3 DEF RemoveCreated, TypeInv, TypeOK
    <3>2. faults' \in Nat
      BY <2>3, TypeFault DEF RemoveCreated
    <3>3. bad' \subseteq Files /\ todo' \subseteq Files
      BY <2>1, <2>3 DEF RemoveCreated, RolledBack, TypeInv, TypeOK
    <3> QED
      BY <1>14, <2>2, <2>3, <3>1, <3>2, <3>3, TypeGoOn DEF RollbackFile, RemoveCreated,
         RolledBack, stored,
         TypeInv, TypeOK, Commanded, PushPhases
  <2>4. CASE OpenForCopy(NextUndo)
    <3>1. disk' \in [Files -> Values] /\ uncommitted' \subseteq Files
      BY <2>1, <2>4 DEF OpenForCopy, Leave, TypeInv, TypeOK
    <3>2. faults' \in Nat
      BY <2>4, TypeFault DEF OpenForCopy, counts
    <3>3. bad' \subseteq Files /\ todo' \subseteq Files
      BY <2>1, <2>4 DEF OpenForCopy, RolledBack, TypeInv, TypeOK
    <3> QED
      BY <1>14, <2>1, <2>2, <2>4, <3>1, <3>2, <3>3, TypeGoOn DEF RollbackFile, OpenForCopy,
         RolledBack, stored,
         counts, TypeInv, TypeOK, Commanded, PushPhases
  <2> QED
    BY <1>14, <2>3, <2>4 DEF RollbackFile
<1>15. CASE CopyBack
  <2>1. cur \in Files /\ tx \in TxIds /\ work \in Journals
    BY <1>15 DEF CopyBack, TypeInv, TypeOK, Commanded, PushPhases
  <2>2. snap[tx][cur] \in Values
    BY <2>1 DEF TypeInv, TypeOK
  <2>3. disk' \in [Files -> Values] /\ uncommitted' \subseteq Files
    BY <1>15, <2>1, <2>2 DEF CopyBack, TypeInv, TypeOK
  <2>4. faults' \in Nat
    BY <1>15, TypeFault DEF CopyBack
  <2>5. bad' \subseteq Files
    BY <1>15, <2>1 DEF CopyBack, TypeInv, TypeOK
  <2> QED
    BY <1>15, <2>1, <2>3, <2>4, <2>5, TypeGoOn DEF CopyBack, RolledBack, stored, TypeInv, TypeOK,
       Commanded, PushPhases
<1>16. CASE EndRollback
  BY <1>16 DEF EndRollback, stored, command, counts, ghosts, TypeInv, TypeOK, Commanded,
     PushPhases, RecoverPhases
<1>17. CASE MarkIncomplete
  <2>1. [work EXCEPT !.state = "rollback_incomplete"] \in Journals
    BY <1>17, JournalTypes DEF MarkIncomplete, TypeInv, Commanded, PushPhases
  <2> QED
    BY <1>17, <2>1, TypeRelease DEF MarkIncomplete, Persist, FailPersist, Fault, EndPush, ghosts,
       TypeInv, TypeOK
<1>18. CASE UnlinkIgnoringErrors
  BY <1>18 DEF UnlinkIgnoringErrors, UnlinkJournal, Fault, stored, command, ghosts, TypeInv,
     TypeOK,
     Commanded, PushPhases, RecoverPhases
<1>19. CASE DiscardSnapshots
  <2>1. tx \in TxIds
    BY <1>19 DEF DiscardSnapshots, TypeInv, Commanded, PushPhases
  <2> QED
    BY <1>19, <2>1, TypeRemoveSnapshots, TypeRelease DEF DiscardSnapshots, EndPush, ghosts,
       TypeInv, TypeOK
<1>20. CASE RecoverStep
  <2>1. CASE CheckFile
    <3>1. First(todo) \in Files
      BY <2>1, FirstMember DEF CheckFile, TypeInv, TypeOK
    <3> QED
      BY <2>1, <3>1 DEF CheckFile, stored, counts, ghosts, TypeInv, TypeOK, Commanded,
         PushPhases, RecoverPhases
  <2>2. CASE ReplaceFile
    <3>1. cur \in Files /\ tx \in TxIds /\ work \in Journals
      BY <2>2 DEF ReplaceFile, TypeInv, TypeOK, Commanded, RecoverPhases
    <3>2. snap[tx][cur] \in Values
      BY <3>1 DEF TypeInv, TypeOK
    <3>3. disk' \in [Files -> Values] /\ uncommitted' \subseteq Files
      BY <2>2, <3>1, <3>2 DEF ReplaceFile, TypeInv, TypeOK, Values
    <3>4. faults' \in Nat
      BY <2>2, TypeFault DEF ReplaceFile
    <3>5. bad' \subseteq Files
      BY <2>2, <3>1 DEF ReplaceFile, TypeInv, TypeOK
    <3> QED
      BY <2>2, <3>1, <3>3, <3>4, <3>5, TypeGoOn DEF ReplaceFile, stored, TypeInv, TypeOK,
         Commanded, PushPhases, RecoverPhases
  <2>3. CASE EndRestore
    BY <2>3, TypeRelease DEF EndRestore, EndRecover, stored, command, counts, ghosts, TypeInv,
       TypeOK,
       Commanded, PushPhases, RecoverPhases
  <2>4. CASE CleanupJournal
    <3>1. work \in Journals
      BY <2>4 DEF CleanupJournal, TypeInv, Commanded, RecoverPhases
    <3>2. CASE EndRecover
      BY <2>4, <3>2, TypeRelease DEF CleanupJournal, UnlinkJournal, Fault, EndRecover, stored,
         ghosts,
         TypeInv, TypeOK
    <3>3. CASE UnlinkJournal /\ pc' = "cleanup_snapshots" /\ UNCHANGED <<command, plan, preview>>
      BY <2>4, <3>1, <3>3, TypeGoOn DEF CleanupJournal, UnlinkJournal, command, ghosts,
         TypeInv, TypeOK, Commanded, PushPhases, RecoverPhases
    <3> QED
      BY <2>4, <3>2, <3>3 DEF CleanupJournal
  <2>5. CASE CleanupSnapshots
    <3>1. tx \in TxIds
      BY <2>5 DEF CleanupSnapshots, TypeInv, Commanded, RecoverPhases
    <3> QED
      BY <2>5, <3>1, TypeRemoveSnapshots, TypeRelease DEF CleanupSnapshots, EndRecover, stored,
         ghosts,
         TypeInv, TypeOK
  <2>6. CASE ForgetJournal
    <3>1. faults' \in Nat
      BY <2>6, TypeFault DEF ForgetJournal, UnlinkJournal
    <3>2. /\ journal' \in Journals \cup {NoJournal}
          /\ UNCHANGED <<dirs, snap>> /\ uncommitted' \subseteq Files
      BY <2>6 DEF ForgetJournal, UnlinkJournal, stored, TypeInv, TypeOK
    <3> QED
      BY <2>6, <3>1, <3>2, TypeRelease DEF ForgetJournal, EndRecover, TypeInv, TypeOK
  <2> QED
    BY <1>20, <2>1, <2>2, <2>3, <2>4, <2>5, <2>6 DEF RecoverStep
<1>21. CASE BeginTransaction
  BY <1>21, TypeBeginTransaction
<1>22. CASE \E f \in Files, v \in EditValues : Edit(f, v)
  BY <1>22, EnvironmentAssumption DEF Edit, stored, command, TypeInv, TypeOK
<1>23. CASE Crash
  BY <1>23, TypeRelease DEF Crash, EndPush, EndRecover, stored, counts, ghosts, TypeInv, TypeOK
<1>24. CASE UNCHANGED vars
  BY <1>24 DEF vars, stored, command, counts, ghosts, TypeInv, TypeOK
<1> QED
  BY <1>1, <1>2, <1>3, <1>4, <1>5, <1>6, <1>7, <1>8, <1>9, <1>10, <1>11, <1>12, <1>13, <1>14,
     <1>15, <1>16, <1>17, <1>18, <1>19, <1>20, <1>21, <1>22, <1>23, <1>24
  DEF Next, CommandStep, PushStep

\* Every behaviour keeps every variable in its type: a record, a hash, a snapshot
\* or a set of files never holds anything else, whatever fails and whoever edits.
THEOREM TypeCorrect == Spec => []TypeOK
<1>1. TypeInv => TypeOK
  BY DEF TypeInv
<1> QED
  BY <1>1, TypeInit, TypeNext, PTL DEF Spec

-----------------------------------------------------------------------------
(* The inductive invariant: how its journal part survives a step.           *)

\* Files leave uncommitted and the others keep their content.
LEMMA CoreShrink ==
    ASSUME JournalCore, UNCHANGED <<journal, dirs, snap>>, uncommitted' \subseteq uncommitted,
           \A g \in uncommitted' : disk'[g] = disk[g]
    PROVE  JournalCore'
BY DEF JournalCore, WriteAhead, Recorded

\* Nothing is uncommitted.
LEMMA CoreQuiet ==
    ASSUME uncommitted' = {}, journal' # NoJournal => Recorded(journal)'
    PROVE  JournalCore'
BY DEF JournalCore, WriteAhead

\* The journal is rewritten without changing what it says of uncommitted files.
LEMMA CoreRewrite ==
    ASSUME JournalCore, UNCHANGED <<disk, dirs, snap, uncommitted>>,
           journal # NoJournal, journal' # NoJournal,
           journal'.state # "completed", Recorded(journal)',
           journal'.tx = journal.tx, journal'.listed = journal.listed,
           journal'.existed = journal.existed, journal'.before = journal.before,
           \A f \in uncommitted : journal'.started[f] /\ journal'.after[f] = journal.after[f]
    PROVE  JournalCore'
BY DEF JournalCore, WriteAhead

\* The command leaves v at a file that the journal protects.
LEMMA CoreLeave ==
    ASSUME JournalCore, TypeInv, UNCHANGED <<journal, dirs, snap>>, NEW f \in Files, NEW v,
           Leave(f, v), journal # NoJournal, journal.state # "completed",
           journal.before = work.before, f \in journal.listed, journal.started[f],
           v \in {journal.after[f], Torn},
           journal.existed[f] => journal.tx \in dirs /\ snap[journal.tx][f] # None
    PROVE  JournalCore'
BY DEF JournalCore, WriteAhead, Recorded, Leave, TypeInv, TypeOK

\* The command is over.
LEMMA CommandOver ==
    ASSUME TypeInv', JournalCore', Release
    PROVE  IInv'
BY DEF Release, IInv, QuietInv, BeginInv, WritingInv, RollingBackInv, RecoveringInv,
   Quiet, Writing, RollingBack

LEMMA InvInit == Init => IInv
<1> SUFFICES ASSUME Init PROVE IInv
  OBVIOUS
<1>1. TypeInv
  BY TypeInit
<1> QED
  BY <1>1 DEF Init, IInv, JournalCore, WriteAhead, QuietInv, BeginInv, WritingInv,
     RollingBackInv, RecoveringInv, Quiet, Writing, RollingBack

\* A failure sends the push into the rollback of the files in u.
LEMMA EnterRollback ==
    ASSUME IInv, TypeInv', pc \in Writing, NEW u, RollBack(u),
           UNCHANGED <<journal, dirs, snap, disk, uncommitted>>,
           u \subseteq work.listed, uncommitted \subseteq u,
           work'.tx = work.tx, work'.listed = work.listed, work'.existed = work.existed,
           work'.before = work.before, Recorded(work)',
           \A f \in u : /\ work.started[f] /\ work'.started[f]
                        /\ work'.after[f] = work.after[f]
    PROVE  IInv'
<1>1. JournalCore'
  BY CoreShrink DEF IInv
<1>2. journal = work /\ work.state = "writing" /\ Protected /\ work \in Journals
  BY DEF IInv, WritingInv, TypeInv, Writing, Commanded, PushPhases
<1>3. journal # NoJournal
  BY <1>2, NoJournalAssumption
<1>4. Protected'
  BY <1>2 DEF Protected, RollBack
<1>5. RollingBackInv'
  BY <1>2, <1>3, <1>4 DEF RollingBackInv, RollBack
<1> QED
  BY <1>1, <1>5 DEF IInv, RollBack, QuietInv, BeginInv, WritingInv, RecoveringInv,
     Quiet, Writing

-----------------------------------------------------------------------------
(* The inductive invariant: one lemma per kind of step.  A journal write    *)
(* that fails leaves the old journal (LateFsync = FALSE).                   *)

LEMMA InvOutside ==
    ASSUME IInv, TypeInv',
           PlanStep \/ Inspect \/ Crash \/ \E f \in Files, v \in EditValues : Edit(f, v)
    PROVE  IInv'
<1>1. JournalCore
  BY DEF IInv
<1>2. CASE Inspect
  <2>1. JournalCore' /\ pc' = "idle" /\ undo' = {}
    BY <1>1, <1>2, CoreShrink DEF Inspect, stored, command, ghosts, IInv, QuietInv
  <2> QED
    BY <2>1 DEF IInv, QuietInv, BeginInv, WritingInv, RollingBackInv, RecoveringInv,
       Quiet, Writing, RollingBack
<1>5. CASE PlanStep
  <2>1. /\ UNCHANGED <<disk, journal, dirs, snap, pc, tx, work, cur, todo, undo, bad, uncommitted>>
        /\ pc \notin PushPhases
    BY <1>5, PlanStepFacts DEF IInv, stored, command, ghosts
  <2>2. JournalCore'
    BY <1>1, <2>1, CoreShrink
  <2>3. QuietInv' /\ BeginInv' /\ WritingInv' /\ RollingBackInv'
    BY <2>1 DEF IInv, QuietInv, BeginInv, WritingInv, RollingBackInv, Quiet, Writing, RollingBack,
       PushPhases
  <2>4. RecoveringInv'
    BY <2>1 DEF IInv, RecoveringInv
  <2> QED
    BY <2>2, <2>3, <2>4 DEF IInv
<1>3. CASE Crash
  <2>1. JournalCore' /\ Release
    BY <1>1, <1>3, CoreShrink DEF Crash, stored, ghosts, EndPush, EndRecover
  <2> QED
    BY <2>1, CommandOver
<1>4. CASE \E f \in Files, v \in EditValues : Edit(f, v)
  <2>1. PICK f \in Files, v \in EditValues : Edit(f, v)
    BY <1>4
  <2>2. /\ uncommitted' \subseteq uncommitted /\ \A g \in uncommitted' : disk'[g] = disk[g]
        /\ UNCHANGED <<journal, dirs, snap, pc, plan, tx, work, cur, todo, undo, bad>>
    BY <2>1 DEF Edit, stored, command, IInv, TypeInv, TypeOK
  <2>3. JournalCore'
    BY <1>1, <2>2, CoreShrink
  <2>4. QuietInv' /\ BeginInv'
    BY <2>2 DEF IInv, QuietInv, BeginInv, Protected
  <2>5. WritingInv'
    BY <2>2 DEF IInv, WritingInv, Protected
  <2>6. RollingBackInv'
    BY <2>2 DEF IInv, RollingBackInv, Protected, Recorded
  <2>7. RecoveringInv'
    BY <2>2 DEF IInv, RecoveringInv
  <2> QED
    BY <2>3, <2>4, <2>5, <2>6, <2>7 DEF IInv
<1> QED
  BY <1>2, <1>3, <1>4, <1>5

LEMMA InvStartPush == ASSUME IInv, TypeInv', StartPush PROVE IInv'
<1>1. JournalCore'
  BY CoreShrink DEF IInv, StartPush, stored, ghosts
<1>2. CASE EndPush
  BY <1>1, <1>2, CommandOver DEF EndPush
<1>3. CASE pc' = "begin" /\ UNCHANGED undo
  <2>1. uncommitted = {}
    BY DEF StartPush, Status, BlocksMutation, LoadStatus, IInv, JournalCore
  <2>2. uncommitted' = {} /\ undo' = {}
    BY <1>3, <2>1 DEF StartPush, ghosts, IInv, QuietInv
  <2> QED
    BY <1>1, <1>3, <2>2 DEF IInv, QuietInv, BeginInv, WritingInv, RollingBackInv, RecoveringInv,
       Writing, RollingBack
<1> QED
  BY <1>2, <1>3 DEF StartPush

LEMMA InvBeginTransaction == ASSUME IInv, TypeInv', BeginTransaction PROVE IInv'
<1>1. uncommitted = {} /\ undo = {} /\ tx \in TxIds /\ plan.targets \cup {Wordlist} \subseteq Files
  BY FileTypes DEF BeginTransaction, IInv, QuietInv, Quiet, TypeInv, Commanded, PushPhases, Plans
<1>2. uncommitted' = {} /\ UNCHANGED journal
  BY <1>1 DEF BeginTransaction, ghosts
<1>3. JournalCore'
  BY <1>2, CoreQuiet DEF IInv, JournalCore, Recorded
<1>4. CASE EndPush
  BY <1>3, <1>4, CommandOver DEF EndPush
<1>5. CASE pc' = "journal_begin"
  <2> DEFINE source == plan.targets \cup {Wordlist}
             existed == [f \in Files |-> f \in source /\ disk[f] # None]
             saved(lost) == {f \in source \ lost : disk[f] \notin {None, Unreadable}}
             backed(lost) == {f \in source : existed[f] => f \in saved(lost)}
             kept(lost) == [f \in Files |-> IF f \in saved(lost) THEN disk[f] ELSE None]
  <2>1. PICK lost \in SUBSET source, locked \in SUBSET source :
           /\ dirs' = dirs \cup {tx} /\ snap' = [snap EXCEPT ![tx] = kept(lost)]
           /\ Wordlist \in backed(lost)
           /\ work' = [tx |-> tx, state |-> "writing",
                       listed |-> ((backed(lost) \ locked) \ {Wordlist}) \cup {Wordlist},
                       existed |-> existed,
                       before |-> NoSnapshots, after |-> NoSnapshots,
                       started |-> [f \in Files |-> FALSE],
                       completed |-> [f \in Files |-> FALSE]]
           /\ UNCHANGED <<tx, undo>>
    BY <1>5, Zenon DEF BeginTransaction, Saved, TakeSnapshots, EndPush, Release
  <2>2. \A f \in backed(lost) : existed[f] => snap'[tx][f] # None
    BY <1>1, <2>1 DEF IInv, TypeInv, TypeOK
  <2>3. Protected'
    BY <1>1, <2>1, <2>2 DEF Protected
  <2>4. BeginInv'
    BY <2>1, <2>3 DEF BeginInv
  <2> QED
    BY <1>1, <1>2, <1>3, <1>5, <2>1, <2>4 DEF IInv, QuietInv, WritingInv, RollingBackInv,
       RecoveringInv, Quiet, Writing, RollingBack
<1> QED
  BY <1>4, <1>5 DEF BeginTransaction

LEMMA InvFailBegin == ASSUME IInv, TypeInv', FailBegin PROVE IInv'
<1>1. JournalCore' /\ Release
  BY CoreShrink DEF IInv, FailBegin, EndPush, stored, ghosts
<1> QED
  BY <1>1, CommandOver

LEMMA InvJournalBegin == ASSUME LateFsync = FALSE, IInv, TypeInv', JournalBegin PROVE IInv'
<1>1. /\ uncommitted = {} /\ undo = {} /\ work \in Journals /\ Protected /\ work.state = "writing"
      /\ \A f \in Files : ~work.started[f]
  BY DEF JournalBegin, IInv, QuietInv, BeginInv, Quiet, TypeInv, Commanded, PushPhases
<1>2. uncommitted' = {} /\ undo' = {}
  BY <1>1 DEF JournalBegin, ghosts
<1>3. CASE pc' = "late_check"
  <2>1. PICK b : /\ work' = [work EXCEPT !.before = b] /\ journal' = work'
                 /\ UNCHANGED <<dirs, snap, tx>>
    BY <1>3 DEF JournalBegin, Persist
  <2>2. /\ work'.tx = work.tx /\ work'.listed = work.listed /\ work'.existed = work.existed
        /\ work'.state = work.state /\ work'.started = work.started
    BY <1>1, <2>1 DEF Journals
  <2>3. Recorded(journal)'
    BY <1>1, <2>1, <2>2 DEF Recorded
  <2>4. JournalCore'
    BY <1>2, <2>3, CoreQuiet
  <2>5. Protected'
    BY <1>1, <1>2, <2>1, <2>2 DEF Protected
  <2>6. WritingInv'
    BY <1>1, <1>2, <1>3, <2>1, <2>2, <2>5 DEF WritingInv
  <2> QED
    BY <1>2, <1>3, <2>4, <2>6 DEF IInv, QuietInv, BeginInv, RollingBackInv, RecoveringInv,
       RollingBack
<1>4. CASE pc' = "discard"
  <2>1. UNCHANGED journal
    BY <1>4 DEF JournalBegin, FailPersist
  <2>2. JournalCore'
    BY <1>2, <2>1, CoreQuiet DEF IInv, JournalCore, Recorded
  <2> QED
    BY <1>2, <1>4, <2>2 DEF IInv, QuietInv, BeginInv, WritingInv, RollingBackInv, RecoveringInv,
       Writing, RollingBack
<1> QED
  BY <1>3, <1>4 DEF JournalBegin

\* What is known while the journal is being written.
LEMMA WritingFacts ==
    ASSUME IInv, pc \in Writing
    PROVE  /\ Protected /\ journal = work /\ work \in Journals /\ journal # NoJournal
           /\ work.state = "writing" /\ Recorded(work) /\ JournalCore
           /\ uncommitted \subseteq undo /\ plan \in Plans /\ plan.words \in Content
           /\ \A f \in undo : f \in work.listed /\ work.started[f] /\ work.after[f] = plan.words
<1>1. work \in Journals /\ plan \in Plans
  BY DEF IInv, TypeInv, Writing, Commanded, PushPhases
<1>2. journal = work /\ JournalCore
  BY DEF IInv, WritingInv
<1>3. Recorded(work)
  BY <1>1, <1>2, NoJournalAssumption DEF JournalCore
<1> QED
  BY <1>1, <1>2, <1>3, NoJournalAssumption DEF IInv, WritingInv, Protected, Plans

LEMMA InvLateCheck == ASSUME IInv, TypeInv', LateCheck PROVE IInv'
<1>1. /\ pc \in Writing /\ uncommitted = {} /\ undo = {}
      /\ UNCHANGED <<disk, journal, dirs, snap, work, uncommitted>>
  BY DEF LateCheck, Writing, IInv, QuietInv, Quiet, stored, ghosts
<1>2. CASE RollBack(undo)
  BY <1>1, <1>2, WritingFacts, EnterRollback DEF Recorded
<1>3. CASE /\ pc' \in {"mark_wordlist", "targets"} /\ todo' = work.listed \ {Wordlist}
           /\ UNCHANGED <<plan, tx, undo>>
  <2>1. JournalCore'
    BY <1>1, WritingFacts, CoreShrink
  <2>2. WritingInv'
    BY <1>1, <1>3, WritingFacts DEF WritingInv, Protected
  <2> QED
    BY <1>1, <1>3, <2>1, <2>2 DEF IInv, QuietInv, BeginInv, RollingBackInv, RecoveringInv,
       RollingBack, Quiet
<1> QED
  BY <1>2, <1>3 DEF LateCheck

\* What Marked changes, and what it leaves alone.
LEMMA MarkedFields ==
    ASSUME NEW j \in Journals, NEW f \in Files
    PROVE  /\ Marked(j, f).tx = j.tx /\ Marked(j, f).listed = j.listed
           /\ Marked(j, f).existed = j.existed /\ Marked(j, f).before = j.before
           /\ Marked(j, f).state = j.state
           /\ Marked(j, f).started[f] /\ Marked(j, f).after[f] = plan.words
           /\ \A g \in Files \ {f} : /\ Marked(j, f).started[g] = j.started[g]
                                     /\ Marked(j, f).after[g] = j.after[g]
BY DEF Marked, Journals

LEMMA InvMarkStarted ==
    ASSUME LateFsync = FALSE, IInv, TypeInv', pc \in {"mark_wordlist", "targets"},
           NEW f \in work.listed, MarkStarted(f), UNCHANGED <<disk, uncommitted>>
    PROVE  IInv'
<1>1. pc \in Writing
  BY DEF Writing
<1>2. work \in Journals /\ f \in Files /\ undo \subseteq Files
  BY <1>1, WritingFacts DEF Journals, IInv, TypeInv, TypeOK
<1>3. work' = Marked(work, f)
  BY DEF MarkStarted
<1>4. /\ work'.tx = work.tx /\ work'.listed = work.listed
      /\ work'.existed = work.existed /\ work'.before = work.before
      /\ work'.state = work.state /\ work'.started[f] /\ work'.after[f] = plan.words
      /\ \A g \in Files \ {f} : work'.started[g] = work.started[g] /\ work'.after[g] = work.after[g]
  BY <1>2, <1>3, MarkedFields
<1>5. Recorded(work)'
  BY <1>1, <1>2, <1>4, WritingFacts DEF Recorded
<1>6. \A g \in undo : /\ work.started[g] /\ work'.started[g]
                      /\ work'.after[g] = work.after[g] /\ work'.after[g] = plan.words
  BY <1>1, <1>2, <1>4, WritingFacts
<1>7. CASE Persist(work') /\ pc' = "write" /\ cur' = f /\ todo' = todo \ {f}
           /\ UNCHANGED <<plan, preview, tx, undo, bad>>
  <2>1. work' \in Journals /\ journal' = work' /\ UNCHANGED <<dirs, snap>>
    BY <1>1, <1>2, <1>3, <1>7, MarkedType, WritingFacts DEF Persist
  <2>2. JournalCore'
    BY <1>1, <1>4, <1>5, <1>6, <2>1, WritingFacts, CoreRewrite, NoJournalAssumption DEF Recorded
  <2>3. Protected'
    BY <1>1, <1>4, <1>7, <2>1, WritingFacts DEF Protected
  <2>4. todo' \subseteq work'.listed
    BY <1>1, <1>4, <1>7 DEF IInv, WritingInv
  <2>5. WritingInv'
    BY <1>1, <1>4, <1>6, <1>7, <2>1, <2>3, <2>4, WritingFacts DEF WritingInv
  <2> QED
    BY <1>7, <2>2, <2>5 DEF IInv, QuietInv, BeginInv, RollingBackInv, RecoveringInv,
       RollingBack, Quiet
<1>8. CASE FailPersist(work') /\ RollBack(undo)
  <2>1. UNCHANGED <<journal, dirs, snap>>
    BY <1>8 DEF FailPersist
  <2> QED
    BY <1>1, <1>4, <1>5, <1>6, <1>8, <2>1, WritingFacts, EnterRollback
<1> QED
  BY <1>7, <1>8 DEF MarkStarted

LEMMA InvMarkWordlist == ASSUME LateFsync = FALSE, IInv, TypeInv', MarkWordlist PROVE IInv'
<1>1. Wordlist \in work.listed
  BY WritingFacts DEF MarkWordlist, Writing, Protected
<1> QED
  BY <1>1, InvMarkStarted DEF MarkWordlist, ghosts

LEMMA InvNextTarget == ASSUME LateFsync = FALSE, IInv, TypeInv', NextTarget PROVE IInv'
<1>1. pc \in Writing /\ pc = "targets" /\ UNCHANGED <<disk, uncommitted>>
  BY DEF NextTarget, Writing, ghosts
<1>2. First(todo) \in work.listed
  <2>1. First(todo) \in todo
    BY FirstMember, FileTypes DEF NextTarget, IInv, TypeInv, TypeOK
  <2> QED
    BY <1>1, <2>1 DEF IInv, WritingInv
<1>3. CASE MarkStarted(First(todo))
  BY <1>1, <1>2, <1>3, InvMarkStarted
<1>4. CASE RollBack(undo) /\ UNCHANGED <<stored, work, faults>>
  BY <1>1, <1>4, WritingFacts, EnterRollback DEF stored, Recorded
<1> QED
  BY <1>3, <1>4 DEF NextTarget

LEMMA InvSkipRunning == ASSUME IInv, TypeInv', SkipRunning PROVE IInv'
<1>1. /\ pc \in Writing /\ pc = "targets" /\ todo' \subseteq todo
      /\ UNCHANGED <<disk, journal, dirs, snap, work, uncommitted, pc, plan, tx, undo, cur>>
  BY DEF SkipRunning, Writing, stored, ghosts
<1>2. JournalCore'
  BY <1>1, WritingFacts, CoreShrink
<1>3. WritingInv'
  BY <1>1 DEF IInv, WritingInv, Protected
<1> QED
  BY <1>1, <1>2, <1>3 DEF IInv, QuietInv, BeginInv, RollingBackInv, RecoveringInv, RollingBack,
     Quiet

LEMMA InvWriteFile == ASSUME IInv, TypeInv', WriteFile PROVE IInv'
<1>1. /\ pc \in Writing /\ cur \in work.listed /\ work.started[cur] /\ work.after[cur] = plan.words
      /\ todo \subseteq work.listed
      /\ UNCHANGED <<journal, dirs, snap, work>>
  BY DEF WriteFile, Writing, IInv, WritingInv, stored
<1>2. CASE Leave(cur, plan.words) /\ undo' = undo \cup {cur} /\ pc' = "verify"
           /\ UNCHANGED <<plan, preview, tx, cur, todo, bad, faults>>
  <2>1. cur \in Files
    BY DEF IInv, TypeInv, TypeOK
  <2>2. JournalCore'
    BY <1>1, <1>2, <2>1, WritingFacts, CoreLeave DEF Protected, IInv
  <2>3. uncommitted' \subseteq undo'
    BY <1>1, <1>2, WritingFacts DEF Leave
  <2>4. WritingInv'
    BY <1>1, <1>2, <2>3, WritingFacts DEF WritingInv, Protected
  <2> QED
    BY <1>2, <2>2, <2>4 DEF IInv, QuietInv, BeginInv, RollingBackInv, RecoveringInv,
       RollingBack, Quiet
<1>3. CASE RollBack(undo \cup {cur}) /\ UNCHANGED <<disk, uncommitted>>
  BY <1>1, <1>3, WritingFacts, EnterRollback DEF Recorded
<1> QED
  BY <1>2, <1>3 DEF WriteFile

\* A journal with one more write completed says the same of the files.
LEMMA CompletedFields ==
    ASSUME NEW j \in Journals, NEW f \in Files
    PROVE  LET k == [j EXCEPT !.completed[f] = TRUE]
           IN  /\ k.tx = j.tx /\ k.listed = j.listed /\ k.existed = j.existed
               /\ k.before = j.before /\ k.state = j.state
               /\ k.started = j.started /\ k.after = j.after
BY DEF Journals

\* And so does one in another state.
LEMMA StateFields ==
    ASSUME NEW j \in Journals, NEW s
    PROVE  LET k == [j EXCEPT !.state = s]
           IN  /\ k.tx = j.tx /\ k.listed = j.listed /\ k.existed = j.existed
               /\ k.before = j.before /\ k.state = s
               /\ k.started = j.started /\ k.after = j.after
BY DEF Journals

LEMMA InvVerifyFile == ASSUME LateFsync = FALSE, IInv, TypeInv', VerifyFile PROVE IInv'
<1>1. /\ pc \in Writing /\ pc = "verify" /\ cur \in Files /\ todo \subseteq work.listed
      /\ UNCHANGED <<disk, uncommitted>>
  BY DEF VerifyFile, Writing, ghosts, IInv, WritingInv, TypeInv, TypeOK
<1>2. CASE RollBack(undo) /\ UNCHANGED <<stored, work, faults>>
  BY <1>1, <1>2, WritingFacts, EnterRollback DEF stored, Recorded
<1>3. CASE work' = [work EXCEPT !.completed[cur] = TRUE]
  <2>1. /\ work'.tx = work.tx /\ work'.listed = work.listed /\ work'.existed = work.existed
        /\ work'.before = work.before /\ work'.state = work.state
        /\ work'.started = work.started /\ work'.after = work.after
    BY <1>1, <1>3, WritingFacts, CompletedFields
  <2>2. Recorded(work)'
    BY <1>1, <2>1, WritingFacts DEF Recorded
  <2>3. CASE Persist(work') /\ pc' = "targets" /\ UNCHANGED <<plan, preview, tx, cur, todo, undo, bad>>
    <3>1. work' \in Journals /\ journal' = work' /\ UNCHANGED <<dirs, snap>>
      BY <1>1, <1>3, <2>3, JournalTypes, WritingFacts DEF Persist
    <3>2. JournalCore'
      BY <1>1, <2>1, <2>2, <3>1, WritingFacts, CoreRewrite, NoJournalAssumption DEF Recorded
    <3>3. WritingInv'
      BY <1>1, <2>1, <2>3, <3>1, WritingFacts DEF WritingInv, Protected
    <3> QED
      BY <2>3, <3>2, <3>3 DEF IInv, QuietInv, BeginInv, RollingBackInv, RecoveringInv,
         RollingBack, Quiet
  <2>4. CASE FailPersist(work') /\ RollBack(undo)
    <3>1. UNCHANGED <<journal, dirs, snap>>
      BY <2>4 DEF FailPersist
    <3> QED
      BY <1>1, <2>1, <2>2, <2>4, <3>1, WritingFacts, EnterRollback
  <2> QED
    BY <1>2, <1>3, <2>3, <2>4 DEF VerifyFile
<1> QED
  BY <1>2, <1>3 DEF VerifyFile

LEMMA InvComplete == ASSUME LateFsync = FALSE, IInv, TypeInv', Complete PROVE IInv'
<1>1. pc \in Writing /\ UNCHANGED disk
  BY DEF Complete, Writing
<1>2. /\ work'.tx = work.tx /\ work'.listed = work.listed /\ work'.existed = work.existed
      /\ work'.before = work.before /\ work'.started = work.started /\ work'.after = work.after
  BY <1>1, WritingFacts, StateFields DEF Complete
<1>3. Recorded(work)'
  BY <1>1, <1>2, WritingFacts DEF Recorded
<1>4. CASE Persist(work') /\ pc' = "unlink" /\ uncommitted' = {}
  <2>1. JournalCore'
    BY <1>3, <1>4, CoreQuiet DEF Persist, Recorded
  <2> QED
    BY <1>4, <2>1 DEF IInv, QuietInv, BeginInv, WritingInv, RollingBackInv, RecoveringInv,
       RollingBack, Writing
<1>5. CASE FailPersist(work') /\ RollBack(undo) /\ UNCHANGED ghosts
  <2>1. UNCHANGED <<journal, dirs, snap, uncommitted>>
    BY <1>5 DEF FailPersist, ghosts
  <2> QED
    BY <1>1, <1>2, <1>3, <1>5, <2>1, WritingFacts, EnterRollback
<1> QED
  BY <1>4, <1>5 DEF Complete

\* Steps after the decision: the journal and the snapshots may go.
LEMMA InvUnlink == ASSUME IInv, TypeInv', UnlinkIgnoringErrors PROVE IInv'
<1>1. uncommitted' = {} /\ pc' = "discard" /\ journal' \in {journal, NoJournal}
  BY DEF UnlinkIgnoringErrors, UnlinkJournal, stored, ghosts, IInv, QuietInv, Quiet
<1>2. JournalCore'
  BY <1>1, CoreQuiet DEF IInv, JournalCore, Recorded
<1> QED
  BY <1>1, <1>2 DEF IInv, QuietInv, BeginInv, WritingInv, RollingBackInv, RecoveringInv,
     RollingBack, Writing

LEMMA InvDiscardSnapshots == ASSUME IInv, TypeInv', DiscardSnapshots PROVE IInv'
<1>1. uncommitted' = {} /\ UNCHANGED journal
  BY DEF DiscardSnapshots, RemoveSnapshots, ghosts, IInv, QuietInv, Quiet
<1>2. JournalCore'
  BY <1>1, CoreQuiet DEF IInv, JournalCore, Recorded
<1> QED
  BY <1>2, CommandOver DEF DiscardSnapshots, EndPush

\* What is known while the push is rolled back.
LEMMA RollingBackFacts ==
    ASSUME IInv, pc \in RollingBack
    PROVE  /\ Protected /\ journal # NoJournal /\ journal \in Journals /\ work \in Journals
           /\ journal.state = "writing"
           /\ journal.tx = work.tx /\ journal.listed = work.listed
           /\ journal.existed = work.existed /\ journal.before = work.before
           /\ Recorded(work) /\ JournalCore
           /\ \A f \in undo : /\ f \in work.listed /\ f \in Files
                              /\ journal.started[f] /\ work.started[f]
                              /\ journal.after[f] = work.after[f]
           /\ uncommitted \subseteq todo \cup bad /\ todo \cup bad \subseteq undo
<1>1. work \in Journals /\ journal \in Journals \cup {NoJournal} /\ undo \subseteq Files
  BY DEF IInv, TypeInv, TypeOK, RollingBack, Commanded, PushPhases
<1> QED
  BY <1>1 DEF IInv, RollingBackInv, Protected

\* The rollback goes on: only the sets of files change.
LEMMA RollingBackGoesOn ==
    ASSUME IInv, TypeInv', JournalCore', pc \in RollingBack, pc' \in {"rollback", "copying"},
           UNCHANGED <<journal, dirs, snap, tx, work, undo>>,
           uncommitted' \subseteq todo' \cup bad', todo' \cup bad' \subseteq undo,
           pc' = "copying" => cur' \in todo'
    PROVE  IInv'
<1>1. RollingBackInv'
  BY RollingBackFacts DEF RollingBackInv, Protected, Recorded
<1> QED
  BY <1>1 DEF IInv, QuietInv, BeginInv, WritingInv, RecoveringInv, Quiet, Writing

\* A member of a non-empty set of files to undo comes next.
LEMMA NextUndoMember ==
    ASSUME todo \subseteq Files, todo # {}
    PROVE  NextUndo \in todo
<1>1. todo \cap Dicts # {} => First(todo \cap Dicts) \in todo
  BY FirstMember, FileTypes
<1>2. todo \cap Dicts = {} => Wordlist \in todo
  BY FileTypes
<1> QED
  BY <1>1, <1>2 DEF NextUndo

LEMMA InvRollbackFile == ASSUME IInv, TypeInv', RollbackFile PROVE IInv'
<1> DEFINE f == NextUndo
<1>1. pc \in RollingBack /\ f \in todo /\ f \in undo /\ f \in Files
  <2>1. todo \subseteq Files /\ todo # {}
    BY DEF RollbackFile, IInv, TypeInv, TypeOK
  <2> QED
    BY <2>1, NextUndoMember, RollingBackFacts DEF RollbackFile, RollingBack
<1> HIDE DEF f
<1>2. CASE RemoveCreated(f)
  <2>1. UNCHANGED <<journal, dirs, snap, tx, work, undo>> /\ pc' = "rollback" /\ todo' = todo \ {f}
    BY <1>2 DEF RemoveCreated, RolledBack, stored
  <2>2. /\ uncommitted' \subseteq uncommitted /\ \A g \in uncommitted' : disk'[g] = disk[g]
        /\ uncommitted' \subseteq todo' \cup bad' /\ todo' \cup bad' \subseteq undo
    BY <1>1, <1>2, <2>1, RollingBackFacts DEF RemoveCreated, IInv, TypeInv, TypeOK
  <2>3. JournalCore'
    BY <1>1, <2>1, <2>2, RollingBackFacts, CoreShrink
  <2> QED
    BY <1>1, <2>1, <2>2, <2>3, RollingBackGoesOn
<1>3. CASE Leave(f, Torn) /\ OpenForCopy(f) /\ pc' = "copying"
  <2>1. UNCHANGED <<journal, dirs, snap, tx, work, todo, undo, bad>> /\ cur' = f
    BY <1>3 DEF OpenForCopy, stored, RolledBack
  <2>2. JournalCore'
    BY <1>1, <1>3, <2>1, RollingBackFacts, CoreLeave DEF IInv, Protected
  <2>3. uncommitted' \subseteq todo' \cup bad' /\ todo' \cup bad' \subseteq undo
    BY <1>1, <1>3, <2>1, RollingBackFacts DEF Leave
  <2> QED
    BY <1>1, <1>3, <2>1, <2>2, <2>3, RollingBackGoesOn
<1>4. CASE bad' = bad \cup {f} /\ RolledBack(f) /\ UNCHANGED <<disk, uncommitted>>
  <2>1. UNCHANGED <<journal, dirs, snap, tx, work, undo>> /\ pc' = "rollback" /\ todo' = todo \ {f}
    BY <1>4 DEF RolledBack, stored
  <2>2. uncommitted' \subseteq todo' \cup bad' /\ todo' \cup bad' \subseteq undo
    BY <1>1, <1>4, <2>1, RollingBackFacts
  <2>3. JournalCore'
    BY <1>1, <1>4, <2>1, RollingBackFacts, CoreShrink
  <2> QED
    BY <1>1, <2>1, <2>2, <2>3, RollingBackGoesOn
<1> QED
  BY <1>2, <1>3, <1>4 DEF RollbackFile, OpenForCopy, f

LEMMA InvCopyBack == ASSUME IInv, TypeInv', CopyBack PROVE IInv'
<1>1. /\ pc \in RollingBack /\ cur \in todo
      /\ UNCHANGED <<journal, dirs, snap, tx, work, undo>> /\ pc' = "rollback" /\ todo' = todo \ {cur}
  BY DEF CopyBack, RolledBack, stored, RollingBack, IInv, RollingBackInv
<1>2. /\ uncommitted' \subseteq uncommitted /\ \A g \in uncommitted' : disk'[g] = disk[g]
      /\ uncommitted' \subseteq todo' \cup bad' /\ todo' \cup bad' \subseteq undo
  BY <1>1, RollingBackFacts DEF CopyBack, IInv, TypeInv, TypeOK
<1>3. JournalCore'
  BY <1>1, <1>2, RollingBackFacts, CoreShrink
<1> QED
  BY <1>1, <1>2, <1>3, RollingBackGoesOn

LEMMA InvEndRollback == ASSUME IInv, TypeInv', EndRollback PROVE IInv'
<1>1. /\ pc \in RollingBack /\ todo = {}
      /\ UNCHANGED <<disk, journal, dirs, snap, tx, work, cur, todo, undo, bad, uncommitted>>
  BY DEF EndRollback, RollingBack, stored, command, ghosts
<1>2. JournalCore'
  BY <1>1, RollingBackFacts, CoreShrink
<1>3. CASE bad = {} /\ pc' = "unlink"
  <2>1. uncommitted' = {}
    BY <1>1, <1>3, RollingBackFacts
  <2> QED
    BY <1>2, <1>3, <2>1 DEF IInv, QuietInv, BeginInv, WritingInv, RollingBackInv, RecoveringInv,
       RollingBack, Writing
<1>4. CASE pc' = "mark_incomplete"
  <2>1. RollingBackInv'
    BY <1>1, <1>4, RollingBackFacts DEF RollingBackInv, Protected, Recorded
  <2> QED
    BY <1>2, <1>4, <2>1 DEF IInv, QuietInv, BeginInv, WritingInv, RecoveringInv, Writing, Quiet
<1> QED
  BY <1>3, <1>4 DEF EndRollback

LEMMA InvMarkIncomplete == ASSUME LateFsync = FALSE, IInv, TypeInv', MarkIncomplete PROVE IInv'
<1> DEFINE j == [work EXCEPT !.state = "rollback_incomplete"]
<1>1. pc \in RollingBack /\ UNCHANGED <<disk, dirs, snap, uncommitted>> /\ Release
  BY DEF MarkIncomplete, RollingBack, Persist, FailPersist, EndPush, ghosts
<1>2. j \in Journals
  BY <1>1, RollingBackFacts, JournalTypes
<1>3. /\ j.tx = work.tx /\ j.listed = work.listed /\ j.existed = work.existed
      /\ j.before = work.before /\ j.state = "rollback_incomplete"
      /\ j.started = work.started /\ j.after = work.after
  BY <1>1, RollingBackFacts, StateFields
<1>4. journal' \in {j, journal}
  BY DEF MarkIncomplete, Persist, FailPersist
<1> HIDE DEF j
<1>5. CASE journal' = journal
  BY <1>1, <1>5, RollingBackFacts, CoreShrink, CommandOver
<1>6. CASE journal' = j
  <2>1. Recorded(journal)'
    BY <1>1, <1>3, <1>6, RollingBackFacts DEF Recorded
  <2>2. \A f \in uncommitted : j.started[f] /\ j.after[f] = journal.after[f]
    BY <1>1, <1>3, RollingBackFacts
  <2>3. JournalCore'
    BY <1>1, <1>2, <1>3, <1>6, <2>1, <2>2, RollingBackFacts, CoreRewrite, NoJournalAssumption
  <2> QED
    BY <1>1, <2>3, CommandOver
<1> QED
  BY <1>4, <1>5, <1>6

LEMMA InvStartRecovery == ASSUME IInv, TypeInv', StartRecovery PROVE IInv'
<1>1. UNCHANGED <<disk, journal, dirs, snap, uncommitted>> /\ pc = "idle" /\ undo = {}
  BY DEF StartRecovery, stored, ghosts, IInv, QuietInv
<1>2. JournalCore'
  BY <1>1, CoreShrink DEF IInv
<1>3. CASE EndRecover
  BY <1>2, <1>3, CommandOver DEF EndRecover
<1>4. CASE /\ StillAsShown /\ tx' = journal.tx /\ work' = journal
           /\ pc' = CASE preview.action = "recover"         -> "restore"
                      [] preview.action = "discard_corrupt" -> "forget"
                      [] OTHER                              -> "cleanup"
           /\ todo' = IF preview.action = "recover" THEN journal.listed ELSE {}
           /\ UNCHANGED <<plan, preview, cur, undo, bad>>
  <2>1. preview.action \in {"recover", "discard_inert", "discard_corrupt", "cleanup"}
    BY DEF StartRecovery, IInv, TypeInv, TypeOK, Previews
  <2>2. CASE preview.action = "recover"
    <3>1. pc' = "restore" /\ todo' = journal.listed
      BY <1>4, <2>2
    <3>2. uncommitted \subseteq journal.listed
      BY DEF IInv, JournalCore, WriteAhead
    <3>3. RecoveringInv'
      BY <1>1, <1>4, <3>1, <3>2 DEF RecoveringInv
    <3> QED
      BY <1>2, <3>1, <3>3 DEF IInv, QuietInv, BeginInv, WritingInv, RollingBackInv,
         Quiet, Writing, RollingBack
  <2>3. CASE preview.action = "discard_corrupt"
    <3>1. pc' = "forget"
      BY <1>4, <2>3
    <3> QED
      BY <1>2, <3>1 DEF IInv, QuietInv, BeginInv, WritingInv, RollingBackInv, RecoveringInv,
         Quiet, Writing, RollingBack
  <2>4. CASE preview.action \in {"discard_inert", "cleanup"}
    <3>1. pc' = "cleanup"
      BY <1>4, <2>4
    <3>2. uncommitted = {}
      <4>1. CASE preview.action = "discard_inert"
        BY <1>4, <4>1 DEF StillAsShown, MayDiscard, IInv, JournalCore, WriteAhead
      <4>2. CASE preview.action = "cleanup"
        BY <1>4, <4>2 DEF StillAsShown, MayCleanUp, Status, LoadStatus, IInv, JournalCore
      <4> QED
        BY <2>4, <4>1, <4>2
    <3> QED
      BY <1>1, <1>2, <3>1, <3>2 DEF IInv, QuietInv, BeginInv, WritingInv, RollingBackInv,
         RecoveringInv, Quiet, Writing, RollingBack
  <2> QED
    BY <2>1, <2>2, <2>3, <2>4
<1> QED
  BY <1>3, <1>4 DEF StartRecovery

\* What is known while files are restored.
LEMMA RecoveringFacts ==
    ASSUME IInv, pc \in {"restore", "replace"}
    PROVE  /\ journal = work /\ work \in Journals /\ work.tx = tx /\ JournalCore /\ Recorded(work)
           /\ todo \subseteq work.listed /\ todo \subseteq Files
           /\ uncommitted \subseteq todo \cup bad \cup (IF pc = "replace" THEN {cur} ELSE {})
           /\ pc = "replace" => cur \in work.listed /\ work.started[cur]
<1>1. work \in Journals /\ todo \subseteq Files
  BY DEF IInv, TypeInv, TypeOK, Commanded, RecoverPhases
<1> QED
  BY <1>1, NoJournalAssumption DEF IInv, RecoveringInv, JournalCore

\* A file that recovery skips holds no uncommitted bytes.
LEMMA SkippedIsClean ==
    ASSUME IInv, pc = "restore", NEW f \in todo,
           RestoreStatus(work, f, disk[f], snap[tx][f]) = "skipped"
    PROVE  f \notin uncommitted
<1> SUFFICES ASSUME f \in uncommitted PROVE FALSE
  OBVIOUS
<1>1. /\ journal = work /\ work.started[f] /\ disk[f] \in {work.after[f], Torn}
      /\ disk[f] # work.before[f] /\ work.after[f] \in Content /\ f \in Files
  BY RecoveringFacts DEF JournalCore, WriteAhead, Recorded
<1>2. disk[f] # None /\ disk[f] # Unreadable
  BY <1>1, ValuesAssumption
<1>3. Hash(disk[f]) = disk[f]
  BY <1>2 DEF Hash
<1>4. work.existed[f] \in BOOLEAN
  BY <1>1, RecoveringFacts DEF Journals
<1> QED
  BY <1>1, <1>2, <1>3, <1>4 DEF RestoreStatus, ItemStatus

LEMMA RestoreStatusValues ==
    ASSUME NEW j \in Journals, NEW f \in Files, NEW v, NEW s
    PROVE  RestoreStatus(j, f, v, s) \in {"skipped", "ready", "conflict", "failed"}
<1>1. j.started[f] \in BOOLEAN /\ j.existed[f] \in BOOLEAN
  BY DEF Journals
<1> QED
  BY <1>1 DEF RestoreStatus, ItemStatus

LEMMA ReadyIsStarted ==
    ASSUME NEW j \in Journals, NEW f \in Files, NEW v, NEW s,
           RestoreStatus(j, f, v, s) = "ready"
    PROVE  j.started[f]
<1>1. j.started[f] \in BOOLEAN
  BY DEF Journals
<1> QED
  BY <1>1 DEF RestoreStatus, ItemStatus

LEMMA InvCheckFile == ASSUME IInv, TypeInv', CheckFile PROVE IInv'
<1> DEFINE f == First(todo)
           status == RestoreStatus(work, f, disk[f], snap[tx][f])
<1>1. /\ pc = "restore" /\ f \in todo /\ f \in Files /\ f \in work.listed /\ work \in Journals
      /\ UNCHANGED <<disk, journal, dirs, snap, tx, work, uncommitted>>
  <2>1. todo # {} /\ pc = "restore"
    BY DEF CheckFile
  <2>2. f \in todo
    BY <2>1, FirstMember, FileTypes, RecoveringFacts
  <2> QED
    BY <2>1, <2>2, RecoveringFacts DEF CheckFile, stored, ghosts
<1>2. /\ todo' = todo \ {f}
      /\ bad' = IF status \in {"failed", "conflict"} THEN bad \cup {f} ELSE bad
      /\ IF status = "ready" THEN pc' = "replace" /\ cur' = f ELSE UNCHANGED <<pc, cur>>
  BY DEF CheckFile
<1>3. status = "ready" => work.started[f]
  BY <1>1, ReadyIsStarted
<1>4. status = "skipped" => f \notin uncommitted
  BY <1>1, SkippedIsClean
<1>5. status \in {"skipped", "ready", "conflict", "failed"}
  BY <1>1, RestoreStatusValues
<1> HIDE DEF f, status
<1>6. JournalCore'
  BY <1>1, RecoveringFacts, CoreShrink
<1>7. pc' \in {"restore", "replace"} /\ (pc' = "replace" <=> status = "ready")
  BY <1>1, <1>2
<1>8. uncommitted \subseteq todo \cup bad
  BY <1>1, RecoveringFacts
<1>9. uncommitted' \subseteq todo' \cup bad' \cup (IF pc' = "replace" THEN {cur'} ELSE {})
  <2>1. CASE status = "ready"
    BY <1>1, <1>2, <1>8, <2>1
  <2>2. CASE status = "skipped"
    BY <1>1, <1>2, <1>4, <1>8, <2>2
  <2>3. CASE status \in {"conflict", "failed"}
    BY <1>1, <1>2, <1>8, <2>3
  <2> QED
    BY <1>5, <2>1, <2>2, <2>3
<1>10. RecoveringInv'
  BY <1>1, <1>2, <1>3, <1>7, <1>9, RecoveringFacts DEF RecoveringInv
<1> QED
  BY <1>6, <1>7, <1>10 DEF IInv, QuietInv, BeginInv, WritingInv, RollingBackInv,
     Quiet, Writing, RollingBack

LEMMA InvReplaceFile == ASSUME IInv, TypeInv', ReplaceFile PROVE IInv'
<1>1. /\ pc = "replace" /\ pc' = "restore"
      /\ UNCHANGED <<journal, dirs, snap, tx, work, todo>>
  BY DEF ReplaceFile, stored
<1>2. /\ uncommitted' \subseteq uncommitted /\ \A g \in uncommitted' : disk'[g] = disk[g]
      /\ uncommitted' \subseteq todo' \cup bad'
  BY <1>1, RecoveringFacts DEF ReplaceFile, IInv, TypeInv, TypeOK
<1>3. JournalCore'
  BY <1>1, <1>2, RecoveringFacts, CoreShrink
<1>4. RecoveringInv'
  BY <1>1, <1>2, RecoveringFacts DEF RecoveringInv
<1> QED
  BY <1>1, <1>3, <1>4 DEF IInv, QuietInv, BeginInv, WritingInv, RollingBackInv,
     Quiet, Writing, RollingBack

LEMMA InvEndRestore == ASSUME IInv, TypeInv', EndRestore PROVE IInv'
<1>1. pc = "restore" /\ todo = {} /\ UNCHANGED <<disk, journal, dirs, snap, uncommitted>>
  BY DEF EndRestore, stored, ghosts
<1>2. JournalCore'
  BY <1>1, RecoveringFacts, CoreShrink
<1>3. CASE EndRecover
  BY <1>2, <1>3, CommandOver DEF EndRecover
<1>4. CASE bad = {} /\ pc' = "cleanup"
  <2>1. uncommitted' = {}
    BY <1>1, <1>4, RecoveringFacts
  <2> QED
    BY <1>2, <1>4, <2>1 DEF IInv, QuietInv, BeginInv, WritingInv, RollingBackInv, RecoveringInv,
       Writing, RollingBack
<1> QED
  BY <1>3, <1>4 DEF EndRestore

LEMMA InvCleanup ==
    ASSUME IInv, TypeInv', CleanupJournal \/ CleanupSnapshots
    PROVE  IInv'
<1>1. uncommitted' = {} /\ journal' \in {journal, NoJournal}
  BY DEF CleanupJournal, CleanupSnapshots, UnlinkJournal, RemoveSnapshots, stored, ghosts,
     IInv, QuietInv, Quiet
<1>2. JournalCore'
  BY <1>1, CoreQuiet DEF IInv, JournalCore, Recorded
<1>3. CASE Release
  BY <1>2, <1>3, CommandOver
<1>4. CASE pc' = "cleanup_snapshots"
  BY <1>1, <1>2, <1>4 DEF IInv, QuietInv, BeginInv, WritingInv, RollingBackInv, RecoveringInv,
     Writing, RollingBack
<1> QED
  BY <1>3, <1>4 DEF CleanupJournal, CleanupSnapshots, EndRecover

LEMMA InvForgetJournal == ASSUME IInv, TypeInv', ForgetJournal PROVE IInv'
<1>1. CASE UnlinkJournal /\ uncommitted' = {}
  BY <1>1, CoreQuiet, CommandOver DEF UnlinkJournal, ForgetJournal, EndRecover
<1>2. CASE UNCHANGED <<stored, uncommitted>>
  BY <1>2, CoreShrink, CommandOver DEF ForgetJournal, EndRecover, stored, IInv
<1> QED
  BY <1>1, <1>2 DEF ForgetJournal

LEMMA InvStutter == ASSUME IInv, TypeInv', UNCHANGED vars PROVE IInv'
<1>1. UNCHANGED <<disk, journal, dirs, snap, pc, plan, tx, work, cur, todo, undo, bad, uncommitted>>
  BY DEF vars, stored, command, ghosts
<1>2. JournalCore'
  BY <1>1, CoreShrink DEF IInv
<1>3. QuietInv' /\ BeginInv' /\ WritingInv' /\ RollingBackInv' /\ RecoveringInv'
  BY <1>1 DEF IInv, QuietInv, BeginInv, WritingInv, RollingBackInv, RecoveringInv,
     Protected, Recorded
<1> QED
  BY <1>2, <1>3 DEF IInv

LEMMA InvNext == ASSUME LateFsync = FALSE, IInv, [Next]_vars PROVE IInv'
<1>1. TypeInv'
  BY TypeNext DEF IInv
<1> QED
  BY <1>1, InvOutside, InvStartPush, InvBeginTransaction, InvFailBegin, InvJournalBegin,
     InvLateCheck, InvMarkWordlist, InvSkipRunning, InvNextTarget, InvWriteFile, InvVerifyFile,
     InvComplete, InvRollbackFile, InvCopyBack, InvEndRollback, InvMarkIncomplete, InvUnlink,
     InvDiscardSnapshots, InvStartRecovery, InvCheckFile, InvReplaceFile, InvEndRestore,
     InvCleanup, InvForgetJournal, InvStutter
  DEF Next, CommandStep, PushStep, RecoverStep

LEMMA InvAlways == ASSUME LateFsync = FALSE PROVE Spec => []IInv
<1>1. IInv /\ [Next]_vars => IInv'
  BY InvNext
<1> QED
  BY <1>1, InvInit, PTL DEF Spec

-----------------------------------------------------------------------------
(* The results.  LateFsync = FALSE: a journal write that reports a failure  *)
(* did not become visible.                                                  *)

\* Whatever fails, whoever edits and wherever the process dies, each file with
\* uncommitted bytes is one the journal on disk can put back.
THEOREM WriteAheadHolds == ASSUME LateFsync = FALSE PROVE Spec => []WriteAhead
<1>1. IInv => WriteAhead
  BY DEF IInv, JournalCore
<1> QED
  BY <1>1, InvAlways, PTL

\* And no command but recover starts before it has been put back.
THEOREM NoSilentPartialHolds == ASSUME LateFsync = FALSE PROVE Spec => []NoSilentPartial
<1>1. IInv => NoSilentPartial
  BY DEF IInv, JournalCore, NoSilentPartial, BlocksMutation, Status, LoadStatus
<1> QED
  BY <1>1, InvAlways, PTL

\* The files a step may change.
LEMMA OnlyAnnounced ==
    ASSUME IInv, [Next]_vars, NEW f \in Files, disk'[f] # disk[f], edits' = edits
    PROVE  journal # NoJournal /\ f \in journal.listed /\ journal.started[f]
<1>1. CASE WriteFile
  <2>1. cur \in work.listed /\ work.started[cur] /\ journal = work /\ journal # NoJournal
    BY <1>1, WritingFacts DEF WriteFile, Writing, IInv, WritingInv
  <2>2. f = cur
    BY <1>1 DEF WriteFile, Leave, IInv, TypeInv, TypeOK
  <2> QED
    BY <2>1, <2>2
<1>2. CASE RollbackFile
  <2>1. pc \in RollingBack /\ todo \subseteq Files /\ todo # {}
    BY <1>2 DEF RollbackFile, RollingBack, IInv, TypeInv, TypeOK
  <2>2. NextUndo \in undo
    BY <2>1, NextUndoMember, RollingBackFacts
  <2>3. f = NextUndo
    BY <1>2 DEF RollbackFile, RemoveCreated, OpenForCopy, Leave, IInv, TypeInv, TypeOK
  <2> QED
    BY <2>1, <2>2, <2>3, RollingBackFacts
<1>3. CASE CopyBack
  <2>1. pc \in RollingBack /\ cur \in undo
    BY <1>3, RollingBackFacts DEF CopyBack, RollingBack, IInv, RollingBackInv
  <2>2. f = cur
    BY <1>3 DEF CopyBack, IInv, TypeInv, TypeOK
  <2> QED
    BY <2>1, <2>2, RollingBackFacts
<1>4. CASE ReplaceFile
  <2>1. cur \in work.listed /\ work.started[cur] /\ journal = work /\ journal # NoJournal
    BY <1>4, RecoveringFacts, NoJournalAssumption DEF ReplaceFile
  <2>2. f = cur
    BY <1>4 DEF ReplaceFile, IInv, TypeInv, TypeOK
  <2> QED
    BY <2>1, <2>2
<1>5. CASE UNCHANGED disk
  BY <1>5
<1>6. CASE \E g \in Files, v \in EditValues : Edit(g, v)
  BY <1>6 DEF Edit, IInv, TypeInv, TypeOK
<1> QED
  BY <1>1, <1>2, <1>3, <1>4, <1>5, <1>6
  DEF Next, CommandStep, PushStep, RecoverStep, vars, PlanStep, ReadWords, ReadTargets, PlanRewrite, HashList, StartPush, Inspect, StartRecovery,
      BeginTransaction, FailBegin, JournalBegin, LateCheck, MarkWordlist, SkipRunning, NextTarget,
      VerifyFile, Complete, EndRollback, MarkIncomplete, UnlinkIgnoringErrors, DiscardSnapshots,
      CheckFile, EndRestore, CleanupJournal, CleanupSnapshots, ForgetJournal, Crash

\* A command changes no file that the journal on disk does not announce.
THEOREM JournaledWritesOnlyHolds ==
    ASSUME LateFsync = FALSE PROVE Spec => JournaledWritesOnly
<1> DEFINE Announced ==
      \A f \in Files : disk'[f] # disk[f] /\ edits' = edits =>
         journal # NoJournal /\ f \in journal.listed /\ journal.started[f]
<1>1. IInv /\ [Next]_vars => [Announced]_vars
  BY OnlyAnnounced
<1> QED
  BY <1>1, InvAlways, PTL DEF Spec, JournaledWritesOnly
=============================================================================

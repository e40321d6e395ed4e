------------------------------ MODULE Aftermath -------------------------------
(***************************************************************************)
(* What a change of the word list leaves behind it: the backups of what it *)
(* replaced, the record of it in the history, and the commit that saves    *)
(* it.  The sessions do these one after the other, each beside the others  *)
(* and beside other programs, and any of them may be killed at any point.  *)
(***************************************************************************)
EXTENDS Backups, LogsScreen, GitSave

vars == <<workspace, session, budget, backups, history, logs, git>>

Init == InitWorkspace /\ InitBackups /\ InitHistory /\ InitLogs /\ InitGit

\* The process is killed: the kernel gives its locks back, nothing else is undone.
Die(s) ==
    /\ pc[s] \in Writing \cup Waiting \cup Recording \cup Saving /\ screen = Closed
    /\ Fault
    /\ pc' = [pc EXCEPT ![s] = "idle"] /\ plan' = [plan EXCEPT ![s] = <<>>]
    /\ memo' = [memo EXCEPT ![s] = NoMemo] /\ LetGo(s) /\ Release(s)
    /\ copy' = (IF lock = s THEN NoFile ELSE copy) /\ slot' = (IF lock = s THEN 0 ELSE slot)
    /\ UNCHANGED <<workspace, bak, slipped, hist, torn, written, seen, logs, git>>

EditorSaves == Saved(Words) /\ UNCHANGED <<backups, history, logs, git>>

Act(s) ==
    \/ BeginCollect(s) /\ UNCHANGED <<history, logs, git>>
    \/ Backup(s) /\ UNCHANGED <<history, logs, git>>
    \/ Recorder(s) /\ UNCHANGED <<backups, logs, git>>
    \/ GitStep(s) /\ UNCHANGED <<backups, history, logs>>
    \/ LogsStep(s) /\ UNCHANGED <<backups, git>>

Next ==
    \/ \E s \in Sessions : Act(s) \/ Die(s)
    \/ Thread /\ UNCHANGED <<backups, git>>
    \/ \E t \in threads : ThreadFails(t) /\ UNCHANGED <<backups, git>>
    \/ EditorSaves
    \/ UserStages /\ UNCHANGED <<backups, history, logs>>

Spec == Init /\ [][Next]_vars

\* What a session does without its user goes on.
Works(s) == \/ Backup(s) /\ UNCHANGED <<history, logs, git>>
            \/ Recorder(s) /\ UNCHANGED <<backups, logs, git>>
            \/ Clear(s) /\ UNCHANGED <<backups, git>>

FairSpec == Spec /\ \A s \in Sessions : WF_vars(Works(s))

-----------------------------------------------------------------------------

TypeOK ==
    /\ work \in [Files -> 0 .. clock] /\ clock \in Nat
    /\ lock \in Sessions \cup {Free} /\ hlock \in Sessions \cup {Free}
    /\ pc \in [Sessions -> {"idle", "record", "logs"} \cup Writing \cup Waiting \cup Recording \cup Saving]
    /\ plan \in [Sessions -> Seq(Commands)]
    /\ bak \in [Slots -> 0 .. clock] /\ copy \in 0 .. clock /\ slot \in Slots \cup {0} /\ slipped \in BOOLEAN
    /\ torn \in BOOLEAN /\ written \in Nat /\ cleared \in 0 .. written
    /\ index \in [Files -> 0 .. clock] /\ head \in [Files -> 0 .. clock]
    /\ remote \in [Files -> 0 .. clock] /\ upstream \in BOOLEAN
    /\ scene \in Scenes /\ saves \in 0 .. scene.saves /\ faults \in 0 .. scene.faults
=============================================================================

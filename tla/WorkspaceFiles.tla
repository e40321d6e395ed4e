---------------------------- MODULE WorkspaceFiles ----------------------------
(***************************************************************************)
(* The files of a personal workspace and the sessions that work on it, as  *)
(* far as the backups, the operation history and the Git repository are    *)
(* concerned.  The content of a file is the number of the save that made   *)
(* it, so that what is newer can be told from what is older.               *)
(***************************************************************************)
EXTENDS Naturals, Sequences, FiniteSets

CONSTANTS
    Sessions, Free,      \* processes; nobody has the lock
    Keep,                \* [io] backup_keep
    Scenes               \* what the sessions are asked to do, where, and within which bounds

Commands == {"collect", "recover", "save", "save_push", "logs"}

\* todo: the commands of each session; saves, faults: bounds on the saves by
\* other programs and on the calls that fail; upstream: the branch has one;
\* used: the list has been there for long, with all its backups.
ASSUME WorkspaceAssumption ==
    /\ Free \notin Sessions /\ Keep \in Nat
    /\ \A c \in Scenes : /\ c.todo \in [Sessions -> Seq(Commands)]
                         /\ c.saves \in Nat /\ c.faults \in Nat
                         /\ c.upstream \in BOOLEAN /\ c.used \in BOOLEAN

VARIABLES
    work, clock,         \* the files; the number of saves there have been
    lock,                \* the session that holds the project lock
    plan, pc, memo,      \* what a session is to do, where it is, what it knows
    scene,               \* the scene that is played
    saves, faults        \* how much of each bound is left

workspace == <<work, clock, scene>>
session   == <<lock, plan, pc, memo>>
budget    == <<saves, faults>>

Tracked == {"wordlist", "settings"}
Files   == Tracked \cup {"other"}
Words   == "wordlist"
NoFile  == 0

\* _record_id: what was done, to what, and how it ended; not when.
Identity(operation, identifier, outcome) == <<operation, identifier, outcome>>

NoMemo == [id |-> <<>>, lines |-> <<>>, seen |-> [f \in Files |-> NoFile],
           dirty |-> {}, upstream |-> FALSE, committed |-> FALSE, pushed |-> FALSE]

InitWorkspace ==
    /\ scene \in Scenes
    /\ clock = Keep + 1
    /\ work = [f \in Files |-> IF f = Words /\ ~scene.used THEN NoFile ELSE clock]
    /\ lock = Free /\ plan = scene.todo
    /\ pc = [s \in Sessions |-> "idle"] /\ memo = [s \in Sessions |-> NoMemo]
    /\ saves = scene.saves /\ faults = scene.faults

-----------------------------------------------------------------------------

Asked(s, c) == pc[s] = "idle" /\ plan[s] # <<>> /\ Head(plan[s]) = c

\* Session s goes on to a phase; it ends its command; it ends it with the lock.
Go(s, phase)  == pc' = [pc EXCEPT ![s] = phase] /\ UNCHANGED plan
End(s)        == /\ pc' = [pc EXCEPT ![s] = "idle"]
                 /\ plan' = [plan EXCEPT ![s] = Tail(@)]
                 /\ memo' = [memo EXCEPT ![s] = NoMemo]
Knows(s, m)   == memo' = [memo EXCEPT ![s] = m]
LetGo(s)      == lock' = IF lock = s THEN Free ELSE lock

NoFault == UNCHANGED budget
Fault   == faults > 0 /\ faults' = faults - 1 /\ UNCHANGED saves

\* A file is replaced by a new content: the rename of atomic_write.
NewContent(f) == /\ work' = [work EXCEPT ![f] = clock + 1] /\ clock' = clock + 1
                 /\ UNCHANGED scene

\* Another program saves a file.
Saved(f) == saves > 0 /\ saves' = saves - 1 /\ NewContent(f) /\ UNCHANGED <<session, faults>>
=============================================================================

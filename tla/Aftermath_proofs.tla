------------------------- MODULE Aftermath_proofs --------------------------
(***************************************************************************)
(* What holds after the word list is written, for any number of sessions,  *)
(* backups, records and commands: the chain of backups keeps what a write  *)
(* replaces and loses its oldest copy first, a commit takes only what its  *)
(* session has listed, and what a report says is saved is saved.           *)
(*                                                                         *)
(* The invariant AftermathInv has a part for each of the things the        *)
(* sessions share: who holds which lock (LockInv), which content of each   *)
(* file is staged, committed and pushed (GitOrder) and what each session   *)
(* knows of it (SaveInv), where the content of the word list stands in the *)
(* chain while a write is under way (ChainInv).                            *)
(***************************************************************************)
EXTENDS Aftermath, SequenceTheorems, WellFoundedInduction, TLAPS

(* Induction over the natural numbers, for a set: every set of them that is not *)
(* empty has a least element.                                                   *)
LEMMA Induction ==
    ASSUME NEW S, 0 \in S, \A n \in Nat : n \in S => n + 1 \in S
    PROVE  Nat \subseteq S
<1> SUFFICES ASSUME Nat \ S # {} PROVE FALSE  OBVIOUS
<1>1. \E x \in Nat \ S : \A y \in Nat \ S : ~ (<<y, x>> \in OpToRel(<, Nat))
  BY NatLessThanWellFounded, WFMin
<1>2. PICK x \in Nat \ S : \A y \in Nat \ S : ~ (y < x)
  BY <1>1 DEF OpToRel
<1>3. x # 0 /\ x - 1 \in Nat  OBVIOUS
<1>4. x - 1 \in S  BY <1>2, <1>3
<1> QED  BY <1>3, <1>4

(* f picks those of the lines that are in L, up to each index. *)
Picks(f, lines, L, m) ==
    f = [n \in 0 .. m |-> IF n = 0 THEN <<>>
                          ELSE IF lines[n] \in L THEN Append(f[n - 1], lines[n]) ELSE f[n - 1]]

(* The function that picks the lines exists, whatever their number.             *)
LEMMA PicksExists ==
    ASSUME NEW lines, NEW L
    PROVE  \A m \in Nat : \E f : Picks(f, lines, L, m)
<1> DEFINE S == {m \in Nat : \E f : Picks(f, lines, L, m)}
<1>1. 0 \in S
  <2>1. Picks([n \in 0 .. 0 |-> <<>>], lines, L, 0)  BY DEF Picks
  <2> QED  BY <2>1
<1>2. ASSUME NEW m \in Nat, m \in S  PROVE m + 1 \in S
  <2>1. PICK f : Picks(f, lines, L, m)  BY <1>2
  <2> DEFINE last == IF lines[m + 1] \in L THEN Append(f[m], lines[m + 1]) ELSE f[m]
             g == [n \in 0 .. m + 1 |-> IF n = m + 1 THEN last ELSE f[n]]
  <2>2. \A n \in 0 .. m : f[n] = IF n = 0 THEN <<>>
                          ELSE IF lines[n] \in L THEN Append(f[n - 1], lines[n]) ELSE f[n - 1]
    BY <2>1 DEF Picks
  <2>3. ASSUME NEW n \in 0 .. m + 1
        PROVE  g[n] = IF n = 0 THEN <<>>
                          ELSE IF lines[n] \in L THEN Append(g[n - 1], lines[n]) ELSE g[n - 1]
    <3>1. CASE n = m + 1
      <4>1. n # 0 /\ n - 1 = m /\ g[n] = last /\ g[n - 1] = f[m]  BY <3>1
      <4> QED  BY <4>1, <3>1
    <3>2. CASE n # m + 1
      <4>1. n \in 0 .. m /\ g[n] = f[n] /\ (n # 0 => g[n - 1] = f[n - 1])  BY <3>2
      <4> QED  BY <4>1, <2>2
    <3> QED  BY <3>1, <3>2
  <2>4. Picks(g, lines, L, m + 1)
    <3> HIDE DEF last
    <3>1. g = [n \in 0 .. m + 1 |-> g[n]]  OBVIOUS
    <3> HIDE DEF g
    <3> QED  BY <3>1, <2>3 DEF Picks
  <2> QED  BY <2>4
<1>3. Nat \subseteq S
  <2> HIDE DEF S
  <2> QED  BY <1>1, <1>2, Induction
<1> QED  BY <1>3

(* Picked is what such a function gives for all the lines.                      *)
LEMMA PickedDef ==
    ASSUME NEW lines, NEW L, Len(lines) \in Nat
    PROVE  \E f : Picks(f, lines, L, Len(lines)) /\ Picked(lines, L) = f[Len(lines)]
<1> DEFINE f == CHOOSE g : Picks(g, lines, L, Len(lines))
<1>1. Picks(f, lines, L, Len(lines))  BY PicksExists
<1>2. Picked(lines, L) = f[Len(lines)]  BY DEF Picked, Picks
<1> QED  BY <1>1, <1>2

(* p holds, in their order, the first n of the lines that are in L; g tells     *)
(* where each of them stood.                                                    *)
Stood(g, p, lines, L, n) ==
    /\ g \in [1 .. Len(p) -> 1 .. n]
    /\ \A k \in 1 .. Len(p) : p[k] = lines[g[k]] /\ p[k] \in L
    /\ \A j, k \in 1 .. Len(p) : j < k => g[j] < g[k]
    /\ \A i \in 1 .. n : lines[i] \in L => \E k \in 1 .. Len(p) : g[k] = i

(* One more line that is in L is appended.                                      *)
LEMMA StoodAppend ==
    ASSUME NEW T, NEW lines \in Seq(T), NEW L, NEW n \in 0 .. Len(lines) - 1, NEW p \in Seq(T),
           NEW g, Stood(g, p, lines, L, n), lines[n + 1] \in L
    PROVE  \E h : Stood(h, Append(p, lines[n + 1]), lines, L, n + 1)
<1> DEFINE q == Append(p, lines[n + 1])
           h == [k \in 1 .. Len(p) + 1 |-> IF k = Len(p) + 1 THEN n + 1 ELSE g[k]]
<1>1. Len(q) = Len(p) + 1 /\ Len(p) \in Nat /\ q[Len(p) + 1] = lines[n + 1]
      /\ \A k \in 1 .. Len(p) : q[k] = p[k]
  OBVIOUS
<1>2. h[Len(p) + 1] = n + 1 /\ \A k \in 1 .. Len(p) : h[k] = g[k] /\ g[k] \in 1 .. n
  <2>1. Len(p) + 1 \in 1 .. Len(p) + 1
        /\ \A k \in 1 .. Len(p) : k \in 1 .. Len(p) + 1 /\ k # Len(p) + 1
    BY <1>1
  <2>2. \A k \in 1 .. Len(p) : g[k] \in 1 .. n  BY DEF Stood
  <2> QED  BY <2>1, <2>2
<1>3. h \in [1 .. Len(q) -> 1 .. n + 1]
  <2>1. \A k \in 1 .. Len(p) + 1 : h[k] \in 1 .. n + 1
    <3>1. \A k \in 1 .. Len(p) + 1 : k = Len(p) + 1 \/ k \in 1 .. Len(p)  BY <1>1
    <3>2. n + 1 \in 1 .. n + 1 /\ 1 .. n \subseteq 1 .. n + 1  OBVIOUS
    <3> HIDE DEF h
    <3> QED  BY <3>1, <3>2, <1>2
  <2>2. h = [k \in 1 .. Len(p) + 1 |-> h[k]]  OBVIOUS
  <2> HIDE DEF h, q
  <2> QED  BY <2>1, <2>2, <1>1
<1> HIDE DEF q, h
<1>4. ASSUME NEW k \in 1 .. Len(q)  PROVE q[k] = lines[h[k]] /\ q[k] \in L
  <2>1. CASE k = Len(p) + 1
    <3>1. h[k] = n + 1 /\ q[k] = lines[n + 1]  BY <2>1, <1>1, <1>2
    <3> QED  BY <3>1
  <2>2. CASE k # Len(p) + 1
    <3>1. k \in 1 .. Len(p)  BY <2>2, <1>1
    <3> QED  BY <3>1, <1>1, <1>2 DEF Stood
  <2> QED  BY <2>1, <2>2
<1>5. ASSUME NEW j \in 1 .. Len(q), NEW k \in 1 .. Len(q), j < k  PROVE h[j] < h[k]
  <2>1. j \in 1 .. Len(p)  BY <1>1, <1>5
  <2>2. CASE k = Len(p) + 1  BY <2>1, <2>2, <1>2
  <2>3. CASE k # Len(p) + 1
    <3>1. k \in 1 .. Len(p)  BY <2>3, <1>1
    <3> QED  BY <3>1, <2>1, <1>2, <1>5 DEF Stood
  <2> QED  BY <2>2, <2>3
<1>6. ASSUME NEW i \in 1 .. n + 1, lines[i] \in L  PROVE \E k \in 1 .. Len(q) : h[k] = i
  <2>1. CASE i = n + 1  BY <2>1, <1>1, <1>2
  <2>2. CASE i # n + 1
    <3>1. i \in 1 .. n  BY <2>2
    <3>2. PICK k \in 1 .. Len(p) : g[k] = i  BY <3>1, <1>6 DEF Stood
    <3> QED  BY <3>2, <1>1, <1>2
  <2> QED  BY <2>1, <2>2
<1>7. Stood(h, q, lines, L, n + 1)  BY <1>3, <1>4, <1>5, <1>6 DEF Stood
<1> QED  BY <1>7 DEF q

(* One more line that is not in L is passed over.                               *)
LEMMA StoodSkip ==
    ASSUME NEW T, NEW lines \in Seq(T), NEW L, NEW n \in 0 .. Len(lines) - 1, NEW p \in Seq(T),
           NEW g, Stood(g, p, lines, L, n), lines[n + 1] \notin L
    PROVE  Stood(g, p, lines, L, n + 1)
<1>1. g \in [1 .. Len(p) -> 1 .. n + 1]  BY DEF Stood
<1>2. ASSUME NEW i \in 1 .. n + 1, lines[i] \in L  PROVE \E k \in 1 .. Len(p) : g[k] = i
  <2>1. i \in 1 .. n  BY <1>2
  <2> QED  BY <2>1, <1>2 DEF Stood
<1> QED  BY <1>1, <1>2 DEF Stood

(* What Picked returns: the lines that are in L, all of them, in their order.   *)
LEMMA PickedIsPicked ==
    ASSUME NEW T, NEW lines \in Seq(T), NEW L
    PROVE  /\ Picked(lines, L) \in Seq(T)
           /\ \E g : Stood(g, Picked(lines, L), lines, L, Len(lines))
<1> DEFINE N == Len(lines)
<1>1. N \in Nat  OBVIOUS
<1>2. PICK f : Picks(f, lines, L, N) /\ Picked(lines, L) = f[N]  BY <1>1, PickedDef
<1>3. \A n \in 0 .. N : f[n] = IF n = 0 THEN <<>>
                          ELSE IF lines[n] \in L THEN Append(f[n - 1], lines[n]) ELSE f[n - 1]
  BY <1>2 DEF Picks
<1> DEFINE S == {n \in Nat : n <= N => f[n] \in Seq(T) /\ \E g : Stood(g, f[n], lines, L, n)}
<1>4. 0 \in S
  <2>1. f[0] = <<>>  BY <1>3, <1>1
  <2>2. Len(<<>>) = 0 /\ 1 .. 0 = {} /\ <<>> \in Seq(T)  OBVIOUS
  <2>3. [k \in 1 .. 0 |-> k] \in [1 .. 0 -> 1 .. 0]  OBVIOUS
  <2>4. Stood([k \in 1 .. 0 |-> k], <<>>, lines, L, 0)  BY <2>2, <2>3 DEF Stood
  <2> QED  BY <2>1, <2>2, <2>4
<1>5. ASSUME NEW n \in Nat, n \in S  PROVE n + 1 \in S
  <2> SUFFICES ASSUME n + 1 <= N
               PROVE  f[n + 1] \in Seq(T) /\ \E g : Stood(g, f[n + 1], lines, L, n + 1)
    OBVIOUS
  <2>1. f[n] \in Seq(T) /\ n \in 0 .. Len(lines) - 1 /\ lines[n + 1] \in T  BY <1>5, <1>1
  <2>2. PICK g : Stood(g, f[n], lines, L, n)  BY <1>5, <1>1
  <2>3. f[n + 1] = IF lines[n + 1] \in L THEN Append(f[n], lines[n + 1]) ELSE f[n]
    <3>1. n + 1 \in 0 .. N /\ n + 1 # 0 /\ (n + 1) - 1 = n  BY <1>1
    <3> QED  BY <3>1, <1>3
  <2>4. CASE lines[n + 1] \in L
    <3>1. f[n + 1] = Append(f[n], lines[n + 1])  BY <2>3, <2>4
    <3>2. f[n + 1] \in Seq(T)  BY <3>1, <2>1
    <3> HIDE DEF S
    <3>3. \E h : Stood(h, f[n + 1], lines, L, n + 1)  BY <3>1, <2>1, <2>2, <2>4, StoodAppend
    <3> QED  BY <3>2, <3>3
  <2>5. CASE lines[n + 1] \notin L
    <3>1. f[n + 1] = f[n]  BY <2>3, <2>5
    <3> HIDE DEF S
    <3>3. Stood(g, f[n], lines, L, n + 1)  BY <2>1, <2>2, <2>5, StoodSkip
    <3> QED  BY <3>1, <2>1, <3>3
  <2> QED  BY <2>4, <2>5
<1>6. Nat \subseteq S
  <2> HIDE DEF S
  <2> QED  BY <1>4, <1>5, Induction
<1> QED  BY <1>1, <1>2, <1>6

-----------------------------------------------------------------------------

(* The steps a session can be at.                                               *)
Phases == {"idle", "record", "logs"} \cup Writing \cup Waiting \cup Recording \cup Saving
(* What a record or a session may be about; nothing, before a command is known. *)
Named  == Identities \cup {<<>>}
Lines  == [id : Named, n : Nat, readable : BOOLEAN]
(* The content of every file, by the time it was written.                       *)
Versions == [Files -> Nat]
(* What a session has read.                                                     *)
Memos  == [id : Named, lines : Seq(Lines), seen : Versions, dirty : SUBSET Tracked,
           upstream : BOOLEAN, committed : BOOLEAN, pushed : {FALSE}]

WorkspaceInv ==
    /\ clock \in Nat /\ clock > Keep /\ work \in Versions /\ \A f \in Files : work[f] <= clock
    /\ scene \in Scenes /\ saves \in 0 .. scene.saves /\ faults \in 0 .. scene.faults

SessionInv ==
    /\ pc \in [Sessions -> Phases] /\ plan \in [Sessions -> Seq(Commands)]
    /\ memo \in [Sessions -> Memos]
    /\ \A s \in Sessions : pc[s] # "idle" => plan[s] # <<>>

HistoryTypes ==
    /\ hist \in Seq(Lines) /\ torn \in BOOLEAN /\ written \in Nat
    /\ seen \in [Sessions -> SUBSET Named]
    /\ torn => hist # <<>>

GitTypes ==
    /\ index \in Versions /\ head \in Versions /\ remote \in Versions /\ upstream \in BOOLEAN
    /\ said \in [Sessions -> [committed : Versions, pushed : Versions]]

(* Every variable has its type.                                                 *)
Types == WorkspaceInv /\ SessionInv /\ HistoryTypes /\ GitTypes

(* The clock and the file a step writes, and what it takes of the budgets.      *)
Moved == /\ \/ UNCHANGED <<work, clock>>
            \/ \E f \in Files : work' = [work EXCEPT ![f] = clock + 1] /\ clock' = clock + 1
         /\ UNCHANGED scene
         /\ \/ UNCHANGED <<saves, faults>>
            \/ saves > 0 /\ saves' = saves - 1 /\ UNCHANGED faults
            \/ faults > 0 /\ faults' = faults - 1 /\ UNCHANGED saves

(* A step moves the clock with the file it writes, and at most one of the budgets. *)
LEMMA EveryStepMoves ==
    ASSUME Next  PROVE Moved
<1>1. ASSUME NEW s \in Sessions, BeginCollect(s) /\ UNCHANGED <<history, logs, git>>
     PROVE  Moved
  BY <1>1 DEF BeginCollect, Asked, Go, End, Knows, NoFault, Moved, workspace, budget, Files,
       Tracked, Words
<1>2. ASSUME NEW s \in Sessions, MakeCopy(s) /\ UNCHANGED <<history, logs, git>>
     PROVE  Moved
  BY <1>2 DEF MakeCopy, Refused, Fault, NoFault, End, LetGo, Go, Moved, workspace, budget,
       Files, Tracked, Words
<1>3. ASSUME NEW s \in Sessions, DropOldest(s) /\ UNCHANGED <<history, logs, git>>
     PROVE  Moved
  BY <1>3 DEF DropOldest, NoFault, Fault, Go, Moved, workspace, budget, Files, Tracked, Words
<1>4. ASSUME NEW s \in Sessions, Shift(s) /\ UNCHANGED <<history, logs, git>>
     PROVE  Moved
  BY <1>4 DEF Shift, NoFault, Fault, Go, Renamed, Moved, workspace, budget, Files, Tracked,
       Words
<1>5. ASSUME NEW s \in Sessions, PlaceCopy(s) /\ UNCHANGED <<history, logs, git>>
     PROVE  Moved
  BY <1>5 DEF PlaceCopy, Refused, Fault, NoFault, End, LetGo, Go, Moved, workspace, budget,
       Files, Tracked, Words
<1>6. ASSUME NEW s \in Sessions, Replace(s) /\ UNCHANGED <<history, logs, git>>
     PROVE  Moved
  BY <1>6 DEF Replace, Refused, Fault, NoFault, End, LetGo, Go, NewContent, Moved, workspace,
       budget, Files, Tracked, Words
<1>7. ASSUME NEW s \in Sessions, BeginRecover(s) /\ UNCHANGED <<backups, logs, git>>
     PROVE  Moved
  BY <1>7 DEF BeginRecover, Asked, Go, Knows, NoFault, Moved, workspace, budget, Files,
       Tracked, Words
<1>8. ASSUME NEW s \in Sessions, Record(s) /\ UNCHANGED <<backups, logs, git>>
     PROVE  Moved
  BY <1>8 DEF Record, Go, End, NoFault, Moved, workspace, budget, Files, Tracked, Words
<1>9. ASSUME NEW s \in Sessions, TakeHistoryLock(s) /\ UNCHANGED <<backups, logs, git>>
     PROVE  Moved
  BY <1>9 DEF TakeHistoryLock, Go, NoFault, Waiting, Moved, workspace, budget, Files, Tracked,
       Words
<1>10. ASSUME NEW s \in Sessions, Look(s) /\ UNCHANGED <<backups, logs, git>>
     PROVE  Moved
  BY <1>10 DEF Look, Learns, End, Release, NoFault, Fault, Go, Moved, workspace, budget,
       Files, Tracked, Words
<1>11. ASSUME NEW s \in Sessions, Write(s) /\ UNCHANGED <<backups, logs, git>>
     PROVE  Moved
  BY <1>11 DEF Write, NotSaved, Fault, NoFault, End, Release, Learns, Go, Moved, workspace,
       budget, Files, Tracked, Words
<1>12. ASSUME NEW s \in Sessions, Compact(s) /\ UNCHANGED <<backups, logs, git>>
     PROVE  Moved
  BY <1>12 DEF Compact, NoFault, Fault, End, Release, Go, Knows, Moved, workspace, budget,
       Files, Tracked, Words
<1>13. ASSUME NEW s \in Sessions, Swap(s) /\ UNCHANGED <<backups, logs, git>>
     PROVE  Moved
  BY <1>13 DEF Swap, NoFault, Fault, End, Release, Moved, workspace, budget, Files, Tracked,
       Words
<1>14. ASSUME NEW s \in Sessions, Inspect(s) /\ UNCHANGED <<backups, history, logs>>
     PROVE  Moved
  BY <1>14 DEF Inspect, Asked, Quiet, NoFault, Fault, Ends, End, Go, Knows, Moved, workspace,
       budget, Files, Tracked, Words
<1>15. ASSUME NEW s \in Sessions, Confirm(s) /\ UNCHANGED <<backups, history, logs>>
     PROVE  Moved
  BY <1>15 DEF Confirm, Quiet, NoFault, Go, Ends, End, Moved, workspace, budget, Files,
       Tracked, Words
<1>16. ASSUME NEW s \in Sessions, Add(s) /\ UNCHANGED <<backups, history, logs>>
     PROVE  Moved
  BY <1>16 DEF Add, Quiet, NoFault, Fault, GivesUp, End, Go, Moved, workspace, budget, Files,
       Tracked, Words
<1>17. ASSUME NEW s \in Sessions, Commit(s) /\ UNCHANGED <<backups, history, logs>>
     PROVE  Moved
  BY <1>17 DEF Commit, Quiet, NoFault, Fault, GivesUp, Go, Knows, Ends, End, Moved, workspace,
       budget, Files, Tracked, Words
<1>18. ASSUME NEW s \in Sessions, InspectAgain(s) /\ UNCHANGED <<backups, history, logs>>
     PROVE  Moved
  BY <1>18 DEF InspectAgain, Quiet, NoFault, Go, Ends, End, Moved, workspace, budget, Files,
       Tracked, Words
<1>19. ASSUME NEW s \in Sessions, Push(s) /\ UNCHANGED <<backups, history, logs>>
     PROVE  Moved
  BY <1>19 DEF Push, Quiet, NoFault, Fault, GivesUp, End, Moved, workspace, budget, Files,
       Tracked, Words
<1>20. ASSUME NEW s \in Sessions, OpenLogs(s) /\ UNCHANGED <<backups, git>>
     PROVE  Moved
  BY <1>20 DEF OpenLogs, Asked, NoFault, Go, Moved, workspace, budget, Files, Tracked, Words
<1>21. ASSUME NEW s \in Sessions, Refresh(s) /\ UNCHANGED <<backups, git>>
     PROVE  Moved
  BY <1>21 DEF Refresh, Presses, NoFault, Moved, workspace, budget, Files, Tracked, Words
<1>22. ASSUME NEW s \in Sessions, ChooseFilter(s) /\ UNCHANGED <<backups, git>>
     PROVE  Moved
  BY <1>22 DEF ChooseFilter, Presses, NoFault, Moved, workspace, budget, Files, Tracked, Words
<1>23. ASSUME NEW s \in Sessions, PressClear(s) /\ UNCHANGED <<backups, git>>
     PROVE  Moved
  BY <1>23 DEF PressClear, Presses, NoFault, Go, Moved, workspace, budget, Files, Tracked, Words
<1>24. ASSUME NEW s \in Sessions, Clear(s) /\ UNCHANGED <<backups, git>>
     PROVE  Moved
  BY <1>24 DEF Clear, ClearFile, NoFault, Fault, Release, Go, Moved, workspace, budget, Files,
       Tracked, Words
<1>25. ASSUME NEW s \in Sessions, LeaveLogs(s) /\ UNCHANGED <<backups, git>>
     PROVE  Moved
  BY <1>25 DEF LeaveLogs, Presses, NoFault, End, Moved, workspace, budget, Files, Tracked, Words
<1>26. ASSUME NEW s \in Sessions, Die(s)
     PROVE  Moved
  BY <1>26 DEF Die, Fault, LetGo, Release, Moved, workspace, budget, Files, Tracked, Words
<1>27. ASSUME NEW t \in threads, ThreadReads(t) \/ ThreadEnds(t), UNCHANGED <<backups, git>>
     PROVE  Moved
  BY <1>27 DEF ThreadReads, ThreadEnds, Runs, NoFault, Moved, workspace, budget, Files,
       Tracked, Words
<1>28. ASSUME NEW t \in threads, ThreadFails(t), UNCHANGED <<backups, git>>
     PROVE  Moved
  BY <1>28 DEF ThreadFails, Fault, Moved, workspace, budget, Files, Tracked, Words
<1>29. ASSUME EditorSaves
     PROVE  Moved
  BY <1>29 DEF EditorSaves, Saved, NewContent, Moved, workspace, budget, Files, Tracked, Words
<1>30. ASSUME UserStages /\ UNCHANGED <<backups, history, logs>>
     PROVE  Moved
  BY <1>30 DEF UserStages, Saved, NewContent, Moved, workspace, budget, Files, Tracked, Words
<1> QED
  BY <1>1, <1>2, <1>3, <1>4, <1>5, <1>6, <1>7, <1>8, <1>9, <1>10, <1>11, <1>12, <1>13, <1>14,
       <1>15, <1>16, <1>17, <1>18, <1>19, <1>20, <1>21, <1>22, <1>23, <1>24, <1>25, <1>26,
       <1>27, <1>28, <1>29, <1>30 DEF Next, Act, Backup, Recorder, GitStep, LogsStep, Thread

(* The files, their clock and the budgets keep their types.                     *)
LEMMA WorkspaceStep ==
    ASSUME WorkspaceInv, Next  PROVE WorkspaceInv'
<1> USE WorkspaceAssumption DEF WorkspaceInv, Versions
<1>1. Moved  BY EveryStepMoves
<1>2. scene' \in Scenes /\ saves' \in 0 .. scene'.saves /\ faults' \in 0 .. scene'.faults
  BY <1>1 DEF Moved
<1>3. clock' \in Nat /\ clock' > Keep /\ work' \in [Files -> Nat] /\ \A f \in Files : work'[f] <= clock'
  <2>1. CASE UNCHANGED <<work, clock>>  BY <2>1
  <2>2. ASSUME NEW f \in Files, work' = [work EXCEPT ![f] = clock + 1], clock' = clock + 1
        PROVE  clock' \in Nat /\ clock' > Keep /\ work' \in [Files -> Nat] /\ \A g \in Files : work'[g] <= clock'
    <3>1. clock' \in Nat /\ clock' > Keep  BY <2>2
    <3>2. work' \in [Files -> Nat]  BY <2>2
    <3>3. ASSUME NEW g \in Files  PROVE work'[g] <= clock'
      <4>1. work[g] \in Nat /\ work[g] <= clock  OBVIOUS
      <4>2. work'[g] = IF g = f THEN clock + 1 ELSE work[g]  BY <2>2
      <4> QED  BY <4>1, <4>2, <2>2
    <3> QED  BY <3>1, <3>2, <3>3
  <2> QED  BY <2>1, <2>2, <1>1 DEF Moved
<1> QED  BY <1>2, <1>3

(* What a command is reported as is the identity of an operation.               *)
LEMMA Identified ==
    /\ \A v \in Nat : Identity("pull", v, "completed") \in Identities
    /\ \A how \in Recoveries : Identity("recover", 0, Reported[how]) \in Identities
    /\ \A id \in Identities : id # <<>>
<1>1. "completed" \in {Reported[how] : how \in DOMAIN Reported}
  BY DEF Reported
<1>2. \A how \in Recoveries : Reported[how] \in {Reported[h] : h \in DOMAIN Reported}
  BY HistoryAssumption
<1>3. \A id \in Identities : id # <<>>  BY DEF Identities
<1> HIDE DEF Reported
<1> QED  BY <1>1, <1>2, <1>3 DEF Identities, Identity

(* A session that does nothing knows nothing.                                   *)
LEMMA NoMemoTyped == NoMemo \in Memos /\ NoMemo.id = <<>>
  BY DEF NoMemo, Memos, Named, Versions, NoFile

(* What a step of session s makes of its memo.                                  *)
LEMMA ParsedTyped ==
    ASSUME NEW lines \in Seq(Lines)
    PROVE  Parsed(lines) \in Seq(Lines)
  BY PickedIsPicked DEF Parsed

(* The last n of a sequence of lines.                                           *)
LEMMA NewestTyped ==
    ASSUME NEW T, NEW lines \in Seq(T), NEW n \in Nat, n <= Len(lines)
    PROVE  /\ Newest(lines, n) \in Seq(T) /\ Len(Newest(lines, n)) = n
           /\ \A k \in 1 .. n : Newest(lines, n)[k] = lines[Len(lines) - n + k]
  BY DEF Newest

(* What a session has read keeps its type.                                      *)
LEMMA MemoStep ==
    ASSUME Types, Next
    PROVE  memo' \in [Sessions -> Memos]
<1> USE NoMemoTyped DEF Types, SessionInv
<1>1. ASSUME NEW s \in Sessions, BeginCollect(s) /\ UNCHANGED <<history, logs, git>>
     PROVE  memo' \in [Sessions -> Memos]
  <2> DEFINE m == [NoMemo EXCEPT !.id = Identity("pull", work[Words], "completed")]
  <2>1. work[Words] \in Nat  BY DEF WorkspaceInv, Versions, Files, Tracked, Words
  <2>2. Identity("pull", work[Words], "completed") \in Named  BY <2>1, Identified DEF Named
  <2>3. m \in Memos  BY <2>2 DEF Memos, NoMemo
  <2>4. memo' = [memo EXCEPT ![s] = m] \/ memo' = [memo EXCEPT ![s] = NoMemo]
    BY <1>1 DEF BeginCollect, Asked, Go, End, Knows, NoFault, session, workspace
  <2> HIDE DEF m
  <2> QED  BY <2>3, <2>4
<1>2. ASSUME NEW s \in Sessions, MakeCopy(s) /\ UNCHANGED <<history, logs, git>>
     PROVE  memo' \in [Sessions -> Memos]
  BY <1>2 DEF MakeCopy, Refused, Fault, NoFault, End, LetGo, Go, session, workspace
<1>3. ASSUME NEW s \in Sessions, DropOldest(s) /\ UNCHANGED <<history, logs, git>>
     PROVE  memo' \in [Sessions -> Memos]
  BY <1>3 DEF DropOldest, NoFault, Fault, Go, session, workspace
<1>4. ASSUME NEW s \in Sessions, Shift(s) /\ UNCHANGED <<history, logs, git>>
     PROVE  memo' \in [Sessions -> Memos]
  BY <1>4 DEF Shift, NoFault, Fault, Go, Renamed, session, workspace
<1>5. ASSUME NEW s \in Sessions, PlaceCopy(s) /\ UNCHANGED <<history, logs, git>>
     PROVE  memo' \in [Sessions -> Memos]
  BY <1>5 DEF PlaceCopy, Refused, Fault, NoFault, End, LetGo, Go, session, workspace
<1>6. ASSUME NEW s \in Sessions, Replace(s) /\ UNCHANGED <<history, logs, git>>
     PROVE  memo' \in [Sessions -> Memos]
  BY <1>6 DEF Replace, Refused, Fault, NoFault, End, LetGo, Go, NewContent, session, workspace
<1>7. ASSUME NEW s \in Sessions, BeginRecover(s) /\ UNCHANGED <<backups, logs, git>>
     PROVE  memo' \in [Sessions -> Memos]
  <2>1. PICK how \in Recoveries :
             memo' = [memo EXCEPT ![s] = [NoMemo EXCEPT !.id = Identity("recover", 0, Reported[how])]]
    BY <1>7 DEF BeginRecover, Asked, Go, Knows, NoFault, session, workspace
  <2> DEFINE m == [NoMemo EXCEPT !.id = Identity("recover", 0, Reported[how])]
  <2>2. Identity("recover", 0, Reported[how]) \in Named  BY Identified DEF Named
  <2>3. m \in Memos  BY <2>2 DEF Memos, NoMemo
  <2>4. memo' = [memo EXCEPT ![s] = m]  BY <2>1
  <2> HIDE DEF m
  <2> QED  BY <2>3, <2>4
<1>8. ASSUME NEW s \in Sessions, Record(s) /\ UNCHANGED <<backups, logs, git>>
     PROVE  memo' \in [Sessions -> Memos]
  BY <1>8 DEF Record, Go, End, NoFault, session, workspace
<1>9. ASSUME NEW s \in Sessions, TakeHistoryLock(s) /\ UNCHANGED <<backups, logs, git>>
     PROVE  memo' \in [Sessions -> Memos]
  BY <1>9 DEF TakeHistoryLock, Go, NoFault, Waiting, session, workspace
<1>10. ASSUME NEW s \in Sessions, Look(s) /\ UNCHANGED <<backups, logs, git>>
     PROVE  memo' \in [Sessions -> Memos]
  BY <1>10 DEF Look, Learns, End, Release, NoFault, Fault, Go, session, workspace
<1>11. ASSUME NEW s \in Sessions, Write(s) /\ UNCHANGED <<backups, logs, git>>
     PROVE  memo' \in [Sessions -> Memos]
  BY <1>11 DEF Write, NotSaved, Fault, NoFault, End, Release, Learns, Go, session, workspace
<1>12. ASSUME NEW s \in Sessions, Compact(s) /\ UNCHANGED <<backups, logs, git>>
     PROVE  memo' \in [Sessions -> Memos]
  <2> DEFINE m == [memo[s] EXCEPT !.lines = Newest(Parsed(hist), MaxRecords)]
  <2>1. CASE memo' = [memo EXCEPT ![s] = NoMemo]  BY <2>1
  <2>2. CASE ~ (Len(Parsed(hist)) <= MaxRecords) /\ memo' = [memo EXCEPT ![s] = m]
    <3>1. Parsed(hist) \in Seq(Lines)  BY ParsedTyped DEF HistoryTypes
    <3>2. MaxRecords <= Len(Parsed(hist)) /\ MaxRecords \in Nat  BY <3>1, <2>2, HistoryAssumption
    <3>3. Newest(Parsed(hist), MaxRecords) \in Seq(Lines)  BY <3>1, <3>2, NewestTyped
    <3>4. m \in Memos  BY <3>3 DEF Memos
    <3> HIDE DEF m
    <3> QED  BY <2>2, <3>4
  <2> QED  BY <2>1, <2>2, <1>12 DEF Compact, NoFault, Fault, End, Release, Go, Knows, session, workspace
<1>13. ASSUME NEW s \in Sessions, Swap(s) /\ UNCHANGED <<backups, logs, git>>
     PROVE  memo' \in [Sessions -> Memos]
  BY <1>13 DEF Swap, NoFault, Fault, End, Release, session, workspace
<1>14. ASSUME NEW s \in Sessions, Inspect(s) /\ UNCHANGED <<backups, history, logs>>
     PROVE  memo' \in [Sessions -> Memos]
  <2> DEFINE m == [NoMemo EXCEPT !.seen = work, !.dirty = Dirty, !.upstream = upstream]
  <2>1. work \in Versions /\ Dirty \in SUBSET Tracked /\ upstream \in BOOLEAN
    BY DEF WorkspaceInv, Dirty, GitTypes
  <2>2. m \in Memos  BY <2>1 DEF Memos, NoMemo
  <2>3. memo' = [memo EXCEPT ![s] = m] \/ memo' = [memo EXCEPT ![s] = NoMemo]
    BY <1>14 DEF Inspect, Asked, Quiet, NoFault, Fault, Ends, End, Go, Knows, session, workspace
  <2> HIDE DEF m
  <2> QED  BY <2>2, <2>3
<1>15. ASSUME NEW s \in Sessions, Confirm(s) /\ UNCHANGED <<backups, history, logs>>
     PROVE  memo' \in [Sessions -> Memos]
  BY <1>15 DEF Confirm, Quiet, NoFault, Go, Ends, End, session, workspace
<1>16. ASSUME NEW s \in Sessions, Add(s) /\ UNCHANGED <<backups, history, logs>>
     PROVE  memo' \in [Sessions -> Memos]
  BY <1>16 DEF Add, Quiet, NoFault, Fault, GivesUp, End, Go, session, workspace
<1>17. ASSUME NEW s \in Sessions, Commit(s) /\ UNCHANGED <<backups, history, logs>>
     PROVE  memo' \in [Sessions -> Memos]
  <2> DEFINE m == [memo[s] EXCEPT !.committed = TRUE]
  <2>1. m \in Memos  BY DEF Memos
  <2>2. memo' = [memo EXCEPT ![s] = m] \/ memo' = [memo EXCEPT ![s] = NoMemo]
    BY <1>17 DEF Commit, Quiet, NoFault, Fault, GivesUp, Go, Knows, Ends, End, session,
         workspace
  <2> HIDE DEF m
  <2> QED  BY <2>1, <2>2
<1>18. ASSUME NEW s \in Sessions, InspectAgain(s) /\ UNCHANGED <<backups, history, logs>>
     PROVE  memo' \in [Sessions -> Memos]
  BY <1>18 DEF InspectAgain, Quiet, NoFault, Go, Ends, End, session, workspace
<1>19. ASSUME NEW s \in Sessions, Push(s) /\ UNCHANGED <<backups, history, logs>>
     PROVE  memo' \in [Sessions -> Memos]
  BY <1>19 DEF Push, Quiet, NoFault, Fault, GivesUp, End, session, workspace
<1>20. ASSUME NEW s \in Sessions, OpenLogs(s) /\ UNCHANGED <<backups, git>>
     PROVE  memo' \in [Sessions -> Memos]
  BY <1>20 DEF OpenLogs, Asked, NoFault, Go, session, workspace
<1>21. ASSUME NEW s \in Sessions, Refresh(s) /\ UNCHANGED <<backups, git>>
     PROVE  memo' \in [Sessions -> Memos]
  BY <1>21 DEF Refresh, Presses, NoFault, session, workspace
<1>22. ASSUME NEW s \in Sessions, ChooseFilter(s) /\ UNCHANGED <<backups, git>>
     PROVE  memo' \in [Sessions -> Memos]
  BY <1>22 DEF ChooseFilter, Presses, NoFault, session, workspace
<1>23. ASSUME NEW s \in Sessions, PressClear(s) /\ UNCHANGED <<backups, git>>
     PROVE  memo' \in [Sessions -> Memos]
  BY <1>23 DEF PressClear, Presses, NoFault, Go, session, workspace
<1>24. ASSUME NEW s \in Sessions, Clear(s) /\ UNCHANGED <<backups, git>>
     PROVE  memo' \in [Sessions -> Memos]
  BY <1>24 DEF Clear, ClearFile, NoFault, Fault, Release, Go, session, workspace
<1>25. ASSUME NEW s \in Sessions, LeaveLogs(s) /\ UNCHANGED <<backups, git>>
     PROVE  memo' \in [Sessions -> Memos]
  BY <1>25 DEF LeaveLogs, Presses, NoFault, End, session, workspace
<1>26. ASSUME NEW s \in Sessions, Die(s)
     PROVE  memo' \in [Sessions -> Memos]
  BY <1>26 DEF Die, Fault, LetGo, Release, session, workspace
<1>27. ASSUME NEW t \in threads, ThreadReads(t) \/ ThreadEnds(t), UNCHANGED <<backups, git>>
     PROVE  memo' \in [Sessions -> Memos]
  BY <1>27 DEF ThreadReads, ThreadEnds, Runs, NoFault, session, workspace
<1>28. ASSUME NEW t \in threads, ThreadFails(t), UNCHANGED <<backups, git>>
     PROVE  memo' \in [Sessions -> Memos]
  BY <1>28 DEF ThreadFails, Fault, session, workspace
<1>29. ASSUME EditorSaves
     PROVE  memo' \in [Sessions -> Memos]
  BY <1>29 DEF EditorSaves, Saved, NewContent, session, workspace
<1>30. ASSUME UserStages /\ UNCHANGED <<backups, history, logs>>
     PROVE  memo' \in [Sessions -> Memos]
  BY <1>30 DEF UserStages, Saved, NewContent, session, workspace
<1> QED
  BY <1>1, <1>2, <1>3, <1>4, <1>5, <1>6, <1>7, <1>8, <1>9, <1>10, <1>11, <1>12, <1>13, <1>14,
       <1>15, <1>16, <1>17, <1>18, <1>19, <1>20, <1>21, <1>22, <1>23, <1>24, <1>25, <1>26,
       <1>27, <1>28, <1>29, <1>30 DEF Next, Act, Backup, Recorder, GitStep, LogsStep, Thread

(* A session is always at a step of one of the commands.                        *)
LEMMA PhaseStep ==
    ASSUME Types, Next
    PROVE  pc' \in [Sessions -> Phases]
<1> USE DEF Types, SessionInv, Phases, Writing, Waiting, Recording, Saving
<1>1. ASSUME NEW s \in Sessions, BeginCollect(s) /\ UNCHANGED <<history, logs, git>>
     PROVE  pc' \in [Sessions -> Phases]
  BY <1>1 DEF BeginCollect, Asked, Go, End, Knows, NoFault, session, workspace
<1>2. ASSUME NEW s \in Sessions, MakeCopy(s) /\ UNCHANGED <<history, logs, git>>
     PROVE  pc' \in [Sessions -> Phases]
  BY <1>2 DEF MakeCopy, Refused, Fault, NoFault, End, LetGo, Go, session, workspace
<1>3. ASSUME NEW s \in Sessions, DropOldest(s) /\ UNCHANGED <<history, logs, git>>
     PROVE  pc' \in [Sessions -> Phases]
  BY <1>3 DEF DropOldest, NoFault, Fault, Go, session, workspace
<1>4. ASSUME NEW s \in Sessions, Shift(s) /\ UNCHANGED <<history, logs, git>>
     PROVE  pc' \in [Sessions -> Phases]
  BY <1>4 DEF Shift, NoFault, Fault, Go, Renamed, session, workspace
<1>5. ASSUME NEW s \in Sessions, PlaceCopy(s) /\ UNCHANGED <<history, logs, git>>
     PROVE  pc' \in [Sessions -> Phases]
  BY <1>5 DEF PlaceCopy, Refused, Fault, NoFault, End, LetGo, Go, session, workspace
<1>6. ASSUME NEW s \in Sessions, Replace(s) /\ UNCHANGED <<history, logs, git>>
     PROVE  pc' \in [Sessions -> Phases]
  BY <1>6 DEF Replace, Refused, Fault, NoFault, End, LetGo, Go, NewContent, session, workspace
<1>7. ASSUME NEW s \in Sessions, BeginRecover(s) /\ UNCHANGED <<backups, logs, git>>
     PROVE  pc' \in [Sessions -> Phases]
  BY <1>7 DEF BeginRecover, Asked, Go, Knows, NoFault, session, workspace
<1>8. ASSUME NEW s \in Sessions, Record(s) /\ UNCHANGED <<backups, logs, git>>
     PROVE  pc' \in [Sessions -> Phases]
  BY <1>8 DEF Record, Go, End, NoFault, session, workspace
<1>9. ASSUME NEW s \in Sessions, TakeHistoryLock(s) /\ UNCHANGED <<backups, logs, git>>
     PROVE  pc' \in [Sessions -> Phases]
  BY <1>9 DEF TakeHistoryLock, Go, NoFault, Waiting, session, workspace
<1>10. ASSUME NEW s \in Sessions, Look(s) /\ UNCHANGED <<backups, logs, git>>
     PROVE  pc' \in [Sessions -> Phases]
  BY <1>10 DEF Look, Learns, End, Release, NoFault, Fault, Go, session, workspace
<1>11. ASSUME NEW s \in Sessions, Write(s) /\ UNCHANGED <<backups, logs, git>>
     PROVE  pc' \in [Sessions -> Phases]
  BY <1>11 DEF Write, NotSaved, Fault, NoFault, End, Release, Learns, Go, session, workspace
<1>12. ASSUME NEW s \in Sessions, Compact(s) /\ UNCHANGED <<backups, logs, git>>
     PROVE  pc' \in [Sessions -> Phases]
  BY <1>12 DEF Compact, NoFault, Fault, End, Release, Go, Knows, session, workspace
<1>13. ASSUME NEW s \in Sessions, Swap(s) /\ UNCHANGED <<backups, logs, git>>
     PROVE  pc' \in [Sessions -> Phases]
  BY <1>13 DEF Swap, NoFault, Fault, End, Release, session, workspace
<1>14. ASSUME NEW s \in Sessions, Inspect(s) /\ UNCHANGED <<backups, history, logs>>
     PROVE  pc' \in [Sessions -> Phases]
  BY <1>14 DEF Inspect, Asked, Quiet, NoFault, Fault, Ends, End, Go, Knows, session, workspace
<1>15. ASSUME NEW s \in Sessions, Confirm(s) /\ UNCHANGED <<backups, history, logs>>
     PROVE  pc' \in [Sessions -> Phases]
  BY <1>15 DEF Confirm, Quiet, NoFault, Go, Ends, End, session, workspace
<1>16. ASSUME NEW s \in Sessions, Add(s) /\ UNCHANGED <<backups, history, logs>>
     PROVE  pc' \in [Sessions -> Phases]
  BY <1>16 DEF Add, Quiet, NoFault, Fault, GivesUp, End, Go, session, workspace
<1>17. ASSUME NEW s \in Sessions, Commit(s) /\ UNCHANGED <<backups, history, logs>>
     PROVE  pc' \in [Sessions -> Phases]
  BY <1>17 DEF Commit, Quiet, NoFault, Fault, GivesUp, Go, Knows, Ends, End, session, workspace
<1>18. ASSUME NEW s \in Sessions, InspectAgain(s) /\ UNCHANGED <<backups, history, logs>>
     PROVE  pc' \in [Sessions -> Phases]
  BY <1>18 DEF InspectAgain, Quiet, NoFault, Go, Ends, End, session, workspace
<1>19. ASSUME NEW s \in Sessions, Push(s) /\ UNCHANGED <<backups, history, logs>>
     PROVE  pc' \in [Sessions -> Phases]
  BY <1>19 DEF Push, Quiet, NoFault, Fault, GivesUp, End, session, workspace
<1>20. ASSUME NEW s \in Sessions, OpenLogs(s) /\ UNCHANGED <<backups, git>>
     PROVE  pc' \in [Sessions -> Phases]
  BY <1>20 DEF OpenLogs, Asked, NoFault, Go, session, workspace
<1>21. ASSUME NEW s \in Sessions, Refresh(s) /\ UNCHANGED <<backups, git>>
     PROVE  pc' \in [Sessions -> Phases]
  BY <1>21 DEF Refresh, Presses, NoFault, session, workspace
<1>22. ASSUME NEW s \in Sessions, ChooseFilter(s) /\ UNCHANGED <<backups, git>>
     PROVE  pc' \in [Sessions -> Phases]
  BY <1>22 DEF ChooseFilter, Presses, NoFault, session, workspace
<1>23. ASSUME NEW s \in Sessions, PressClear(s) /\ UNCHANGED <<backups, git>>
     PROVE  pc' \in [Sessions -> Phases]
  BY <1>23 DEF PressClear, Presses, NoFault, Go, session, workspace
<1>24. ASSUME NEW s \in Sessions, Clear(s) /\ UNCHANGED <<backups, git>>
     PROVE  pc' \in [Sessions -> Phases]
  BY <1>24 DEF Clear, ClearFile, NoFault, Fault, Release, Go, session, workspace
<1>25. ASSUME NEW s \in Sessions, LeaveLogs(s) /\ UNCHANGED <<backups, git>>
     PROVE  pc' \in [Sessions -> Phases]
  BY <1>25 DEF LeaveLogs, Presses, NoFault, End, session, workspace
<1>26. ASSUME NEW s \in Sessions, Die(s)
     PROVE  pc' \in [Sessions -> Phases]
  BY <1>26 DEF Die, Fault, LetGo, Release, session, workspace
<1>27. ASSUME NEW t \in threads, ThreadReads(t) \/ ThreadEnds(t), UNCHANGED <<backups, git>>
     PROVE  pc' \in [Sessions -> Phases]
  BY <1>27 DEF ThreadReads, ThreadEnds, Runs, NoFault, session, workspace
<1>28. ASSUME NEW t \in threads, ThreadFails(t), UNCHANGED <<backups, git>>
     PROVE  pc' \in [Sessions -> Phases]
  BY <1>28 DEF ThreadFails, Fault, session, workspace
<1>29. ASSUME EditorSaves
     PROVE  pc' \in [Sessions -> Phases]
  BY <1>29 DEF EditorSaves, Saved, NewContent, session, workspace
<1>30. ASSUME UserStages /\ UNCHANGED <<backups, history, logs>>
     PROVE  pc' \in [Sessions -> Phases]
  BY <1>30 DEF UserStages, Saved, NewContent, session, workspace
<1> QED
  BY <1>1, <1>2, <1>3, <1>4, <1>5, <1>6, <1>7, <1>8, <1>9, <1>10, <1>11, <1>12, <1>13, <1>14,
       <1>15, <1>16, <1>17, <1>18, <1>19, <1>20, <1>21, <1>22, <1>23, <1>24, <1>25, <1>26,
       <1>27, <1>28, <1>29, <1>30 DEF Next, Act, Backup, Recorder, GitStep, LogsStep, Thread

(* A session that is at work has the command it works on in its plan.           *)
LEMMA PlanStep ==
    ASSUME Types, Next
    PROVE  /\ plan' \in [Sessions -> Seq(Commands)]
           /\ \A r \in Sessions : pc'[r] # "idle" => plan'[r] # <<>>
<1> DEFINE G == /\ plan' \in [Sessions -> Seq(Commands)]
                /\ \A r \in Sessions : pc'[r] # "idle" => plan'[r] # <<>>
<1> SUFFICES G  OBVIOUS
<1>0. ASSUME NEW s \in Sessions, plan[s] # <<>>,
             \/ plan' = plan
             \/ plan' = [plan EXCEPT ![s] = Tail(@)] /\ pc'[s] = "idle"
             \/ plan' = [plan EXCEPT ![s] = <<>>] /\ pc'[s] = "idle",
             \A r \in Sessions \ {s} : pc'[r] = pc[r]
      PROVE  G
  <2>0. Tail(plan[s]) \in Seq(Commands) /\ <<>> \in Seq(Commands)  BY <1>0 DEF Types, SessionInv
  <2>1. plan' \in [Sessions -> Seq(Commands)]
    <3>1. CASE plan' = plan  BY <3>1 DEF Types, SessionInv
    <3>2. CASE plan' = [plan EXCEPT ![s] = Tail(@)]  BY <2>0, <3>2 DEF Types, SessionInv
    <3>3. CASE plan' = [plan EXCEPT ![s] = <<>>]  BY <2>0, <3>3 DEF Types, SessionInv
    <3> QED  BY <3>1, <3>2, <3>3, <1>0
  <2>2. \A r \in Sessions \ {s} : plan'[r] = plan[r]  BY <1>0 DEF Types, SessionInv
  <2>3. pc'[s] # "idle" => plan'[s] # <<>>  BY <1>0 DEF Types, SessionInv
  <2> QED  BY <2>1, <2>2, <2>3, <1>0 DEF Types, SessionInv
<1> HIDE DEF G
<1> USE DEF Types, SessionInv
<1>1. ASSUME NEW s \in Sessions, BeginCollect(s) /\ UNCHANGED <<history, logs, git>>
     PROVE  G
  <2>1. plan[s] # <<>> /\ \A r \in Sessions \ {s} : pc'[r] = pc[r]
    BY <1>1 DEF BeginCollect, Asked, Go, End, Knows, NoFault, Waiting, Writing, Recording,
         Saving
  <2>2. \/ plan' = plan
        \/ plan' = [plan EXCEPT ![s] = Tail(@)] /\ pc'[s] = "idle"
        \/ plan' = [plan EXCEPT ![s] = <<>>] /\ pc'[s] = "idle"
    BY <1>1 DEF BeginCollect, Asked, Go, End, Knows, NoFault, session
  <2> QED  BY <1>0, <2>1, <2>2
<1>2. ASSUME NEW s \in Sessions, MakeCopy(s) /\ UNCHANGED <<history, logs, git>>
     PROVE  G
  <2>1. plan[s] # <<>> /\ \A r \in Sessions \ {s} : pc'[r] = pc[r]
    BY <1>2 DEF MakeCopy, Refused, Fault, NoFault, End, LetGo, Go, Waiting, Writing,
         Recording, Saving
  <2>2. \/ plan' = plan
        \/ plan' = [plan EXCEPT ![s] = Tail(@)] /\ pc'[s] = "idle"
        \/ plan' = [plan EXCEPT ![s] = <<>>] /\ pc'[s] = "idle"
    BY <1>2 DEF MakeCopy, Refused, Fault, NoFault, End, LetGo, Go, session
  <2> QED  BY <1>0, <2>1, <2>2
<1>3. ASSUME NEW s \in Sessions, DropOldest(s) /\ UNCHANGED <<history, logs, git>>
     PROVE  G
  <2>1. plan[s] # <<>> /\ \A r \in Sessions \ {s} : pc'[r] = pc[r]
    BY <1>3 DEF DropOldest, NoFault, Fault, Go, Waiting, Writing, Recording, Saving
  <2>2. \/ plan' = plan
        \/ plan' = [plan EXCEPT ![s] = Tail(@)] /\ pc'[s] = "idle"
        \/ plan' = [plan EXCEPT ![s] = <<>>] /\ pc'[s] = "idle"
    BY <1>3 DEF DropOldest, NoFault, Fault, Go, session
  <2> QED  BY <1>0, <2>1, <2>2
<1>4. ASSUME NEW s \in Sessions, Shift(s) /\ UNCHANGED <<history, logs, git>>
     PROVE  G
  <2>1. plan[s] # <<>> /\ \A r \in Sessions \ {s} : pc'[r] = pc[r]
    BY <1>4 DEF Shift, NoFault, Fault, Go, Renamed, Waiting, Writing, Recording, Saving
  <2>2. \/ plan' = plan
        \/ plan' = [plan EXCEPT ![s] = Tail(@)] /\ pc'[s] = "idle"
        \/ plan' = [plan EXCEPT ![s] = <<>>] /\ pc'[s] = "idle"
    BY <1>4 DEF Shift, NoFault, Fault, Go, Renamed, session
  <2> QED  BY <1>0, <2>1, <2>2
<1>5. ASSUME NEW s \in Sessions, PlaceCopy(s) /\ UNCHANGED <<history, logs, git>>
     PROVE  G
  <2>1. plan[s] # <<>> /\ \A r \in Sessions \ {s} : pc'[r] = pc[r]
    BY <1>5 DEF PlaceCopy, Refused, Fault, NoFault, End, LetGo, Go, Waiting, Writing,
         Recording, Saving
  <2>2. \/ plan' = plan
        \/ plan' = [plan EXCEPT ![s] = Tail(@)] /\ pc'[s] = "idle"
        \/ plan' = [plan EXCEPT ![s] = <<>>] /\ pc'[s] = "idle"
    BY <1>5 DEF PlaceCopy, Refused, Fault, NoFault, End, LetGo, Go, session
  <2> QED  BY <1>0, <2>1, <2>2
<1>6. ASSUME NEW s \in Sessions, Replace(s) /\ UNCHANGED <<history, logs, git>>
     PROVE  G
  <2>1. plan[s] # <<>> /\ \A r \in Sessions \ {s} : pc'[r] = pc[r]
    BY <1>6 DEF Replace, Refused, Fault, NoFault, End, LetGo, Go, NewContent, Waiting,
         Writing, Recording, Saving
  <2>2. \/ plan' = plan
        \/ plan' = [plan EXCEPT ![s] = Tail(@)] /\ pc'[s] = "idle"
        \/ plan' = [plan EXCEPT ![s] = <<>>] /\ pc'[s] = "idle"
    BY <1>6 DEF Replace, Refused, Fault, NoFault, End, LetGo, Go, NewContent, session
  <2> QED  BY <1>0, <2>1, <2>2
<1>7. ASSUME NEW s \in Sessions, BeginRecover(s) /\ UNCHANGED <<backups, logs, git>>
     PROVE  G
  <2>1. plan[s] # <<>> /\ \A r \in Sessions \ {s} : pc'[r] = pc[r]
    BY <1>7 DEF BeginRecover, Asked, Go, Knows, NoFault, Waiting, Writing, Recording, Saving
  <2>2. \/ plan' = plan
        \/ plan' = [plan EXCEPT ![s] = Tail(@)] /\ pc'[s] = "idle"
        \/ plan' = [plan EXCEPT ![s] = <<>>] /\ pc'[s] = "idle"
    BY <1>7 DEF BeginRecover, Asked, Go, Knows, NoFault, session
  <2> QED  BY <1>0, <2>1, <2>2
<1>8. ASSUME NEW s \in Sessions, Record(s) /\ UNCHANGED <<backups, logs, git>>
     PROVE  G
  <2>1. plan[s] # <<>> /\ \A r \in Sessions \ {s} : pc'[r] = pc[r]
    BY <1>8 DEF Record, Go, End, NoFault, Waiting, Writing, Recording, Saving
  <2>2. \/ plan' = plan
        \/ plan' = [plan EXCEPT ![s] = Tail(@)] /\ pc'[s] = "idle"
        \/ plan' = [plan EXCEPT ![s] = <<>>] /\ pc'[s] = "idle"
    BY <1>8 DEF Record, Go, End, NoFault, session
  <2> QED  BY <1>0, <2>1, <2>2
<1>9. ASSUME NEW s \in Sessions, TakeHistoryLock(s) /\ UNCHANGED <<backups, logs, git>>
     PROVE  G
  <2>1. plan[s] # <<>> /\ \A r \in Sessions \ {s} : pc'[r] = pc[r]
    BY <1>9 DEF TakeHistoryLock, Go, NoFault, Waiting, Waiting, Writing, Recording, Saving
  <2>2. \/ plan' = plan
        \/ plan' = [plan EXCEPT ![s] = Tail(@)] /\ pc'[s] = "idle"
        \/ plan' = [plan EXCEPT ![s] = <<>>] /\ pc'[s] = "idle"
    BY <1>9 DEF TakeHistoryLock, Go, NoFault, Waiting, session
  <2> QED  BY <1>0, <2>1, <2>2
<1>10. ASSUME NEW s \in Sessions, Look(s) /\ UNCHANGED <<backups, logs, git>>
     PROVE  G
  <2>1. plan[s] # <<>> /\ \A r \in Sessions \ {s} : pc'[r] = pc[r]
    BY <1>10 DEF Look, Learns, End, Release, NoFault, Fault, Go, Waiting, Writing, Recording,
         Saving
  <2>2. \/ plan' = plan
        \/ plan' = [plan EXCEPT ![s] = Tail(@)] /\ pc'[s] = "idle"
        \/ plan' = [plan EXCEPT ![s] = <<>>] /\ pc'[s] = "idle"
    BY <1>10 DEF Look, Learns, End, Release, NoFault, Fault, Go, session
  <2> QED  BY <1>0, <2>1, <2>2
<1>11. ASSUME NEW s \in Sessions, Write(s) /\ UNCHANGED <<backups, logs, git>>
     PROVE  G
  <2>1. plan[s] # <<>> /\ \A r \in Sessions \ {s} : pc'[r] = pc[r]
    BY <1>11 DEF Write, NotSaved, Fault, NoFault, End, Release, Learns, Go, Waiting, Writing,
         Recording, Saving
  <2>2. \/ plan' = plan
        \/ plan' = [plan EXCEPT ![s] = Tail(@)] /\ pc'[s] = "idle"
        \/ plan' = [plan EXCEPT ![s] = <<>>] /\ pc'[s] = "idle"
    BY <1>11 DEF Write, NotSaved, Fault, NoFault, End, Release, Learns, Go, session
  <2> QED  BY <1>0, <2>1, <2>2
<1>12. ASSUME NEW s \in Sessions, Compact(s) /\ UNCHANGED <<backups, logs, git>>
     PROVE  G
  <2>1. plan[s] # <<>> /\ \A r \in Sessions \ {s} : pc'[r] = pc[r]
    BY <1>12 DEF Compact, NoFault, Fault, End, Release, Go, Knows, Waiting, Writing,
         Recording, Saving
  <2>2. \/ plan' = plan
        \/ plan' = [plan EXCEPT ![s] = Tail(@)] /\ pc'[s] = "idle"
        \/ plan' = [plan EXCEPT ![s] = <<>>] /\ pc'[s] = "idle"
    BY <1>12 DEF Compact, NoFault, Fault, End, Release, Go, Knows, session
  <2> QED  BY <1>0, <2>1, <2>2
<1>13. ASSUME NEW s \in Sessions, Swap(s) /\ UNCHANGED <<backups, logs, git>>
     PROVE  G
  <2>1. plan[s] # <<>> /\ \A r \in Sessions \ {s} : pc'[r] = pc[r]
    BY <1>13 DEF Swap, NoFault, Fault, End, Release, Waiting, Writing, Recording, Saving
  <2>2. \/ plan' = plan
        \/ plan' = [plan EXCEPT ![s] = Tail(@)] /\ pc'[s] = "idle"
        \/ plan' = [plan EXCEPT ![s] = <<>>] /\ pc'[s] = "idle"
    BY <1>13 DEF Swap, NoFault, Fault, End, Release, session
  <2> QED  BY <1>0, <2>1, <2>2
<1>14. ASSUME NEW s \in Sessions, Inspect(s) /\ UNCHANGED <<backups, history, logs>>
     PROVE  G
  <2>1. plan[s] # <<>> /\ \A r \in Sessions \ {s} : pc'[r] = pc[r]
    BY <1>14 DEF Inspect, Asked, Quiet, NoFault, Fault, Ends, End, Go, Knows, Waiting,
         Writing, Recording, Saving
  <2>2. \/ plan' = plan
        \/ plan' = [plan EXCEPT ![s] = Tail(@)] /\ pc'[s] = "idle"
        \/ plan' = [plan EXCEPT ![s] = <<>>] /\ pc'[s] = "idle"
    BY <1>14 DEF Inspect, Asked, Quiet, NoFault, Fault, Ends, End, Go, Knows, session
  <2> QED  BY <1>0, <2>1, <2>2
<1>15. ASSUME NEW s \in Sessions, Confirm(s) /\ UNCHANGED <<backups, history, logs>>
     PROVE  G
  <2>1. plan[s] # <<>> /\ \A r \in Sessions \ {s} : pc'[r] = pc[r]
    BY <1>15 DEF Confirm, Quiet, NoFault, Go, Ends, End, Waiting, Writing, Recording, Saving
  <2>2. \/ plan' = plan
        \/ plan' = [plan EXCEPT ![s] = Tail(@)] /\ pc'[s] = "idle"
        \/ plan' = [plan EXCEPT ![s] = <<>>] /\ pc'[s] = "idle"
    BY <1>15 DEF Confirm, Quiet, NoFault, Go, Ends, End, session
  <2> QED  BY <1>0, <2>1, <2>2
<1>16. ASSUME NEW s \in Sessions, Add(s) /\ UNCHANGED <<backups, history, logs>>
     PROVE  G
  <2>1. plan[s] # <<>> /\ \A r \in Sessions \ {s} : pc'[r] = pc[r]
    BY <1>16 DEF Add, Quiet, NoFault, Fault, GivesUp, End, Go, Waiting, Writing, Recording,
         Saving
  <2>2. \/ plan' = plan
        \/ plan' = [plan EXCEPT ![s] = Tail(@)] /\ pc'[s] = "idle"
        \/ plan' = [plan EXCEPT ![s] = <<>>] /\ pc'[s] = "idle"
    BY <1>16 DEF Add, Quiet, NoFault, Fault, GivesUp, End, Go, session
  <2> QED  BY <1>0, <2>1, <2>2
<1>17. ASSUME NEW s \in Sessions, Commit(s) /\ UNCHANGED <<backups, history, logs>>
     PROVE  G
  <2>1. plan[s] # <<>> /\ \A r \in Sessions \ {s} : pc'[r] = pc[r]
    BY <1>17 DEF Commit, Quiet, NoFault, Fault, GivesUp, Go, Knows, Ends, End, Waiting,
         Writing, Recording, Saving
  <2>2. \/ plan' = plan
        \/ plan' = [plan EXCEPT ![s] = Tail(@)] /\ pc'[s] = "idle"
        \/ plan' = [plan EXCEPT ![s] = <<>>] /\ pc'[s] = "idle"
    BY <1>17 DEF Commit, Quiet, NoFault, Fault, GivesUp, Go, Knows, Ends, End, session
  <2> QED  BY <1>0, <2>1, <2>2
<1>18. ASSUME NEW s \in Sessions, InspectAgain(s) /\ UNCHANGED <<backups, history, logs>>
     PROVE  G
  <2>1. plan[s] # <<>> /\ \A r \in Sessions \ {s} : pc'[r] = pc[r]
    BY <1>18 DEF InspectAgain, Quiet, NoFault, Go, Ends, End, Waiting, Writing, Recording,
         Saving
  <2>2. \/ plan' = plan
        \/ plan' = [plan EXCEPT ![s] = Tail(@)] /\ pc'[s] = "idle"
        \/ plan' = [plan EXCEPT ![s] = <<>>] /\ pc'[s] = "idle"
    BY <1>18 DEF InspectAgain, Quiet, NoFault, Go, Ends, End, session
  <2> QED  BY <1>0, <2>1, <2>2
<1>19. ASSUME NEW s \in Sessions, Push(s) /\ UNCHANGED <<backups, history, logs>>
     PROVE  G
  <2>1. plan[s] # <<>> /\ \A r \in Sessions \ {s} : pc'[r] = pc[r]
    BY <1>19 DEF Push, Quiet, NoFault, Fault, GivesUp, End, Waiting, Writing, Recording, Saving
  <2>2. \/ plan' = plan
        \/ plan' = [plan EXCEPT ![s] = Tail(@)] /\ pc'[s] = "idle"
        \/ plan' = [plan EXCEPT ![s] = <<>>] /\ pc'[s] = "idle"
    BY <1>19 DEF Push, Quiet, NoFault, Fault, GivesUp, End, session
  <2> QED  BY <1>0, <2>1, <2>2
<1>20. ASSUME NEW s \in Sessions, OpenLogs(s) /\ UNCHANGED <<backups, git>>
     PROVE  G
  <2>1. plan[s] # <<>> /\ \A r \in Sessions \ {s} : pc'[r] = pc[r]
    BY <1>20 DEF OpenLogs, Asked, NoFault, Go, Waiting, Writing, Recording, Saving
  <2>2. \/ plan' = plan
        \/ plan' = [plan EXCEPT ![s] = Tail(@)] /\ pc'[s] = "idle"
        \/ plan' = [plan EXCEPT ![s] = <<>>] /\ pc'[s] = "idle"
    BY <1>20 DEF OpenLogs, Asked, NoFault, Go, session
  <2> QED  BY <1>0, <2>1, <2>2
<1>21. ASSUME NEW s \in Sessions, Refresh(s) /\ UNCHANGED <<backups, git>>
     PROVE  G
  <2>1. plan[s] # <<>> /\ \A r \in Sessions \ {s} : pc'[r] = pc[r]
    BY <1>21 DEF Refresh, Presses, NoFault, Waiting, Writing, Recording, Saving
  <2>2. \/ plan' = plan
        \/ plan' = [plan EXCEPT ![s] = Tail(@)] /\ pc'[s] = "idle"
        \/ plan' = [plan EXCEPT ![s] = <<>>] /\ pc'[s] = "idle"
    BY <1>21 DEF Refresh, Presses, NoFault, session
  <2> QED  BY <1>0, <2>1, <2>2
<1>22. ASSUME NEW s \in Sessions, ChooseFilter(s) /\ UNCHANGED <<backups, git>>
     PROVE  G
  <2>1. plan[s] # <<>> /\ \A r \in Sessions \ {s} : pc'[r] = pc[r]
    BY <1>22 DEF ChooseFilter, Presses, NoFault, Waiting, Writing, Recording, Saving
  <2>2. \/ plan' = plan
        \/ plan' = [plan EXCEPT ![s] = Tail(@)] /\ pc'[s] = "idle"
        \/ plan' = [plan EXCEPT ![s] = <<>>] /\ pc'[s] = "idle"
    BY <1>22 DEF ChooseFilter, Presses, NoFault, session
  <2> QED  BY <1>0, <2>1, <2>2
<1>23. ASSUME NEW s \in Sessions, PressClear(s) /\ UNCHANGED <<backups, git>>
     PROVE  G
  <2>1. plan[s] # <<>> /\ \A r \in Sessions \ {s} : pc'[r] = pc[r]
    BY <1>23 DEF PressClear, Presses, NoFault, Go, Waiting, Writing, Recording, Saving
  <2>2. \/ plan' = plan
        \/ plan' = [plan EXCEPT ![s] = Tail(@)] /\ pc'[s] = "idle"
        \/ plan' = [plan EXCEPT ![s] = <<>>] /\ pc'[s] = "idle"
    BY <1>23 DEF PressClear, Presses, NoFault, Go, session
  <2> QED  BY <1>0, <2>1, <2>2
<1>24. ASSUME NEW s \in Sessions, Clear(s) /\ UNCHANGED <<backups, git>>
     PROVE  G
  <2>1. plan[s] # <<>> /\ \A r \in Sessions \ {s} : pc'[r] = pc[r]
    BY <1>24 DEF Clear, ClearFile, NoFault, Fault, Release, Go, Waiting, Writing, Recording,
         Saving
  <2>2. \/ plan' = plan
        \/ plan' = [plan EXCEPT ![s] = Tail(@)] /\ pc'[s] = "idle"
        \/ plan' = [plan EXCEPT ![s] = <<>>] /\ pc'[s] = "idle"
    BY <1>24 DEF Clear, ClearFile, NoFault, Fault, Release, Go, session
  <2> QED  BY <1>0, <2>1, <2>2
<1>25. ASSUME NEW s \in Sessions, LeaveLogs(s) /\ UNCHANGED <<backups, git>>
     PROVE  G
  <2>1. plan[s] # <<>> /\ \A r \in Sessions \ {s} : pc'[r] = pc[r]
    BY <1>25 DEF LeaveLogs, Presses, NoFault, End, Waiting, Writing, Recording, Saving
  <2>2. \/ plan' = plan
        \/ plan' = [plan EXCEPT ![s] = Tail(@)] /\ pc'[s] = "idle"
        \/ plan' = [plan EXCEPT ![s] = <<>>] /\ pc'[s] = "idle"
    BY <1>25 DEF LeaveLogs, Presses, NoFault, End, session
  <2> QED  BY <1>0, <2>1, <2>2
<1>26. ASSUME NEW s \in Sessions, Die(s)
     PROVE  G
  <2>1. plan[s] # <<>> /\ \A r \in Sessions \ {s} : pc'[r] = pc[r]
    BY <1>26 DEF Die, Fault, LetGo, Release, Waiting, Writing, Recording, Saving
  <2>2. \/ plan' = plan
        \/ plan' = [plan EXCEPT ![s] = Tail(@)] /\ pc'[s] = "idle"
        \/ plan' = [plan EXCEPT ![s] = <<>>] /\ pc'[s] = "idle"
    BY <1>26 DEF Die, Fault, LetGo, Release, session
  <2> QED  BY <1>0, <2>1, <2>2
<1>27. ASSUME NEW t \in threads, ThreadReads(t) \/ ThreadEnds(t), UNCHANGED <<backups, git>>
     PROVE  G
  BY <1>27 DEF ThreadReads, ThreadEnds, Runs, NoFault, G, session, workspace
<1>28. ASSUME NEW t \in threads, ThreadFails(t), UNCHANGED <<backups, git>>
     PROVE  G
  BY <1>28 DEF ThreadFails, Fault, G, session, workspace
<1>29. ASSUME EditorSaves
     PROVE  G
  BY <1>29 DEF EditorSaves, Saved, NewContent, G, session, workspace
<1>30. ASSUME UserStages /\ UNCHANGED <<backups, history, logs>>
     PROVE  G
  BY <1>30 DEF UserStages, Saved, NewContent, G, session, workspace
<1> QED
  BY <1>1, <1>2, <1>3, <1>4, <1>5, <1>6, <1>7, <1>8, <1>9, <1>10, <1>11, <1>12, <1>13, <1>14,
       <1>15, <1>16, <1>17, <1>18, <1>19, <1>20, <1>21, <1>22, <1>23, <1>24, <1>25, <1>26,
       <1>27, <1>28, <1>29, <1>30 DEF Next, Act, Backup, Recorder, GitStep, LogsStep, Thread

-----------------------------------------------------------------------------

(* Only a writer of the history, or the screen that clears it, touches it.      *)
LEMMA WhoTouchesTheHistory ==
    ASSUME Next
    PROVE  \/ UNCHANGED <<hist, torn, written, seen>>
           \/ \E s \in Sessions : Look(s) \/ Write(s) \/ Swap(s) \/ Clear(s)
<1>1. ASSUME NEW s \in Sessions, Act(s)
      PROVE  UNCHANGED <<hist, torn, written, seen>> \/ Look(s) \/ Write(s) \/ Swap(s) \/ Clear(s)
  BY <1>1 DEF Act, Recorder, BeginRecover, Record, TakeHistoryLock, Compact, LogsStep, OpenLogs,
              Refresh, ChooseFilter, PressClear, LeaveLogs, Presses, history
<1>2. ASSUME NEW s \in Sessions, Die(s)  PROVE UNCHANGED <<hist, torn, written, seen>>
  BY <1>2 DEF Die
<1>3. ASSUME \/ EditorSaves
             \/ Thread
             \/ UserStages /\ UNCHANGED <<backups, history, logs>>
             \/ \E t \in threads : ThreadFails(t)
      PROVE  UNCHANGED <<hist, torn, written, seen>>
  BY <1>3 DEF EditorSaves, Thread, ThreadReads, ThreadEnds, ThreadFails, Runs, history
<1> QED  BY <1>1, <1>2, <1>3 DEF Next

(* Only git-save and the user's own git change the repository.                  *)
LEMMA WhoTouchesTheRepository ==
    ASSUME Next
    PROVE  \/ UNCHANGED git
           \/ UserStages
           \/ \E s \in Sessions : GitStep(s)
  BY DEF Next, Act, Die, EditorSaves

(* The fields of what a session has read.                                       *)
LEMMA MemoTyped ==
    ASSUME Types, NEW s \in Sessions
    PROVE  /\ memo[s] \in Memos
           /\ memo[s].id \in Named /\ memo[s].lines \in Seq(Lines) /\ memo[s].seen \in Versions
           /\ memo[s].dirty \in SUBSET Tracked /\ memo[s].committed \in BOOLEAN
           /\ memo[s].upstream \in BOOLEAN /\ memo[s].pushed = FALSE
<1>1. memo[s] \in Memos  BY DEF Types, SessionInv
<1> QED  BY <1>1 DEF Memos

(* A line that cannot be read is a line.                                        *)
LEMMA GarbageTyped == Garbage \in Lines
  BY DEF Garbage, Lines, Named

(* A record that is written is a line.                                          *)
LEMMA LineTyped ==
    ASSUME NEW id \in Named, NEW n \in Nat  PROVE Line(id, n) \in Lines
  BY DEF Line, Lines

(* Appending after a torn line spoils both; every other line stays.             *)
LEMMA ExtendedTyped ==
    ASSUME HistoryTypes, NEW line \in Lines
    PROVE  /\ Extended(line) \in Seq(Lines) /\ Extended(line) # <<>>
           /\ Extended(line)[Len(Extended(line))] = IF torn THEN Garbage ELSE line
           /\ Len(Extended(line)) = IF torn THEN Len(hist) ELSE Len(hist) + 1
           /\ \A i \in 1 .. Len(hist) : ~ (torn /\ i = Len(hist)) => Extended(line)[i] = hist[i]
<1> USE GarbageTyped
<1>1. CASE torn
  <2>1. Len(hist) \in Nat /\ Len(hist) > 0  BY <1>1 DEF HistoryTypes
  <2> DEFINE front == SubSeq(hist, 1, Len(hist) - 1)
  <2>2. front \in Seq(Lines) /\ Len(front) = Len(hist) - 1
        /\ \A i \in 1 .. Len(hist) - 1 : front[i] = hist[i]
    <3>1. \A i \in 1 .. Len(hist) - 1 : hist[i] \in Lines
      BY <2>1 DEF HistoryTypes
    <3>2. /\ front \in Seq(Lines)
          /\ Len(front) = IF 1 <= Len(hist) - 1 THEN (Len(hist) - 1) - 1 + 1 ELSE 0
          /\ \A i \in 1 .. (Len(hist) - 1) - 1 + 1 : front[i] = hist[1 + i - 1]
      BY <2>1, <3>1, SubSeqProperties
    <3> HIDE DEF front
    <3>3. Len(front) = Len(hist) - 1
      <4>1. CASE Len(hist) = 1
        <5>1. Len(front) = 0  BY <3>2, <4>1
        <5> QED  BY <5>1, <4>1
      <4>2. CASE Len(hist) > 1
        <5>1. 1 <= Len(hist) - 1  BY <2>1, <4>2
        <5>2. (Len(hist) - 1) - 1 + 1 = Len(hist) - 1  BY <2>1
        <5> QED  BY <3>2, <5>1, <5>2
      <4>3. \A n \in Nat : n > 0 => n = 1 \/ n > 1  OBVIOUS
      <4> QED  BY <4>1, <4>2, <4>3, <2>1
    <3>4. ASSUME NEW i \in 1 .. Len(hist) - 1  PROVE front[i] = hist[i]
      <4>1. i \in 1 .. (Len(hist) - 1) - 1 + 1 /\ 1 + i - 1 = i  BY <2>1
      <4> QED  BY <4>1, <3>2
    <3> QED  BY <3>2, <3>3, <3>4
  <2>3. Extended(line) = front \o <<Garbage>>  BY <1>1 DEF Extended, Front
  <2> HIDE DEF front
  <2>4. <<Garbage>> \in Seq(Lines) /\ Len(<<Garbage>>) = 1 /\ <<Garbage>>[1] = Garbage  OBVIOUS
  <2> QED  BY <2>1, <2>2, <2>3, <2>4, <1>1
<1>2. CASE ~torn
  <2>1. Extended(line) = Append(hist, line)  BY <1>2 DEF Extended
  <2> QED  BY <2>1, <1>2 DEF HistoryTypes
<1> QED  BY <1>1, <1>2

(* The history keeps its type.                                                  *)
LEMMA HistoryTypesStep ==
    ASSUME Types, Next  PROVE HistoryTypes'
<1>1. CASE UNCHANGED <<hist, torn, written, seen>>
  BY <1>1 DEF Types, HistoryTypes
<1>2. ASSUME NEW s \in Sessions, Look(s)  PROVE HistoryTypes'
  <2>1. memo[s].id \in Named  BY MemoTyped
  <2>2. UNCHANGED <<hist, torn, written>>  BY <1>2 DEF Look
  <2>3. seen' = seen \/ seen' = [seen EXCEPT ![s] = @ \cup {memo[s].id}]  BY <1>2 DEF Look, Learns
  <2>4. seen[s] \cup {memo[s].id} \in SUBSET Named  BY <2>1 DEF Types, HistoryTypes
  <2>5. seen' \in [Sessions -> SUBSET Named]  BY <2>3, <2>4 DEF Types, HistoryTypes
  <2> QED  BY <2>2, <2>5 DEF Types, HistoryTypes
<1>3. ASSUME NEW s \in Sessions, Write(s)  PROVE HistoryTypes'
  <2>1. CASE UNCHANGED <<hist, torn, written, seen>>
    BY <2>1 DEF Types, HistoryTypes
  <2> DEFINE line == Line(memo[s].id, written + 1)
  <2>2. line \in Lines /\ memo[s].id \in Named /\ written + 1 \in Nat
    <3>1. memo[s].id \in Named  BY MemoTyped
    <3>2. written + 1 \in Nat  BY DEF Types, HistoryTypes
    <3> QED  BY <3>1, <3>2, LineTyped
  <2>3. /\ Extended(line) \in Seq(Lines) /\ Extended(line) # <<>>
        /\ Extended(Garbage) \in Seq(Lines) /\ Extended(Garbage) # <<>>
    <3> HIDE DEF line
    <3> QED  BY <2>2, ExtendedTyped, GarbageTyped DEF Types
  <2>4. CASE /\ hist' \in {Extended(line), Extended(Garbage)} /\ torn' \in BOOLEAN
             /\ written' = written + 1 /\ Learns(s)
    <3>1. seen[s] \cup {memo[s].id} \in SUBSET Named  BY <2>2 DEF Types, HistoryTypes
    <3>2. seen' \in [Sessions -> SUBSET Named]  BY <2>4, <3>1 DEF Learns, Types, HistoryTypes
    <3> HIDE DEF line
    <3> QED  BY <2>2, <2>3, <2>4, <3>2 DEF HistoryTypes
  <2> QED  BY <2>1, <2>4, <1>3 DEF Write, NotSaved
<1>4. ASSUME NEW s \in Sessions, Swap(s)  PROVE HistoryTypes'
  <2>1. memo[s].lines \in Seq(Lines)  BY MemoTyped
  <2>2. UNCHANGED <<written, seen>>
        /\ ((hist' = memo[s].lines /\ torn' = FALSE) \/ UNCHANGED <<hist, torn>>)
    BY <1>4 DEF Swap
  <2>3. CASE hist' = memo[s].lines /\ torn' = FALSE
    BY <2>1, <2>2, <2>3 DEF Types, HistoryTypes
  <2>4. CASE UNCHANGED <<hist, torn>>
    BY <2>2, <2>4 DEF Types, HistoryTypes
  <2> QED  BY <2>2, <2>3, <2>4
<1>5. ASSUME NEW s \in Sessions, Clear(s)  PROVE HistoryTypes'
  <2>1. seen' \in [Sessions -> SUBSET Named]
    <3>1. {} \in SUBSET Named  OBVIOUS
    <3> QED  BY <1>5, <3>1 DEF Clear, ClearFile, Types, HistoryTypes
  <2>2. \/ hist' = <<>> /\ torn' = FALSE /\ written' = written
        \/ UNCHANGED <<hist, torn, written>>
    BY <1>5 DEF Clear, ClearFile
  <2>3. <<>> \in Seq(Lines)  OBVIOUS
  <2>4. CASE hist' = <<>> /\ torn' = FALSE /\ written' = written
    BY <2>1, <2>3, <2>4 DEF Types, HistoryTypes
  <2>5. CASE UNCHANGED <<hist, torn, written>>
    BY <2>1, <2>5 DEF Types, HistoryTypes
  <2> QED  BY <2>2, <2>4, <2>5
<1> QED  BY <1>1, <1>2, <1>3, <1>4, <1>5, WhoTouchesTheHistory

(* A report is about contents of the files.                                     *)
LEMMA SaysTyped ==
    ASSUME GitTypes, NEW s \in Sessions, NEW m, m.seen \in Versions, Says(s, m)
    PROVE  said' \in [Sessions -> [committed : Versions, pushed : Versions]]
<1>1. Nowhere \in Versions  BY DEF Nowhere, Versions, NoFile
<1> DEFINE r == [committed |-> IF m.committed THEN m.seen ELSE Nowhere,
                 pushed |-> IF m.pushed THEN m.seen ELSE Nowhere]
<1>2. r \in [committed : Versions, pushed : Versions]  BY <1>1
<1>3. said' = [said EXCEPT ![s] = r]  BY DEF Says
<1> HIDE DEF r
<1> QED  BY <1>2, <1>3 DEF GitTypes

(* Staging or committing some files gives contents of the files.                *)
LEMMA StagedTyped ==
    ASSUME Types, NEW F
    PROVE  Staged(F) \in Versions /\ Committed(F) \in Versions
  BY DEF Types, WorkspaceInv, GitTypes, Versions, Staged, Committed

(* The repository keeps its type.                                               *)
LEMMA GitTypesStep ==
    ASSUME Types, Next  PROVE GitTypes'
<1>0. \A s \in Sessions : /\ memo[s].seen \in Versions /\ NoMemo.seen \in Versions
                          /\ [memo[s] EXCEPT !.pushed = TRUE].seen \in Versions
  BY NoMemoTyped DEF Types, SessionInv, Memos
<1>1. CASE UNCHANGED git
  BY <1>1 DEF Types, GitTypes, git
<1>2. CASE UserStages
  BY <1>2, WorkspaceStep DEF UserStages, Types, GitTypes, Saved, NewContent, WorkspaceInv,
       Versions, Files
<1> DEFINE Saying == \E s \in Sessions : \E m : m.seen \in Versions /\ Says(s, m)
<1>3. ASSUME UNCHANGED said \/ Saying
      PROVE  said' \in [Sessions -> [committed : Versions, pushed : Versions]]
  BY <1>3, SaysTyped DEF Types, GitTypes
<1>4. ASSUME NEW s \in Sessions, GitStep(s)
      PROVE  UNCHANGED said \/ Saying
  BY <1>4, <1>0 DEF GitStep, Inspect, Confirm, Add, Commit, InspectAgain, Push, Ends, GivesUp,
       git
<1>5. ASSUME NEW s \in Sessions, GitStep(s)
      PROVE  index' \in Versions /\ head' \in Versions /\ remote' \in Versions /\ upstream' \in BOOLEAN
  BY <1>5, StagedTyped DEF GitStep, Inspect, Confirm, Add, Commit, InspectAgain, Push, Ends,
       GivesUp,
                           git, Types, GitTypes
<1>6. ASSUME NEW s \in Sessions, GitStep(s)  PROVE GitTypes'
  <2> HIDE DEF Saying
  <2> QED  BY <1>3, <1>4, <1>5, <1>6 DEF GitTypes
<1> QED  BY <1>1, <1>2, <1>6, WhoTouchesTheRepository

(* Every variable keeps its type.                                               *)
LEMMA TypesStep ==
    ASSUME Types, Next  PROVE Types'
<1>1. WorkspaceInv'  BY WorkspaceStep DEF Types
<1>2. SessionInv'  BY MemoStep, PhaseStep, PlanStep DEF SessionInv
<1>3. HistoryTypes'  BY HistoryTypesStep
<1>4. GitTypes'  BY GitTypesStep
<1> QED  BY <1>1, <1>2, <1>3, <1>4 DEF Types

(* Every variable starts with its type.                                         *)
LEMMA TypesInit ==
    ASSUME Init  PROVE Types
<1> USE DEF Init
<1>1. WorkspaceInv  BY WorkspaceAssumption DEF InitWorkspace, WorkspaceInv, Versions, NoFile
<1>2. SessionInv
  BY NoMemoTyped, WorkspaceAssumption DEF InitWorkspace, SessionInv, Phases
<1>3. HistoryTypes
  <2> DEFINE old == [i \in DOMAIN OldHistory |-> Line(OldHistory[i], i)]
  <2>1. OldHistory \in Seq(Identities) /\ Len(OldHistory) \in Nat
        /\ DOMAIN OldHistory = 1 .. Len(OldHistory)
    BY HistoryAssumption
  <2>2. \A i \in 1 .. Len(OldHistory) : Line(OldHistory[i], i) \in Lines
    BY <2>1, LineTyped DEF Named
  <2>3. old \in Seq(Lines)  BY <2>1, <2>2
  <2> HIDE DEF old
  <2>4. hist = old  BY DEF InitHistory, old
  <2> QED  BY <2>1, <2>3, <2>4 DEF InitHistory, HistoryTypes
<1>4. GitTypes
  BY <1>1, WorkspaceAssumption DEF InitGit, GitTypes, WorkspaceInv, InitWorkspace, Silent,
       Nowhere, Versions, NoFile
<1> QED  BY <1>1, <1>2, <1>3, <1>4 DEF Types

(* Who holds the two locks.                                                     *)
LockInv ==
    /\ lock \in Sessions \cup {Free} /\ hlock \in Sessions \cup {Free}
    /\ \A s \in Sessions : lock = s <=> pc[s] \in Writing
    /\ \A s \in Sessions : hlock = s <=> pc[s] \in Recording

(* A lock is held by the session at its locked steps, and by no other: whoever ends, *)
(* fails or dies there lets it go.                                              *)
LEMMA LockStep ==
    ASSUME Types, LockInv, Next
    PROVE  LockInv'
<1> USE WorkspaceAssumption DEF Types, SessionInv, LockInv, Phases, Writing, Waiting, Recording, Saving
<1>1. ASSUME NEW s \in Sessions, BeginCollect(s) /\ UNCHANGED <<history, logs, git>>
     PROVE  LockInv'
  BY <1>1 DEF BeginCollect, Asked, Go, End, Knows, NoFault, session, workspace, history
<1>2. ASSUME NEW s \in Sessions, MakeCopy(s) /\ UNCHANGED <<history, logs, git>>
     PROVE  LockInv'
  <2>1. CASE Refused(s)
    BY <1>2, <2>1 DEF MakeCopy, Refused, Fault, NoFault, End, LetGo, Go, session, workspace,
         history
  <2>2. CASE ~ Refused(s)
    <3>1. PICK q \in {"replace", "place", "drop"} : pc' = [pc EXCEPT ![s] = q]
      BY <1>2, <2>2 DEF MakeCopy, Go
    <3>2. pc[s] = "copy" /\ UNCHANGED <<lock, hlock>>
      BY <1>2, <2>2 DEF MakeCopy, history
    <3> QED  BY <3>1, <3>2
  <2> QED  BY <2>1, <2>2
<1>3. ASSUME NEW s \in Sessions, DropOldest(s) /\ UNCHANGED <<history, logs, git>>
     PROVE  LockInv'
  BY <1>3 DEF DropOldest, NoFault, Fault, Go, session, workspace, history
<1>4. ASSUME NEW s \in Sessions, Shift(s) /\ UNCHANGED <<history, logs, git>>
     PROVE  LockInv'
  BY <1>4 DEF Shift, NoFault, Fault, Go, Renamed, session, workspace, history
<1>5. ASSUME NEW s \in Sessions, PlaceCopy(s) /\ UNCHANGED <<history, logs, git>>
     PROVE  LockInv'
  BY <1>5 DEF PlaceCopy, Refused, Fault, NoFault, End, LetGo, Go, session, workspace, history
<1>6. ASSUME NEW s \in Sessions, Replace(s) /\ UNCHANGED <<history, logs, git>>
     PROVE  LockInv'
  BY <1>6 DEF Replace, Refused, Fault, NoFault, End, LetGo, Go, NewContent, session,
       workspace, history
<1>7. ASSUME NEW s \in Sessions, BeginRecover(s) /\ UNCHANGED <<backups, logs, git>>
     PROVE  LockInv'
  BY <1>7 DEF BeginRecover, Asked, Go, Knows, NoFault, session, workspace, history
<1>8. ASSUME NEW s \in Sessions, Record(s) /\ UNCHANGED <<backups, logs, git>>
     PROVE  LockInv'
  BY <1>8 DEF Record, Go, End, NoFault, session, workspace, history
<1>9. ASSUME NEW s \in Sessions, TakeHistoryLock(s) /\ UNCHANGED <<backups, logs, git>>
     PROVE  LockInv'
  BY <1>9 DEF TakeHistoryLock, Go, NoFault, Waiting, session, workspace, history
<1>10. ASSUME NEW s \in Sessions, Look(s) /\ UNCHANGED <<backups, logs, git>>
     PROVE  LockInv'
  BY <1>10 DEF Look, Learns, End, Release, NoFault, Fault, Go, session, workspace, history
<1>11. ASSUME NEW s \in Sessions, Write(s) /\ UNCHANGED <<backups, logs, git>>
     PROVE  LockInv'
  BY <1>11 DEF Write, NotSaved, Fault, NoFault, End, Release, Learns, Go, session, workspace,
       history
<1>12. ASSUME NEW s \in Sessions, Compact(s) /\ UNCHANGED <<backups, logs, git>>
     PROVE  LockInv'
  BY <1>12 DEF Compact, NoFault, Fault, End, Release, Go, Knows, session, workspace, history
<1>13. ASSUME NEW s \in Sessions, Swap(s) /\ UNCHANGED <<backups, logs, git>>
     PROVE  LockInv'
  BY <1>13 DEF Swap, NoFault, Fault, End, Release, session, workspace, history
<1>14. ASSUME NEW s \in Sessions, Inspect(s) /\ UNCHANGED <<backups, history, logs>>
     PROVE  LockInv'
  BY <1>14 DEF Inspect, Asked, Quiet, NoFault, Fault, Ends, End, Go, Knows, session,
       workspace, history
<1>15. ASSUME NEW s \in Sessions, Confirm(s) /\ UNCHANGED <<backups, history, logs>>
     PROVE  LockInv'
  BY <1>15 DEF Confirm, Quiet, NoFault, Go, Ends, End, session, workspace, history
<1>16. ASSUME NEW s \in Sessions, Add(s) /\ UNCHANGED <<backups, history, logs>>
     PROVE  LockInv'
  BY <1>16 DEF Add, Quiet, NoFault, Fault, GivesUp, End, Go, session, workspace, history
<1>17. ASSUME NEW s \in Sessions, Commit(s) /\ UNCHANGED <<backups, history, logs>>
     PROVE  LockInv'
  BY <1>17 DEF Commit, Quiet, NoFault, Fault, GivesUp, Go, Knows, Ends, End, session,
       workspace, history
<1>18. ASSUME NEW s \in Sessions, InspectAgain(s) /\ UNCHANGED <<backups, history, logs>>
     PROVE  LockInv'
  BY <1>18 DEF InspectAgain, Quiet, NoFault, Go, Ends, End, session, workspace, history
<1>19. ASSUME NEW s \in Sessions, Push(s) /\ UNCHANGED <<backups, history, logs>>
     PROVE  LockInv'
  BY <1>19 DEF Push, Quiet, NoFault, Fault, GivesUp, End, session, workspace, history
<1>20. ASSUME NEW s \in Sessions, OpenLogs(s) /\ UNCHANGED <<backups, git>>
     PROVE  LockInv'
  BY <1>20 DEF OpenLogs, Asked, NoFault, Go, session, workspace, history
<1>21. ASSUME NEW s \in Sessions, Refresh(s) /\ UNCHANGED <<backups, git>>
     PROVE  LockInv'
  BY <1>21 DEF Refresh, Presses, NoFault, session, workspace, history
<1>22. ASSUME NEW s \in Sessions, ChooseFilter(s) /\ UNCHANGED <<backups, git>>
     PROVE  LockInv'
  BY <1>22 DEF ChooseFilter, Presses, NoFault, session, workspace, history
<1>23. ASSUME NEW s \in Sessions, PressClear(s) /\ UNCHANGED <<backups, git>>
     PROVE  LockInv'
  BY <1>23 DEF PressClear, Presses, NoFault, Go, session, workspace, history
<1>24. ASSUME NEW s \in Sessions, Clear(s) /\ UNCHANGED <<backups, git>>
     PROVE  LockInv'
  BY <1>24 DEF Clear, ClearFile, NoFault, Fault, Release, Go, session, workspace, history
<1>25. ASSUME NEW s \in Sessions, LeaveLogs(s) /\ UNCHANGED <<backups, git>>
     PROVE  LockInv'
  BY <1>25 DEF LeaveLogs, Presses, NoFault, End, session, workspace, history
<1>26. ASSUME NEW s \in Sessions, Die(s)
     PROVE  LockInv'
  BY <1>26 DEF Die, Fault, LetGo, Release, session, workspace, history
<1>27. ASSUME NEW t \in threads, ThreadReads(t) \/ ThreadEnds(t), UNCHANGED <<backups, git>>
     PROVE  LockInv'
  BY <1>27 DEF ThreadReads, ThreadEnds, Runs, NoFault, session, workspace, history
<1>28. ASSUME NEW t \in threads, ThreadFails(t), UNCHANGED <<backups, git>>
     PROVE  LockInv'
  BY <1>28 DEF ThreadFails, Fault, session, workspace, history
<1>29. ASSUME EditorSaves
     PROVE  LockInv'
  BY <1>29 DEF EditorSaves, Saved, NewContent, session, workspace, history
<1>30. ASSUME UserStages /\ UNCHANGED <<backups, history, logs>>
     PROVE  LockInv'
  BY <1>30 DEF UserStages, Saved, NewContent, session, workspace, history
<1> QED
  BY <1>1, <1>2, <1>3, <1>4, <1>5, <1>6, <1>7, <1>8, <1>9, <1>10, <1>11, <1>12, <1>13, <1>14,
       <1>15, <1>16, <1>17, <1>18, <1>19, <1>20, <1>21, <1>22, <1>23, <1>24, <1>25, <1>26,
       <1>27, <1>28, <1>29, <1>30 DEF Next, Act, Backup, Recorder, GitStep, LogsStep, Thread

(* No lock is held at the start.                                                *)
LEMMA LockInit ==
    ASSUME Init  PROVE LockInv
  BY WorkspaceAssumption DEF Init, InitWorkspace, InitHistory, LockInv, Writing, Recording

-----------------------------------------------------------------------------
(* git-save                                                                  *)

(* Every content went from the file to the index, the branch and the remote.    *)
GitOrder == \A f \in Files : remote[f] <= head[f] /\ head[f] <= index[f] /\ index[f] <= work[f]

(* What the session saw of the tracked files is committed.                      *)
AllSaved(m) == \A f \in Tracked : m.seen[f] <= head[f]

(* What each session knows of the files and the repository.                     *)
SaveInv ==
    \A s \in Sessions :
       /\ \A f \in Files : memo[s].seen[f] <= work[f]
       /\ \A f \in Tracked \ memo[s].dirty : memo[s].seen[f] <= head[f]
       /\ memo[s].committed \/ pc[s] \in {"inspect_again", "push"} => AllSaved(memo[s])

(* A write gives a file a newer content, never an older one.                    *)
LEMMA WorkGrows ==
    ASSUME Types, Next
    PROVE  \A f \in Files : work[f] \in Nat /\ work'[f] \in Nat /\ work[f] <= work'[f]
<1>1. work \in Versions /\ work' \in Versions  BY WorkspaceStep DEF Types, WorkspaceInv
<1>2. ASSUME NEW g \in Files, work' = [work EXCEPT ![g] = clock + 1], NEW f \in Files
      PROVE  work[f] <= work'[f]
  BY <1>1, <1>2 DEF Types, WorkspaceInv, Versions
<1> QED  BY <1>1, <1>2, EveryStepMoves DEF Moved, Versions

(* A step that is not of git-save leaves what a session knows of the files, or    *)
(* ends its command.                                                            *)
Knowing(s) == \/ /\ memo'[s].seen = memo[s].seen /\ memo'[s].dirty = memo[s].dirty
                 /\ memo'[s].committed = memo[s].committed
                 /\ pc'[s] \in {"inspect_again", "push"} => pc'[s] = pc[s]
              \/ /\ memo'[s].seen = Nowhere /\ memo'[s].committed = FALSE
                 /\ pc'[s] \notin {"inspect_again", "push"}

(* Only git-save changes what a session knows of the repository.                *)
LEMMA OthersKnow ==
    ASSUME Types, Next
    PROVE  \/ \E s \in Sessions : GitStep(s) /\ UNCHANGED <<backups, history, logs>>
           \/ UNCHANGED git /\ \A r \in Sessions : Knowing(r)
           \/ UserStages /\ \A r \in Sessions : Knowing(r)
<1> DEFINE G == \/ \E s \in Sessions : GitStep(s) /\ UNCHANGED <<backups, history, logs>>
                \/ UNCHANGED git /\ \A r \in Sessions : Knowing(r)
                \/ UserStages /\ \A r \in Sessions : Knowing(r)
<1> SUFFICES G  OBVIOUS
<1>0. NoMemo.seen = Nowhere /\ NoMemo.committed = FALSE  BY DEF NoMemo, Nowhere
<1>1. ASSUME NEW s \in Sessions, BeginCollect(s) /\ UNCHANGED <<history, logs, git>>
     PROVE  G
  <2>1. UNCHANGED git  BY <1>1 DEF BeginCollect
  <2>2. CASE End(s)
    BY <1>1, <1>0, <2>1, <2>2 DEF BeginCollect, Asked, Go, End, Knows, NoFault, Knowing,
         Types, SessionInv, Phases, Writing, Waiting, Recording, Saving
  <2>3. CASE Go(s, "copy") /\ Knows(s, [NoMemo EXCEPT !.id = Identity("pull", work[Words], "completed")])
    <3> DEFINE m == [NoMemo EXCEPT !.id = Identity("pull", work[Words], "completed")]
    <3>1. m.seen = Nowhere /\ m.committed = FALSE
      BY DEF NoMemo, Nowhere
    <3>2. memo' = [memo EXCEPT ![s] = m] /\ pc' = [pc EXCEPT ![s] = "copy"]
      BY <2>3 DEF Go, Knows
    <3> HIDE DEF m
    <3> QED  BY <2>1, <3>1, <3>2 DEF Knowing, Types, SessionInv, Phases, Writing, Waiting, Recording, Saving
  <2> QED  BY <1>1, <2>2, <2>3 DEF BeginCollect
<1>2. ASSUME NEW s \in Sessions, MakeCopy(s) /\ UNCHANGED <<history, logs, git>>
     PROVE  G
  <2>1. UNCHANGED git  BY <1>2 DEF MakeCopy
  <2>2. CASE Refused(s)
    BY <1>2, <1>0, <2>1, <2>2 DEF MakeCopy, Refused, Fault, NoFault, End, LetGo, Go, Knowing,
         Types, SessionInv, Phases, Writing, Waiting, Recording, Saving
  <2>3. CASE ~ Refused(s)
    <3>1. PICK q \in {"replace", "place", "drop"} : pc' = [pc EXCEPT ![s] = q]
      BY <1>2, <2>3 DEF MakeCopy, Go
    <3>2. memo' = memo
      BY <1>2, <2>3 DEF MakeCopy
    <3> QED  BY <2>1, <3>1, <3>2 DEF Knowing, Types, SessionInv, Phases, Writing, Waiting, Recording, Saving
  <2> QED  BY <2>2, <2>3
<1>3. ASSUME NEW s \in Sessions, DropOldest(s) /\ UNCHANGED <<history, logs, git>>
     PROVE  G
  <2>1. UNCHANGED git  BY <1>3 DEF DropOldest
  <2>2. \A r \in Sessions : Knowing(r)
    BY <1>3, <1>0 DEF DropOldest, NoFault, Fault, Go, Knowing, NoMemo, Types, SessionInv,
         Memos, Identity, Phases, Writing, Waiting, Recording, Saving, Nowhere, session
  <2> QED  BY <2>1, <2>2
<1>4. ASSUME NEW s \in Sessions, Shift(s) /\ UNCHANGED <<history, logs, git>>
     PROVE  G
  <2>1. UNCHANGED git  BY <1>4 DEF Shift
  <2>2. \A r \in Sessions : Knowing(r)
    BY <1>4, <1>0 DEF Shift, NoFault, Fault, Go, Renamed, Knowing, NoMemo, Types, SessionInv,
         Memos, Identity, Phases, Writing, Waiting, Recording, Saving, Nowhere, session
  <2> QED  BY <2>1, <2>2
<1>5. ASSUME NEW s \in Sessions, PlaceCopy(s) /\ UNCHANGED <<history, logs, git>>
     PROVE  G
  <2>1. UNCHANGED git  BY <1>5 DEF PlaceCopy
  <2>2. \A r \in Sessions : Knowing(r)
    BY <1>5, <1>0 DEF PlaceCopy, Refused, Fault, NoFault, End, LetGo, Go, Knowing, NoMemo,
         Types, SessionInv, Memos, Identity, Phases, Writing, Waiting, Recording, Saving,
         Nowhere, session
  <2> QED  BY <2>1, <2>2
<1>6. ASSUME NEW s \in Sessions, Replace(s) /\ UNCHANGED <<history, logs, git>>
     PROVE  G
  <2>1. UNCHANGED git  BY <1>6 DEF Replace
  <2>2. \A r \in Sessions : Knowing(r)
    BY <1>6, <1>0 DEF Replace, Refused, Fault, NoFault, End, LetGo, Go, NewContent, Knowing,
         NoMemo, Types, SessionInv, Memos, Identity, Phases, Writing, Waiting, Recording,
         Saving, Nowhere, session
  <2> QED  BY <2>1, <2>2
<1>7. ASSUME NEW s \in Sessions, BeginRecover(s) /\ UNCHANGED <<backups, logs, git>>
     PROVE  G
  <2>1. UNCHANGED git  BY <1>7 DEF BeginRecover
  <2>2. PICK how \in Recoveries :
          /\ memo' = [memo EXCEPT ![s] =
                        [NoMemo EXCEPT !.id = Identity("recover", 0, Reported[how])]]
          /\ pc' = [pc EXCEPT ![s] = "record"]
    BY <1>7 DEF BeginRecover, Go, Knows
  <2> DEFINE m == [NoMemo EXCEPT !.id = Identity("recover", 0, Reported[how])]
  <2>3. m.seen = Nowhere /\ m.committed = FALSE
    BY DEF NoMemo, Nowhere
  <2>4. memo' = [memo EXCEPT ![s] = m]
    BY <2>2
  <2> HIDE DEF m
  <2>5. \A r \in Sessions : Knowing(r)
    BY <2>1, <2>2, <2>3, <2>4 DEF Knowing, Types, SessionInv, Phases, Writing, Waiting, Recording, Saving
  <2> QED  BY <2>1, <2>5
<1>8. ASSUME NEW s \in Sessions, Record(s) /\ UNCHANGED <<backups, logs, git>>
     PROVE  G
  <2>1. UNCHANGED git  BY <1>8 DEF Record
  <2>2. \A r \in Sessions : Knowing(r)
    BY <1>8, <1>0 DEF Record, Go, End, NoFault, Knowing, NoMemo, Types, SessionInv, Memos,
         Identity, Phases, Writing, Waiting, Recording, Saving, Nowhere, session
  <2> QED  BY <2>1, <2>2
<1>9. ASSUME NEW s \in Sessions, TakeHistoryLock(s) /\ UNCHANGED <<backups, logs, git>>
     PROVE  G
  <2>1. UNCHANGED git  BY <1>9 DEF TakeHistoryLock
  <2>2. \A r \in Sessions : Knowing(r)
    BY <1>9, <1>0 DEF TakeHistoryLock, Go, NoFault, Waiting, Knowing, NoMemo, Types,
         SessionInv, Memos, Identity, Phases, Writing, Waiting, Recording, Saving, Nowhere,
         session
  <2> QED  BY <2>1, <2>2
<1>10. ASSUME NEW s \in Sessions, Look(s) /\ UNCHANGED <<backups, logs, git>>
     PROVE  G
  <2>1. UNCHANGED git  BY <1>10 DEF Look
  <2>2. \A r \in Sessions : Knowing(r)
    BY <1>10, <1>0 DEF Look, Learns, End, Release, NoFault, Fault, Go, Knowing, NoMemo, Types,
         SessionInv, Memos, Identity, Phases, Writing, Waiting, Recording, Saving, Nowhere,
         session
  <2> QED  BY <2>1, <2>2
<1>11. ASSUME NEW s \in Sessions, Write(s) /\ UNCHANGED <<backups, logs, git>>
     PROVE  G
  <2>1. UNCHANGED git  BY <1>11 DEF Write
  <2>2. \A r \in Sessions : Knowing(r)
    BY <1>11, <1>0 DEF Write, NotSaved, Fault, NoFault, End, Release, Learns, Go, Knowing,
         NoMemo, Types, SessionInv, Memos, Identity, Phases, Writing, Waiting, Recording,
         Saving, Nowhere, session
  <2> QED  BY <2>1, <2>2
<1>12. ASSUME NEW s \in Sessions, Compact(s) /\ UNCHANGED <<backups, logs, git>>
     PROVE  G
  <2>1. UNCHANGED git  BY <1>12 DEF Compact
  <2>2. CASE End(s)
    BY <1>12, <1>0, <2>1, <2>2 DEF Compact, NoFault, Fault, End, Release, Go, Knows, Knowing,
         Types, SessionInv, Phases, Writing, Waiting, Recording, Saving
  <2>3. CASE Go(s, "swap") /\ Knows(s, [memo[s] EXCEPT !.lines = Newest(Parsed(hist), MaxRecords)])
    <3> DEFINE m == [memo[s] EXCEPT !.lines = Newest(Parsed(hist), MaxRecords)]
    <3>1. m.seen = memo[s].seen /\ m.dirty = memo[s].dirty /\ m.committed = memo[s].committed
      BY DEF Types, SessionInv, Memos
    <3>2. memo' = [memo EXCEPT ![s] = m] /\ pc' = [pc EXCEPT ![s] = "swap"]
      BY <2>3 DEF Go, Knows
    <3> HIDE DEF m
    <3> QED  BY <2>1, <3>1, <3>2 DEF Knowing, Types, SessionInv, Phases, Writing, Waiting, Recording, Saving
  <2> QED  BY <1>12, <2>2, <2>3 DEF Compact
<1>13. ASSUME NEW s \in Sessions, Swap(s) /\ UNCHANGED <<backups, logs, git>>
     PROVE  G
  <2>1. UNCHANGED git  BY <1>13 DEF Swap
  <2>2. \A r \in Sessions : Knowing(r)
    BY <1>13, <1>0 DEF Swap, NoFault, Fault, End, Release, Knowing, NoMemo, Types, SessionInv,
         Memos, Identity, Phases, Writing, Waiting, Recording, Saving, Nowhere, session
  <2> QED  BY <2>1, <2>2
<1>14. ASSUME NEW s \in Sessions, Inspect(s) /\ UNCHANGED <<backups, history, logs>>
     PROVE  G
  BY <1>14 DEF GitStep
<1>15. ASSUME NEW s \in Sessions, Confirm(s) /\ UNCHANGED <<backups, history, logs>>
     PROVE  G
  BY <1>15 DEF GitStep
<1>16. ASSUME NEW s \in Sessions, Add(s) /\ UNCHANGED <<backups, history, logs>>
     PROVE  G
  BY <1>16 DEF GitStep
<1>17. ASSUME NEW s \in Sessions, Commit(s) /\ UNCHANGED <<backups, history, logs>>
     PROVE  G
  BY <1>17 DEF GitStep
<1>18. ASSUME NEW s \in Sessions, InspectAgain(s) /\ UNCHANGED <<backups, history, logs>>
     PROVE  G
  BY <1>18 DEF GitStep
<1>19. ASSUME NEW s \in Sessions, Push(s) /\ UNCHANGED <<backups, history, logs>>
     PROVE  G
  BY <1>19 DEF GitStep
<1>20. ASSUME NEW s \in Sessions, OpenLogs(s) /\ UNCHANGED <<backups, git>>
     PROVE  G
  <2>1. UNCHANGED git  BY <1>20 DEF OpenLogs
  <2>2. \A r \in Sessions : Knowing(r)
    BY <1>20, <1>0 DEF OpenLogs, Asked, NoFault, Go, Knowing, NoMemo, Types, SessionInv,
         Memos, Identity, Phases, Writing, Waiting, Recording, Saving, Nowhere, session
  <2> QED  BY <2>1, <2>2
<1>21. ASSUME NEW s \in Sessions, Refresh(s) /\ UNCHANGED <<backups, git>>
     PROVE  G
  <2>1. UNCHANGED git  BY <1>21 DEF Refresh
  <2>2. \A r \in Sessions : Knowing(r)
    BY <1>21, <1>0 DEF Refresh, Presses, NoFault, Knowing, NoMemo, Types, SessionInv, Memos,
         Identity, Phases, Writing, Waiting, Recording, Saving, Nowhere, session
  <2> QED  BY <2>1, <2>2
<1>22. ASSUME NEW s \in Sessions, ChooseFilter(s) /\ UNCHANGED <<backups, git>>
     PROVE  G
  <2>1. UNCHANGED git  BY <1>22 DEF ChooseFilter
  <2>2. \A r \in Sessions : Knowing(r)
    BY <1>22, <1>0 DEF ChooseFilter, Presses, NoFault, Knowing, NoMemo, Types, SessionInv,
         Memos, Identity, Phases, Writing, Waiting, Recording, Saving, Nowhere, session
  <2> QED  BY <2>1, <2>2
<1>23. ASSUME NEW s \in Sessions, PressClear(s) /\ UNCHANGED <<backups, git>>
     PROVE  G
  <2>1. UNCHANGED git  BY <1>23 DEF PressClear
  <2>2. \A r \in Sessions : Knowing(r)
    BY <1>23, <1>0 DEF PressClear, Presses, NoFault, Go, Knowing, NoMemo, Types, SessionInv,
         Memos, Identity, Phases, Writing, Waiting, Recording, Saving, Nowhere, session
  <2> QED  BY <2>1, <2>2
<1>24. ASSUME NEW s \in Sessions, Clear(s) /\ UNCHANGED <<backups, git>>
     PROVE  G
  <2>1. UNCHANGED git  BY <1>24 DEF Clear
  <2>2. \A r \in Sessions : Knowing(r)
    BY <1>24, <1>0 DEF Clear, ClearFile, NoFault, Fault, Release, Go, Knowing, NoMemo, Types,
         SessionInv, Memos, Identity, Phases, Writing, Waiting, Recording, Saving, Nowhere,
         session
  <2> QED  BY <2>1, <2>2
<1>25. ASSUME NEW s \in Sessions, LeaveLogs(s) /\ UNCHANGED <<backups, git>>
     PROVE  G
  <2>1. UNCHANGED git  BY <1>25 DEF LeaveLogs
  <2>2. \A r \in Sessions : Knowing(r)
    BY <1>25, <1>0 DEF LeaveLogs, Presses, NoFault, End, Knowing, NoMemo, Types, SessionInv,
         Memos, Identity, Phases, Writing, Waiting, Recording, Saving, Nowhere, session
  <2> QED  BY <2>1, <2>2
<1>26. ASSUME NEW s \in Sessions, Die(s)
     PROVE  G
  <2>1. UNCHANGED git  BY <1>26 DEF Die
  <2>2. \A r \in Sessions : Knowing(r)
    BY <1>26, <1>0 DEF Die, Fault, LetGo, Release, Knowing, NoMemo, Types, SessionInv, Memos,
         Identity, Phases, Writing, Waiting, Recording, Saving, Nowhere, session
  <2> QED  BY <2>1, <2>2
<1>27. ASSUME NEW t \in threads, ThreadReads(t) \/ ThreadEnds(t), UNCHANGED <<backups, git>>
     PROVE  G
  BY <1>27 DEF ThreadReads, ThreadEnds, Runs, NoFault, Knowing, session, backups
<1>28. ASSUME NEW t \in threads, ThreadFails(t), UNCHANGED <<backups, git>>
     PROVE  G
  BY <1>28 DEF ThreadFails, Fault, Knowing, session, backups
<1>29. ASSUME EditorSaves
     PROVE  G
  BY <1>29 DEF EditorSaves, Saved, NewContent, Knowing, session, backups
<1>30. ASSUME UserStages /\ UNCHANGED <<backups, history, logs>>
     PROVE  G
  BY <1>30 DEF UserStages, Saved, NewContent, Knowing, session
<1> QED
  BY <1>1, <1>2, <1>3, <1>4, <1>5, <1>6, <1>7, <1>8, <1>9, <1>10, <1>11, <1>12, <1>13, <1>14,
       <1>15, <1>16, <1>17, <1>18, <1>19, <1>20, <1>21, <1>22, <1>23, <1>24, <1>25, <1>26,
       <1>27, <1>28, <1>29, <1>30 DEF Next, Act, Backup, Recorder, GitStep, LogsStep, Thread

(* git-save stages, commits or pushes what is there, and writes no file.        *)
LEMMA GitMoves ==
    ASSUME NEW s \in Sessions, GitStep(s)
    PROVE  /\ UNCHANGED work
           /\ \/ UNCHANGED <<index, head, remote>>
              \/ \E F : index' = Staged(F) /\ UNCHANGED <<head, remote>>
              \/ \E F : index' = Staged(F) /\ head' = Committed(F) /\ UNCHANGED remote
              \/ remote' = head /\ UNCHANGED <<index, head>>
<1> DEFINE G == \/ UNCHANGED <<index, head, remote>>
                \/ \E F : index' = Staged(F) /\ UNCHANGED <<head, remote>>
                \/ \E F : index' = Staged(F) /\ head' = Committed(F) /\ UNCHANGED remote
                \/ remote' = head /\ UNCHANGED <<index, head>>
<1>0. UNCHANGED work
  BY DEF GitStep, Inspect, Confirm, Add, Commit, InspectAgain, Push, Quiet, workspace
<1>1. ASSUME Inspect(s) \/ Confirm(s) \/ InspectAgain(s)  PROVE G
  BY <1>1 DEF Inspect, Confirm, InspectAgain, Ends, git
<1>2. ASSUME Add(s)  PROVE G
  BY <1>2 DEF Add
<1>3. ASSUME Commit(s)  PROVE G
  BY <1>3 DEF Commit, Ends
<1>4. ASSUME Push(s)  PROVE G
  BY <1>4 DEF Push
<1>5. G  BY <1>1, <1>2, <1>3, <1>4 DEF GitStep
<1> QED  BY <1>0, <1>5

(* What is pushed was committed, what is committed was staged, what is staged was *)
(* written.                                                                     *)
LEMMA GitOrderStep ==
    ASSUME Types, GitOrder, Next
    PROVE  /\ GitOrder'
           /\ \A f \in Files : /\ head[f] \in Nat /\ head'[f] \in Nat /\ head[f] <= head'[f]
                               /\ remote[f] \in Nat /\ remote'[f] \in Nat /\ remote[f] <= remote'[f]
<1>0. \A f \in Files : /\ head[f] \in Nat /\ head'[f] \in Nat /\ remote[f] \in Nat /\ remote'[f] \in Nat
                       /\ index[f] \in Nat /\ index'[f] \in Nat
                       /\ work[f] \in Nat /\ work'[f] \in Nat /\ work[f] <= work'[f]
  BY WorkGrows, GitTypesStep DEF Types, GitTypes, Versions
<1> DEFINE G == \A f \in Files : /\ remote'[f] <= head'[f] /\ head'[f] <= index'[f] /\ index'[f] <= work'[f]
                                 /\ head[f] <= head'[f] /\ remote[f] <= remote'[f]
<1>1. ASSUME UNCHANGED git  PROVE G
  BY <1>0, <1>1 DEF GitOrder, git
<1>2. ASSUME UserStages  PROVE G
  BY <1>0, <1>2 DEF GitOrder, UserStages, Saved, Types, GitTypes, Versions, Files
<1>3. ASSUME NEW s \in Sessions, GitStep(s)  PROVE G
  <2>1. CASE UNCHANGED <<index, head, remote>>
    BY <1>0, <2>1 DEF GitOrder
  <2>2. ASSUME NEW F, index' = Staged(F), UNCHANGED <<head, remote>>  PROVE G
    BY <1>0, <1>3, <2>2, GitMoves DEF GitOrder, Staged
  <2>3. ASSUME NEW F, index' = Staged(F), head' = Committed(F), UNCHANGED remote  PROVE G
    BY <1>0, <1>3, <2>3, GitMoves DEF GitOrder, Staged, Committed
  <2>4. CASE remote' = head /\ UNCHANGED <<index, head>>
    BY <1>0, <1>3, <2>4, GitMoves DEF GitOrder
  <2> HIDE DEF G
  <2> QED  BY <2>1, <2>2, <2>3, <2>4, <1>3, GitMoves
<1>4. G
  <2> HIDE DEF G
  <2> QED  BY <1>1, <1>2, <1>3, WhoTouchesTheRepository
<1> QED  BY <1>0, <1>4 DEF GitOrder

(* SaveInv for one session.                                                     *)
SaveOf(s) ==
    /\ \A f \in Files : memo[s].seen[f] <= work[f]
    /\ \A f \in Tracked \ memo[s].dirty : memo[s].seen[f] <= head[f]
    /\ memo[s].committed \/ pc[s] \in {"inspect_again", "push"} => AllSaved(memo[s])

(* What a session knows stays true while others stage, commit and push.         *)
LEMMA SaveKept ==
    ASSUME Types, GitOrder, Next, NEW s \in Sessions, SaveOf(s), Knowing(s)
    PROVE  SaveOf(s)'
<1>0. \A f \in Files : /\ memo[s].seen[f] \in Nat /\ work[f] \in Nat /\ work'[f] \in Nat
                       /\ work[f] <= work'[f]
                       /\ head[f] \in Nat /\ head'[f] \in Nat /\ head[f] <= head'[f]
  BY WorkGrows, GitOrderStep, MemoTyped DEF Versions
<1>1. CASE /\ memo'[s].seen = memo[s].seen /\ memo'[s].dirty = memo[s].dirty
           /\ memo'[s].committed = memo[s].committed
           /\ pc'[s] \in {"inspect_again", "push"} => pc'[s] = pc[s]
  <2>1. \A f \in Files : memo'[s].seen[f] <= work'[f]  BY <1>0, <1>1 DEF SaveOf
  <2>2. \A f \in Tracked \ memo'[s].dirty : memo'[s].seen[f] <= head'[f]
    BY <1>0, <1>1 DEF SaveOf, Files
  <2>3. ASSUME memo'[s].committed \/ pc'[s] \in {"inspect_again", "push"}, NEW f \in Tracked
        PROVE  memo'[s].seen[f] <= head'[f]
    <3>1. memo[s].seen[f] <= head[f]  BY <1>1, <2>3 DEF SaveOf, AllSaved
    <3> QED  BY <3>1, <1>0, <1>1 DEF Files
  <2> QED  BY <2>1, <2>2, <2>3 DEF SaveOf, AllSaved
<1>2. CASE /\ memo'[s].seen = Nowhere /\ memo'[s].committed = FALSE
           /\ pc'[s] \notin {"inspect_again", "push"}
  BY <1>0, <1>2 DEF SaveOf, Nowhere, NoFile, Files
<1> QED  BY <1>1, <1>2 DEF Knowing

(* What a step of git-save makes of what its session knows.                      *)
LEMMA GitKnowing ==
    ASSUME Types, NEW s \in Sessions, GitStep(s)
    PROVE  /\ \A r \in Sessions \ {s} : Knowing(r)
           /\ \/ Knowing(s)
              \/ /\ memo'[s].seen = work /\ memo'[s].dirty = Dirty /\ memo'[s].committed = FALSE
                 /\ pc'[s] # "inspect_again" /\ (pc'[s] = "push" => Dirty = {})
                 /\ UNCHANGED head
              \/ /\ memo'[s].seen = memo[s].seen /\ memo'[s].dirty = memo[s].dirty
                 /\ head' = Committed(memo[s].dirty) /\ pc'[s] = "inspect_again"
              \/ /\ memo'[s].seen = memo[s].seen /\ memo'[s].dirty = memo[s].dirty
                 /\ memo'[s].committed = memo[s].committed
                 /\ pc[s] = "inspect_again"
<1>0. /\ memo \in [Sessions -> Memos] /\ pc \in [Sessions -> Phases]
      /\ NoMemo.seen = Nowhere /\ NoMemo.committed = FALSE
  BY DEF NoMemo, Nowhere, Types, SessionInv
<1>1. \A r \in Sessions \ {s} : Knowing(r)
  <2>1. CASE Inspect(s)  BY <1>0, <2>1 DEF Inspect, Ends, End, Go, Knows, Knowing
  <2>2. CASE Confirm(s)  BY <1>0, <2>2 DEF Confirm, Ends, End, Go, Knowing
  <2>3. CASE Add(s)  BY <1>0, <2>3 DEF Add, GivesUp, End, Go, Knowing
  <2>4. CASE Commit(s)  BY <1>0, <2>4 DEF Commit, GivesUp, Ends, End, Go, Knows, Knowing
  <2>5. CASE InspectAgain(s)  BY <1>0, <2>5 DEF InspectAgain, Ends, End, Go, Knowing
  <2>6. CASE Push(s)  BY <1>0, <2>6 DEF Push, GivesUp, End, Knowing
  <2> QED  BY <2>1, <2>2, <2>3, <2>4, <2>5, <2>6 DEF GitStep
<1>2. CASE End(s)
  BY <1>0, <1>1, <1>2 DEF End, Knowing
<1>3. CASE Inspect(s) /\ ~ End(s)
  <2> DEFINE m == [NoMemo EXCEPT !.seen = work, !.dirty = Dirty, !.upstream = upstream]
  <2>1. m.seen = work /\ m.dirty = Dirty /\ m.committed = FALSE  BY DEF NoMemo
  <2>2. memo' = [memo EXCEPT ![s] = m] /\ UNCHANGED head
        /\ (pc' = [pc EXCEPT ![s] = "confirm"] \/ (Dirty = {} /\ pc' = [pc EXCEPT ![s] = "push"]))
    BY <1>3 DEF Inspect, Ends, Go, Knows, git
  <2> HIDE DEF m
  <2> QED  BY <1>0, <1>1, <2>1, <2>2
<1>4. CASE (Confirm(s) \/ Add(s)) /\ ~ End(s)
  BY <1>0, <1>1, <1>4 DEF Confirm, Add, Ends, GivesUp, Go, Knowing
<1>5. CASE Commit(s) /\ ~ End(s)
  <2> DEFINE m == [memo[s] EXCEPT !.committed = TRUE]
  <2>1. m.seen = memo[s].seen /\ m.dirty = memo[s].dirty  BY <1>0 DEF Memos
  <2>2. memo' = [memo EXCEPT ![s] = m] /\ pc' = [pc EXCEPT ![s] = "inspect_again"]
        /\ head' = Committed(memo[s].dirty)
    BY <1>5 DEF Commit, Ends, GivesUp, Go, Knows
  <2> HIDE DEF m
  <2> QED  BY <1>0, <1>1, <2>1, <2>2
<1>6. CASE InspectAgain(s) /\ ~ End(s)
  BY <1>0, <1>1, <1>6 DEF InspectAgain, Ends, Go
<1>7. CASE Push(s) /\ ~ End(s)
  BY <1>1, <1>7 DEF Push, GivesUp
<1> QED  BY <1>1, <1>2, <1>3, <1>4, <1>5, <1>6, <1>7 DEF GitStep

(* What a session found clean is committed, and stays so.                       *)
LEMMA SaveStep ==
    ASSUME Types, GitOrder, SaveInv, Next
    PROVE  SaveInv'
<1>0. \A s \in Sessions : SaveOf(s)  BY DEF SaveInv, SaveOf
<1> SUFFICES ASSUME NEW s \in Sessions  PROVE SaveOf(s)'
  BY DEF SaveInv, SaveOf
<1>1. CASE Knowing(s)  BY <1>0, <1>1, SaveKept
<1>2. CASE GitStep(s)
  <2>0. \A f \in Files : /\ memo[s].seen[f] \in Nat /\ work[f] \in Nat /\ work' = work
                         /\ head[f] \in Nat /\ head'[f] \in Nat /\ head[f] <= head'[f]
    BY <1>2, WorkGrows, GitOrderStep, MemoTyped, GitMoves DEF Versions
  <2>1. CASE /\ memo'[s].seen = work /\ memo'[s].dirty = Dirty /\ memo'[s].committed = FALSE
             /\ pc'[s] # "inspect_again" /\ (pc'[s] = "push" => Dirty = {})
             /\ UNCHANGED head
    <3>1. \A f \in Tracked \ Dirty : work[f] = head[f]  BY DEF Dirty
    <3> QED  BY <2>0, <2>1, <3>1 DEF SaveOf, AllSaved, Files
  <2>2. CASE /\ memo'[s].seen = memo[s].seen /\ memo'[s].dirty = memo[s].dirty
             /\ head' = Committed(memo[s].dirty) /\ pc'[s] = "inspect_again"
    <3>1. \A f \in Files : memo[s].seen[f] <= work[f]  BY <1>0 DEF SaveOf
    <3>2. \A f \in Tracked : memo[s].seen[f] <= head'[f]
      <4>1. ASSUME NEW f \in Tracked, f \in memo[s].dirty  PROVE memo[s].seen[f] <= head'[f]
        BY <2>2, <3>1, <4>1 DEF Committed, Files
      <4>2. ASSUME NEW f \in Tracked, f \notin memo[s].dirty  PROVE memo[s].seen[f] <= head'[f]
        BY <2>2, <1>0, <4>2 DEF SaveOf, Committed, Files
      <4> QED  BY <4>1, <4>2
    <3> QED  BY <2>0, <2>2, <3>1, <3>2 DEF SaveOf, AllSaved
  <2>3. CASE /\ memo'[s].seen = memo[s].seen /\ memo'[s].dirty = memo[s].dirty
             /\ memo'[s].committed = memo[s].committed
             /\ pc[s] = "inspect_again"
    <3>1. \A f \in Files : memo[s].seen[f] <= work[f]  BY <1>0 DEF SaveOf
    <3>2. \A f \in Tracked : memo[s].seen[f] <= head[f]  BY <1>0, <2>3 DEF SaveOf, AllSaved
    <3>3. \A f \in Tracked : memo[s].seen[f] <= head'[f]  BY <2>0, <3>2 DEF Files
    <3> QED  BY <2>0, <2>3, <3>1, <3>3 DEF SaveOf, AllSaved
  <2> QED  BY <1>1, <1>2, <2>1, <2>2, <2>3, GitKnowing
<1>3. CASE \E r \in Sessions \ {s} : GitStep(r)
  BY <1>1, <1>3, GitKnowing
<1> QED  BY <1>1, <1>2, <1>3, OthersKnow

(* A report is made of what the session knows, and commits are not taken back.  *)
LEMMA SaidStep ==
    ASSUME Types, GitOrder, SaveInv, SaidIsSaved, Next
    PROVE  SaidIsSaved'
<1>0. \A f \in Tracked : /\ head[f] \in Nat /\ head'[f] \in Nat /\ head[f] <= head'[f]
                         /\ remote[f] \in Nat /\ remote'[f] \in Nat /\ remote[f] <= remote'[f]
                         /\ f \in Files
  BY GitOrderStep DEF Files
<1>1. /\ said \in [Sessions -> [committed : Versions, pushed : Versions]]
      /\ said' \in [Sessions -> [committed : Versions, pushed : Versions]]
  BY GitTypesStep DEF Types, GitTypes
<1> DEFINE True(c, p) == \A f \in Tracked : head'[f] >= c[f] /\ remote'[f] >= p[f]
<1>2. \A r \in Sessions : True(said[r].committed, said[r].pushed)
  <2> SUFFICES ASSUME NEW r \in Sessions, NEW f \in Tracked
               PROVE  head'[f] >= said[r].committed[f] /\ remote'[f] >= said[r].pushed[f]
    OBVIOUS
  <2>1. said[r].committed \in Versions /\ said[r].pushed \in Versions  BY <1>1
  <2>2. said[r].committed[f] \in Nat /\ said[r].pushed[f] \in Nat  BY <1>0, <2>1 DEF Versions
  <2>3. head[f] >= said[r].committed[f] /\ remote[f] >= said[r].pushed[f]  BY DEF SaidIsSaved
  <2> QED  BY <1>0, <2>2, <2>3
<1>3. CASE UNCHANGED said
  BY <1>2, <1>3 DEF SaidIsSaved
<1>4. ASSUME NEW s \in Sessions, NEW m, Says(s, m), m.seen \in Versions,
             m.committed => \A f \in Tracked : m.seen[f] <= head'[f],
             m.pushed => \A f \in Tracked : m.seen[f] <= remote'[f]
      PROVE  SaidIsSaved'
  <2> DEFINE c == IF m.committed THEN m.seen ELSE Nowhere
             p == IF m.pushed THEN m.seen ELSE Nowhere
  <2>1. said' = [said EXCEPT ![s] = [committed |-> c, pushed |-> p]]  BY <1>4 DEF Says
  <2>2. True(c, p)
    <3>1. \A f \in Tracked : m.seen[f] \in Nat /\ Nowhere[f] = 0
      BY <1>0, <1>4 DEF Versions, Nowhere, NoFile
    <3> QED  BY <1>0, <1>4, <3>1
  <2> HIDE DEF c, p
  <2>3. \A r \in Sessions : True(said'[r].committed, said'[r].pushed)
    <3> HIDE DEF True
    <3>1. said'[s].committed = c /\ said'[s].pushed = p  BY <1>1, <2>1
    <3>2. \A r \in Sessions \ {s} : said'[r] = said[r]  BY <1>1, <2>1
    <3> QED  BY <1>2, <2>2, <3>1, <3>2
  <2> QED  BY <2>3 DEF SaidIsSaved
<1>5. ASSUME NEW s \in Sessions, GitStep(s)  PROVE SaidIsSaved'
  <2>1. memo[s].seen \in Versions /\ memo[s].pushed = FALSE /\ NoMemo.seen \in Versions
        /\ NoMemo.committed = FALSE /\ NoMemo.pushed = FALSE
    BY MemoTyped, NoMemoTyped DEF NoMemo, Memos
  <2>2. memo[s].committed \/ pc[s] \in {"inspect_again", "push"}
            => \A f \in Tracked : memo[s].seen[f] <= head[f]
    BY DEF SaveInv, AllSaved
  <2>3. \A f \in Tracked : memo[s].seen[f] \in Nat  BY <1>0, <2>1 DEF Versions
  <2>4. memo[s].committed \/ pc[s] \in {"inspect_again", "push"}
            => \A f \in Tracked : memo[s].seen[f] <= head'[f]
    BY <1>0, <2>2, <2>3
  <2>5. CASE Says(s, NoMemo)  BY <1>4, <2>1, <2>5
  <2>6. CASE Says(s, memo[s])  BY <1>4, <2>1, <2>4, <2>6
  <2>7. CASE pc[s] = "push" /\ remote' = head /\ Says(s, [memo[s] EXCEPT !.pushed = TRUE])
    <3> DEFINE m == [memo[s] EXCEPT !.pushed = TRUE]
    <3>1. m.seen = memo[s].seen /\ m.committed = memo[s].committed
      BY MemoTyped DEF Memos
    <3>2. \A f \in Tracked : m.seen[f] <= remote'[f]  BY <2>2, <2>7, <3>1
    <3>3. m.committed => \A f \in Tracked : m.seen[f] <= head'[f]  BY <2>4, <3>1
    <3>4. Says(s, m)  BY <2>7
    <3> HIDE DEF m
    <3> QED  BY <1>4, <2>1, <3>1, <3>2, <3>3, <3>4
  <2>8. \/ UNCHANGED said \/ Says(s, NoMemo) \/ Says(s, memo[s])
        \/ pc[s] = "push" /\ remote' = head /\ Says(s, [memo[s] EXCEPT !.pushed = TRUE])
    BY <1>5 DEF GitStep, Inspect, Confirm, Add, Commit, InspectAgain, Push, Ends, GivesUp, git
  <2> QED  BY <1>3, <2>5, <2>6, <2>7, <2>8
<1> QED  BY <1>3, <1>5, WhoTouchesTheRepository DEF UserStages, git

(* A commit takes nothing but what its session listed.                           *)
LEMMA CommitsOnlyListedStep ==
    ASSUME Types, Next, NEW s \in Sessions, pc[s] = "commit", pc'[s] # "commit", NEW f \in Files,
           head'[f] # head[f]
    PROVE  f \in memo[s].dirty
<1>0. memo \in [Sessions -> Memos] /\ pc \in [Sessions -> Phases] /\ head \in Versions
  BY DEF Types, SessionInv, GitTypes
<1>1. UNCHANGED git => f \in memo[s].dirty  BY DEF git
<1>2. CASE UserStages  BY <1>2 DEF UserStages
<1>3. ASSUME NEW r \in Sessions, GitStep(r)  PROVE f \in memo[s].dirty
  <2>1. pc[r] # pc'[r] => r = s
    BY <1>0, <1>3 DEF GitStep, Inspect, Confirm, Add, Commit, InspectAgain, Push, Ends,
         GivesUp, End, Go
  <2>2. \A q \in Sessions \ {r} : pc'[q] = pc[q]
    BY <1>0, <1>3 DEF GitStep, Inspect, Confirm, Add, Commit, InspectAgain, Push, Ends,
         GivesUp, End, Go
  <2>3. r = s  BY <2>2
  <2>4. Commit(s)
    BY <1>3, <2>3 DEF GitStep, Inspect, Confirm, Add, InspectAgain, Push, Asked
  <2>5. head' = head \/ head' = Committed(memo[s].dirty)  BY <2>4 DEF Commit, Ends
  <2> QED  BY <1>0, <2>5 DEF Committed, Versions
<1> QED  BY <1>1, <1>2, <1>3, WhoTouchesTheRepository

-----------------------------------------------------------------------------
(* The backups                                                               *)

ChainTypes ==
    /\ bak \in [Slots -> Nat] /\ copy \in Nat /\ slipped \in BOOLEAN /\ slot \in Slots \cup {0}

(* The newer backups stand before the older ones, and none is newer than the file. *)
ChainOrder ==
    /\ copy <= work[Words] /\ \A i \in Slots : bak[i] <= work[Words]
    /\ \A i, j \in Slots : i < j /\ bak[i] # NoFile /\ bak[j] # NoFile => bak[j] <= bak[i]

(* How far the write of session s has come.                                      *)
WriteOf(s) ==
    /\ pc[s] \in {"drop", "shift", "place"} =>
          copy # NoFile /\ Keep > 0 /\ \A i \in Slots : bak[i] <= copy
    /\ pc[s] \in {"drop", "shift"} => Keep > 1
    /\ pc[s] \in {"copy", "drop", "place"} => slot = 0
    /\ pc[s] = "shift" => slot > 0
    /\ pc[s] \in {"shift", "place"} /\ ~slipped => slot = Oldest \/ bak[slot] = NoFile
    /\ pc[s] \in Writing => memo[s].id[2] \in Nat /\ memo[s].id[2] <= work[Words]
    /\ pc[s] \in {"drop", "shift", "place", "replace"} /\ Keep > 0 => memo[s].id[2] <= copy
    /\ pc[s] = "replace" /\ Keep > 0 /\ copy # NoFile => bak[0] = copy

(* The chain of backups, and how far each write has come.                       *)
ChainInv ==
    /\ ChainTypes /\ ChainOrder
    /\ lock = Free => copy = NoFile /\ slot = 0
    /\ \A s \in Sessions : WriteOf(s)

(* A step that has nothing to do with a write.                                   *)
ChainKept ==
    /\ UNCHANGED <<backups, lock>>
    /\ \A r \in Sessions : pc[r] \in Writing \/ pc'[r] \in Writing
                               => pc'[r] = pc[r] /\ memo'[r] = memo[r]

(* Every other step leaves the chain and the sessions that write alone.         *)
LEMMA OthersKeepTheChain ==
    ASSUME Types, Next
    PROVE  \/ \E s \in Sessions : Backup(s) \/ BeginCollect(s) \/ Die(s)
           \/ ChainKept
<1> DEFINE G == \/ \E s \in Sessions : Backup(s) \/ BeginCollect(s) \/ Die(s)
                \/ ChainKept
<1> SUFFICES G  OBVIOUS
<1> USE DEF Types, SessionInv, Writing
<1>1. ASSUME NEW s \in Sessions, BeginCollect(s) /\ UNCHANGED <<history, logs, git>>
     PROVE  G
  BY <1>1 DEF Backup
<1>2. ASSUME NEW s \in Sessions, MakeCopy(s) /\ UNCHANGED <<history, logs, git>>
     PROVE  G
  BY <1>2 DEF Backup
<1>3. ASSUME NEW s \in Sessions, DropOldest(s) /\ UNCHANGED <<history, logs, git>>
     PROVE  G
  BY <1>3 DEF Backup
<1>4. ASSUME NEW s \in Sessions, Shift(s) /\ UNCHANGED <<history, logs, git>>
     PROVE  G
  BY <1>4 DEF Backup
<1>5. ASSUME NEW s \in Sessions, PlaceCopy(s) /\ UNCHANGED <<history, logs, git>>
     PROVE  G
  BY <1>5 DEF Backup
<1>6. ASSUME NEW s \in Sessions, Replace(s) /\ UNCHANGED <<history, logs, git>>
     PROVE  G
  BY <1>6 DEF Backup
<1>7. ASSUME NEW s \in Sessions, BeginRecover(s) /\ UNCHANGED <<backups, logs, git>>
     PROVE  G
  BY <1>7 DEF BeginRecover, Asked, Go, Knows, NoFault, ChainKept, Waiting, Recording, Saving,
       session
<1>8. ASSUME NEW s \in Sessions, Record(s) /\ UNCHANGED <<backups, logs, git>>
     PROVE  G
  BY <1>8 DEF Record, Go, End, NoFault, ChainKept, Waiting, Recording, Saving, session
<1>9. ASSUME NEW s \in Sessions, TakeHistoryLock(s) /\ UNCHANGED <<backups, logs, git>>
     PROVE  G
  BY <1>9 DEF TakeHistoryLock, Go, NoFault, Waiting, ChainKept, Waiting, Recording, Saving,
       session
<1>10. ASSUME NEW s \in Sessions, Look(s) /\ UNCHANGED <<backups, logs, git>>
     PROVE  G
  BY <1>10 DEF Look, Learns, End, Release, NoFault, Fault, Go, ChainKept, Waiting, Recording,
       Saving, session
<1>11. ASSUME NEW s \in Sessions, Write(s) /\ UNCHANGED <<backups, logs, git>>
     PROVE  G
  BY <1>11 DEF Write, NotSaved, Fault, NoFault, End, Release, Learns, Go, ChainKept, Waiting,
       Recording, Saving, session
<1>12. ASSUME NEW s \in Sessions, Compact(s) /\ UNCHANGED <<backups, logs, git>>
     PROVE  G
  BY <1>12 DEF Compact, NoFault, Fault, End, Release, Go, Knows, ChainKept, Waiting,
       Recording, Saving, session
<1>13. ASSUME NEW s \in Sessions, Swap(s) /\ UNCHANGED <<backups, logs, git>>
     PROVE  G
  BY <1>13 DEF Swap, NoFault, Fault, End, Release, ChainKept, Waiting, Recording, Saving,
       session
<1>14. ASSUME NEW s \in Sessions, Inspect(s) /\ UNCHANGED <<backups, history, logs>>
     PROVE  G
  BY <1>14 DEF Inspect, Asked, Quiet, NoFault, Fault, Ends, End, Go, Knows, ChainKept,
       Waiting, Recording, Saving, session
<1>15. ASSUME NEW s \in Sessions, Confirm(s) /\ UNCHANGED <<backups, history, logs>>
     PROVE  G
  BY <1>15 DEF Confirm, Quiet, NoFault, Go, Ends, End, ChainKept, Waiting, Recording, Saving,
       session
<1>16. ASSUME NEW s \in Sessions, Add(s) /\ UNCHANGED <<backups, history, logs>>
     PROVE  G
  BY <1>16 DEF Add, Quiet, NoFault, Fault, GivesUp, End, Go, ChainKept, Waiting, Recording,
       Saving, session
<1>17. ASSUME NEW s \in Sessions, Commit(s) /\ UNCHANGED <<backups, history, logs>>
     PROVE  G
  BY <1>17 DEF Commit, Quiet, NoFault, Fault, GivesUp, Go, Knows, Ends, End, ChainKept,
       Waiting, Recording, Saving, session
<1>18. ASSUME NEW s \in Sessions, InspectAgain(s) /\ UNCHANGED <<backups, history, logs>>
     PROVE  G
  BY <1>18 DEF InspectAgain, Quiet, NoFault, Go, Ends, End, ChainKept, Waiting, Recording,
       Saving, session
<1>19. ASSUME NEW s \in Sessions, Push(s) /\ UNCHANGED <<backups, history, logs>>
     PROVE  G
  BY <1>19 DEF Push, Quiet, NoFault, Fault, GivesUp, End, ChainKept, Waiting, Recording,
       Saving, session
<1>20. ASSUME NEW s \in Sessions, OpenLogs(s) /\ UNCHANGED <<backups, git>>
     PROVE  G
  BY <1>20 DEF OpenLogs, Asked, NoFault, Go, ChainKept, Waiting, Recording, Saving, session
<1>21. ASSUME NEW s \in Sessions, Refresh(s) /\ UNCHANGED <<backups, git>>
     PROVE  G
  BY <1>21 DEF Refresh, Presses, NoFault, ChainKept, Waiting, Recording, Saving, session
<1>22. ASSUME NEW s \in Sessions, ChooseFilter(s) /\ UNCHANGED <<backups, git>>
     PROVE  G
  BY <1>22 DEF ChooseFilter, Presses, NoFault, ChainKept, Waiting, Recording, Saving, session
<1>23. ASSUME NEW s \in Sessions, PressClear(s) /\ UNCHANGED <<backups, git>>
     PROVE  G
  BY <1>23 DEF PressClear, Presses, NoFault, Go, ChainKept, Waiting, Recording, Saving, session
<1>24. ASSUME NEW s \in Sessions, Clear(s) /\ UNCHANGED <<backups, git>>
     PROVE  G
  BY <1>24 DEF Clear, ClearFile, NoFault, Fault, Release, Go, ChainKept, Waiting, Recording,
       Saving, session
<1>25. ASSUME NEW s \in Sessions, LeaveLogs(s) /\ UNCHANGED <<backups, git>>
     PROVE  G
  BY <1>25 DEF LeaveLogs, Presses, NoFault, End, ChainKept, Waiting, Recording, Saving, session
<1>26. ASSUME NEW s \in Sessions, Die(s)
     PROVE  G
  BY <1>26 DEF Backup
<1>27. ASSUME NEW t \in threads, ThreadReads(t) \/ ThreadEnds(t), UNCHANGED <<backups, git>>
     PROVE  G
  BY <1>27 DEF ThreadReads, ThreadEnds, Runs, NoFault, ChainKept, session
<1>28. ASSUME NEW t \in threads, ThreadFails(t), UNCHANGED <<backups, git>>
     PROVE  G
  BY <1>28 DEF ThreadFails, Fault, ChainKept, session
<1>29. ASSUME EditorSaves
     PROVE  G
  BY <1>29 DEF EditorSaves, Saved, NewContent, ChainKept, session
<1>30. ASSUME UserStages /\ UNCHANGED <<backups, history, logs>>
     PROVE  G
  BY <1>30 DEF UserStages, Saved, NewContent, ChainKept, session
<1> QED
  BY <1>1, <1>2, <1>3, <1>4, <1>5, <1>6, <1>7, <1>8, <1>9, <1>10, <1>11, <1>12, <1>13, <1>14,
       <1>15, <1>16, <1>17, <1>18, <1>19, <1>20, <1>21, <1>22, <1>23, <1>24, <1>25, <1>26,
       <1>27, <1>28, <1>29, <1>30 DEF Next, Act, Backup, Recorder, GitStep, LogsStep, Thread

(* Two sessions are never in the middle of a write.                             *)
LEMMA OneWriter ==
    ASSUME LockInv, NEW s \in Sessions, pc[s] \in Writing, NEW r \in Sessions \ {s}
    PROVE  pc[r] \notin Writing /\ lock = s
  BY DEF LockInv

(* What a step of the write of session s has to leave.                            *)
WriteLeft(s) ==
    /\ ChainTypes' /\ ChainOrder'
    /\ lock' = Free => copy' = NoFile /\ slot' = 0
    /\ WriteOf(s)'

(* The content of the word list is only replaced by a newer one.                *)
LEMMA WordsTyped ==
    ASSUME Types, Next
    PROVE  /\ work[Words] \in Nat /\ work'[Words] \in Nat /\ work[Words] <= work'[Words]
           /\ Words \in Files
<1>1. Words \in Files  BY DEF Words, Files, Tracked
<1> QED  BY <1>1, WorkGrows

(* A write that has ended leaves the chain to the next one.                     *)
LEMMA ChainIdle ==
    ASSUME Types, Next, ChainInv, UNCHANGED <<bak, slipped>>, copy' = NoFile, slot' = 0,
           NEW s \in Sessions, pc'[s] \notin Writing
    PROVE  WriteLeft(s)
<1>1. \A i \in Slots : bak[i] \in Nat  BY DEF ChainInv, ChainTypes
<1>2. ChainTypes'  BY DEF ChainInv, ChainTypes, NoFile
<1>3. ChainOrder'
  BY <1>1, WordsTyped DEF ChainInv, ChainOrder, NoFile
<1> QED  BY <1>2, <1>3 DEF WriteLeft, WriteOf, Writing

(* A write that is given up leaves the chain as it is, and no copy beside it.   *)
LEMMA RefusedLeaves ==
    ASSUME Types, Next, ChainInv, NEW s \in Sessions, Refused(s)
    PROVE  WriteLeft(s)
<1>1. pc'[s] = "idle"  BY DEF Refused, End, Types, SessionInv
<1> QED  BY <1>1, ChainIdle DEF Refused, Writing

(* The copy for the chain is of the word list as it is then.                    *)
LEMMA MakeCopyLeaves ==
    ASSUME Types, Next, LockInv, ChainInv, NEW s \in Sessions, MakeCopy(s)
    PROVE  WriteLeft(s)
<1>0. CASE Refused(s)  BY <1>0, RefusedLeaves
<1>1. ASSUME ~ Refused(s)  PROVE WriteLeft(s)
  <2>1. /\ pc[s] = "copy" /\ lock = s /\ WriteOf(s) /\ lock # Free
    BY WorkspaceAssumption DEF MakeCopy, LockInv, Writing, ChainInv
  <2>2. UNCHANGED <<work, lock, memo, bak>> /\ slipped' = FALSE /\ slot' = 0
    BY <1>1 DEF MakeCopy, workspace
  <2>3. memo[s].id[2] \in Nat /\ memo[s].id[2] <= work[Words]
    BY <2>1 DEF WriteOf, Writing
  <2>4. \A i \in Slots : bak[i] \in Nat /\ bak[i] <= work[Words]  BY DEF ChainInv, ChainTypes, ChainOrder
  <2>5. CASE (Keep = 0 \/ work[Words] = NoFile) /\ Go(s, "replace") /\ copy' = NoFile
    <3>1. pc'[s] = "replace"  BY <2>5 DEF Go, Types, SessionInv
    <3>2. ChainTypes'
      <4>1. slipped' \in BOOLEAN /\ slot' \in Slots \cup {0} /\ copy' \in Nat
        BY <2>2, <2>5 DEF NoFile
      <4> QED  BY <2>2, <4>1 DEF ChainInv, ChainTypes
    <3>8. ChainOrder'
      BY <2>2, <2>4, <2>5, WordsTyped DEF ChainInv, ChainOrder, NoFile
    <3>3. Keep > 0 => memo[s].id[2] <= copy'  BY <2>3, <2>5, WorkspaceAssumption DEF NoFile
    <3>4. WriteOf(s)'  BY <3>1, <3>3, <2>2, <2>3, <2>5 DEF WriteOf
    <3> QED  BY <2>1, <2>2, <3>2, <3>8, <3>4 DEF WriteLeft
  <2>6. ASSUME NEW q \in {"place", "drop"}, Go(s, q), copy' = work[Words], work[Words] # NoFile,
               Keep # 0, (q = "place") <=> (Keep = 1)
        PROVE  WriteLeft(s)
    <3>1. pc'[s] = q  BY <2>6 DEF Go, Types, SessionInv
    <3>2. ChainTypes' /\ ChainOrder'
      BY <2>2, <2>4, <2>6, WordsTyped DEF ChainInv, ChainTypes, ChainOrder, NoFile
    <3>3. Keep > 0 /\ (q = "drop" => Keep > 1) /\ (q = "place" => slot' = Oldest)
      BY <2>2, <2>6, WorkspaceAssumption DEF Oldest
    <3>4. WriteOf(s)'  BY <3>1, <3>3, <2>2, <2>3, <2>4, <2>6 DEF WriteOf
    <3> QED  BY <2>1, <2>2, <3>2, <3>4 DEF WriteLeft
  <2>7. CASE Keep # 0 /\ work[Words] # NoFile /\ copy' = work[Words]
             /\ Go(s, IF Keep = 1 THEN "place" ELSE "drop")
    <3>1. CASE Keep = 1  BY <2>6, <2>7, <3>1
    <3>2. CASE Keep # 1  BY <2>6, <2>7, <3>2
    <3> QED  BY <3>1, <3>2
  <2> QED  BY <1>1, <2>5, <2>7 DEF MakeCopy
<1> QED  BY <1>0, <1>1

(* The oldest backup goes, or a failure to remove it is passed over.            *)
LEMMA DropOldestLeaves ==
    ASSUME Types, Next, LockInv, ChainInv, NEW s \in Sessions, DropOldest(s)
    PROVE  WriteLeft(s)
<1>1. pc[s] = "drop" /\ lock = s /\ WriteOf(s) /\ lock # Free
  BY WorkspaceAssumption DEF DropOldest, LockInv, Writing, ChainInv
<1>2. /\ UNCHANGED <<work, lock, memo, copy, slipped>> /\ slot' = Oldest
      /\ bak' = bak \/ bak' = [bak EXCEPT ![Oldest] = NoFile]
  BY DEF DropOldest, workspace
<1>3. pc'[s] = "shift"  BY DEF DropOldest, Go, Types, SessionInv
<1>4. Keep \in Nat /\ Keep > 1 /\ Oldest \in Slots /\ Oldest > 0
  BY <1>1, WorkspaceAssumption DEF WriteOf, Oldest, Slots
<1>5. \A i \in Slots : bak[i] \in Nat /\ (bak'[i] = bak[i] \/ bak'[i] = NoFile)
  BY <1>2 DEF ChainInv, ChainTypes
<1>6. bak' \in [Slots -> Nat]  BY <1>2 DEF ChainInv, ChainTypes, NoFile
<1>7. ChainTypes'  BY <1>2, <1>4, <1>6 DEF ChainInv, ChainTypes
<1>8. ChainOrder'  BY <1>2, <1>5, WordsTyped DEF ChainInv, ChainOrder, NoFile
<1>9. copy # NoFile /\ copy \in Nat /\ \A i \in Slots : bak'[i] <= copy
  BY <1>1, <1>5 DEF WriteOf, ChainInv, ChainTypes, NoFile
<1>10. WriteOf(s)'
  <2>1. memo[s].id[2] \in Nat /\ memo[s].id[2] <= work[Words] /\ memo[s].id[2] <= copy
    BY <1>1, <1>4 DEF WriteOf, Writing
  <2> QED  BY <1>2, <1>3, <1>4, <1>9, <2>1 DEF WriteOf
<1> QED  BY <1>1, <1>2, <1>7, <1>8, <1>10 DEF WriteLeft

(* A backup moves into the slot behind it: the slot is free, or the one that is *)
(* meant to go; a rename that fails leaves the chain ordered all the same.      *)
LEMMA ShiftLeaves ==
    ASSUME Types, Next, LockInv, ChainInv, NEW s \in Sessions, Shift(s)
    PROVE  WriteLeft(s)
<1>1. pc[s] = "shift" /\ lock = s /\ WriteOf(s) /\ lock # Free
  BY WorkspaceAssumption DEF Shift, LockInv, Writing, ChainInv
<1>2. /\ UNCHANGED <<work, lock, memo, copy>> /\ slot' = slot - 1
      /\ \/ bak[slot - 1] = NoFile /\ UNCHANGED <<bak, slipped>>
         \/ bak' = [bak EXCEPT ![slot] = bak[slot - 1], ![slot - 1] = NoFile] /\ UNCHANGED slipped
         \/ UNCHANGED bak /\ slipped' = TRUE
  BY DEF Shift, Renamed, workspace
<1>3. pc'[s] = IF slot = 1 THEN "place" ELSE "shift"  BY DEF Shift, Go, Types, SessionInv
<1>4. /\ Keep \in Nat /\ Keep > 1 /\ slot \in Slots /\ slot - 1 \in Slots /\ slot \in Nat /\ slot # slot - 1
      /\ (slot # 1 => slot - 1 > 0)
  BY <1>1, WorkspaceAssumption DEF WriteOf, Slots, ChainInv, ChainTypes
<1>5. \A i \in Slots : i \in Nat /\ bak[i] \in Nat /\ copy \in Nat /\ bak[i] <= copy
  BY <1>1 DEF WriteOf, ChainInv, ChainTypes, Slots
<1>6. ASSUME bak' = [bak EXCEPT ![slot] = bak[slot - 1], ![slot - 1] = NoFile]
      PROVE  /\ bak' \in [Slots -> Nat] /\ bak'[slot - 1] = NoFile /\ bak'[slot] = bak[slot - 1]
             /\ \A i \in Slots \ {slot, slot - 1} : bak'[i] = bak[i]
  BY <1>4, <1>5, <1>6 DEF ChainInv, ChainTypes, NoFile
<1>7. ChainTypes'
  <2>1. bak' \in [Slots -> Nat]  BY <1>2, <1>6 DEF ChainInv, ChainTypes
  <2> QED  BY <1>2, <1>4, <2>1 DEF ChainInv, ChainTypes
<1>8. \A i \in Slots : bak'[i] <= copy /\ bak'[i] <= work[Words]
  <2>1. CASE UNCHANGED bak  BY <1>5, <2>1 DEF ChainInv, ChainOrder
  <2>2. CASE bak' = [bak EXCEPT ![slot] = bak[slot - 1], ![slot - 1] = NoFile]
    BY <1>4, <1>5, <1>6, <2>2, WordsTyped DEF ChainInv, ChainOrder, NoFile
  <2> QED  BY <2>1, <2>2, <1>2
<1>9. ASSUME NEW i \in Slots, NEW j \in Slots, i < j, bak'[i] # NoFile, bak'[j] # NoFile
      PROVE  bak'[j] <= bak'[i]
  <2>0. \A k, l \in Slots : k < l /\ bak[k] # NoFile /\ bak[l] # NoFile => bak[l] <= bak[k]
    BY DEF ChainInv, ChainOrder
  <2>1. CASE UNCHANGED bak  BY <1>9, <2>0, <2>1
  <2>2. CASE bak' = [bak EXCEPT ![slot] = bak[slot - 1], ![slot - 1] = NoFile]
    <3>1. i # slot - 1 /\ j # slot - 1  BY <1>6, <1>9, <2>2
    <3>2. CASE i = slot
      <4>1. bak'[j] = bak[j] /\ bak'[i] = bak[slot - 1] /\ slot - 1 < j
        BY <1>4, <1>5, <1>6, <1>9, <2>2, <3>1, <3>2
      <4> QED  BY <1>4, <1>9, <2>0, <4>1
    <3>3. CASE j = slot
      <4>1. bak'[i] = bak[i] /\ bak'[j] = bak[slot - 1] /\ i < slot - 1
        BY <1>4, <1>5, <1>6, <1>9, <2>2, <3>1, <3>3
      <4> QED  BY <1>4, <1>9, <2>0, <4>1
    <3>4. CASE i # slot /\ j # slot
      BY <1>6, <1>9, <2>0, <2>2, <3>1, <3>4
    <3> QED  BY <3>2, <3>3, <3>4
  <2> QED  BY <2>1, <2>2, <1>2
<1>10. ChainOrder'  BY <1>2, <1>8, <1>9 DEF ChainInv, ChainOrder
<1>11. ~ slipped' => bak'[slot'] = NoFile
  BY <1>2, <1>6
<1>12. WriteOf(s)'
  <2>1. /\ memo[s].id[2] \in Nat /\ memo[s].id[2] <= work[Words] /\ memo[s].id[2] <= copy
        /\ copy # NoFile
    BY <1>1, <1>4 DEF WriteOf, Writing
  <2>2. CASE slot = 1
    <3>1. pc'[s] = "place" /\ slot' = 0  BY <1>2, <1>3, <2>2
    <3> QED  BY <1>2, <1>4, <1>8, <1>11, <2>1, <3>1 DEF WriteOf
  <2>3. CASE slot # 1
    <3>1. pc'[s] = "shift" /\ slot' > 0  BY <1>2, <1>3, <1>4, <2>3
    <3> QED  BY <1>2, <1>4, <1>8, <1>11, <2>1, <3>1 DEF WriteOf
  <2> QED  BY <2>2, <2>3
<1> QED  BY <1>1, <1>2, <1>7, <1>10, <1>12 DEF WriteLeft

(* The copy becomes the newest backup.                                          *)
LEMMA PlaceCopyLeaves ==
    ASSUME Types, Next, LockInv, ChainInv, NEW s \in Sessions, PlaceCopy(s)
    PROVE  WriteLeft(s)
<1>0. CASE Refused(s)  BY <1>0, RefusedLeaves
<1>1. ASSUME ~ Refused(s)  PROVE WriteLeft(s)
  <2>1. pc[s] = "place" /\ lock = s /\ WriteOf(s) /\ lock # Free
    BY WorkspaceAssumption DEF PlaceCopy, LockInv, Writing, ChainInv
  <2>2. UNCHANGED <<work, lock, memo, copy, slot, slipped>> /\ bak' = [bak EXCEPT ![0] = copy]
    BY <1>1 DEF PlaceCopy, workspace
  <2>3. pc'[s] = "replace"  BY <1>1 DEF PlaceCopy, Go, Types, SessionInv
  <2>4. Keep \in Nat /\ Keep > 0 /\ 0 \in Slots /\ \A i \in Slots : i \in Nat
    BY <2>1, WorkspaceAssumption DEF WriteOf, Slots
  <2>5. \A i \in Slots : bak[i] \in Nat /\ copy \in Nat /\ bak[i] <= copy
    BY <2>1 DEF WriteOf, ChainInv, ChainTypes
  <2>6. bak'[0] = copy /\ \A i \in Slots \ {0} : bak'[i] = bak[i]
    BY <2>2, <2>4 DEF ChainInv, ChainTypes
  <2>7. ChainTypes'  BY <2>2, <2>4, <2>5 DEF ChainInv, ChainTypes
  <2>8. ChainOrder'
    <3>1. copy <= work[Words] /\ \A i \in Slots : bak[i] <= work[Words]  BY DEF ChainInv, ChainOrder
    <3>2. copy' <= work'[Words] /\ \A i \in Slots : bak'[i] <= work'[Words]
      BY <2>2, <2>6, <3>1
    <3>3. ASSUME NEW i \in Slots, NEW j \in Slots, i < j, bak'[i] # NoFile, bak'[j] # NoFile
          PROVE  bak'[j] <= bak'[i]
      <4>1. j # 0 /\ bak'[j] = bak[j]  BY <2>4, <2>6, <3>3
      <4>2. CASE i = 0  BY <2>5, <2>6, <4>1, <4>2
      <4>3. CASE i # 0  BY <2>6, <3>3, <4>1, <4>3 DEF ChainInv, ChainOrder
      <4> QED  BY <4>2, <4>3
    <3> QED  BY <3>2, <3>3 DEF ChainOrder
  <2>9. WriteOf(s)'
    <3>1. memo[s].id[2] \in Nat /\ memo[s].id[2] <= work[Words] /\ memo[s].id[2] <= copy
      BY <2>1, <2>4 DEF WriteOf, Writing
    <3> QED  BY <2>2, <2>3, <2>6, <3>1 DEF WriteOf
  <2> QED  BY <2>1, <2>2, <2>7, <2>8, <2>9 DEF WriteLeft
<1> QED  BY <1>0, <1>1

(* The word list is replaced, and the lock let go.                              *)
LEMMA ReplaceLeaves ==
    ASSUME Types, Next, LockInv, ChainInv, NEW s \in Sessions, Replace(s)
    PROVE  WriteLeft(s)
<1>0. CASE Refused(s)  BY <1>0, RefusedLeaves
<1>1. CASE ~ Refused(s)
  <2>1. pc'[s] = "record"  BY <1>1 DEF Replace, Go, Types, SessionInv
  <2> QED  BY <1>1, <2>1, ChainIdle DEF Replace, Writing
<1> QED  BY <1>0, <1>1

(* The chain stays ordered, and a write under way has its copy in the place it has *)
(* reached.                                                                     *)
LEMMA ChainStep ==
    ASSUME Types, LockInv, ChainInv, Next
    PROVE  ChainInv'
<1>1. ASSUME NEW s \in Sessions, WriteLeft(s), pc[s] \in Writing,
             \A r \in Sessions \ {s} : pc'[r] = pc[r]
      PROVE  ChainInv'
  <2>1. \A r \in Sessions \ {s} : WriteOf(r)'
    BY <1>1, OneWriter DEF WriteOf, Writing
  <2> QED  BY <1>1, <2>1 DEF WriteLeft, ChainInv
<1>2. ASSUME NEW s \in Sessions, Backup(s)  PROVE ChainInv'
  <2>1. WriteLeft(s)
    BY <1>2, MakeCopyLeaves, DropOldestLeaves, ShiftLeaves, PlaceCopyLeaves,
         ReplaceLeaves DEF Backup
  <2>2. pc[s] \in Writing
    BY <1>2 DEF Backup, MakeCopy, DropOldest, Shift, PlaceCopy, Replace, Writing
  <2>3. \A r \in Sessions \ {s} : pc'[r] = pc[r]
    BY <1>2 DEF Backup, MakeCopy, DropOldest, Shift, PlaceCopy, Replace, Refused, Go, End,
         Types, SessionInv
  <2> QED  BY <1>1, <2>1, <2>2, <2>3
<1>3. \A r \in Sessions : WriteOf(r)  BY DEF ChainInv
<1>4. CASE ChainKept
  <2>1. \A i \in Slots : bak[i] \in Nat  BY DEF ChainInv, ChainTypes
  <2>2. UNCHANGED <<bak, copy, slot, slipped, lock>>  BY <1>4 DEF ChainKept, backups
  <2>3. copy \in Nat /\ copy <= work[Words] /\ \A i \in Slots : bak[i] <= work[Words]
    BY DEF ChainInv, ChainTypes, ChainOrder
  <2>4. ChainTypes' /\ ChainOrder'
    BY <2>1, <2>2, <2>3, WordsTyped DEF ChainInv, ChainTypes, ChainOrder
  <2>5. ASSUME NEW r \in Sessions  PROVE WriteOf(r)'
    <3>1. CASE pc'[r] \notin Writing  BY <3>1 DEF WriteOf, Writing
    <3>2. CASE pc'[r] \in Writing
      <4>1. pc'[r] = pc[r] /\ memo'[r] = memo[r]  BY <1>4, <3>2 DEF ChainKept
      <4>2. memo[r].id[2] \in Nat /\ memo[r].id[2] <= work[Words]
        BY <1>3, <3>2, <4>1 DEF WriteOf
      <4>3. memo[r].id[2] <= work'[Words]  BY <4>2, WordsTyped
      <4> QED  BY <1>3, <2>2, <4>1, <4>2, <4>3 DEF WriteOf
    <3> QED  BY <3>1, <3>2
  <2> QED  BY <2>2, <2>4, <2>5 DEF ChainInv
<1>5. ASSUME NEW s \in Sessions, BeginCollect(s)  PROVE ChainInv'
  <2>0. UNCHANGED <<work, bak, copy, slot, slipped>> /\ pc[s] = "idle"
    BY <1>5 DEF BeginCollect, workspace, backups, Asked
  <2>1. ChainTypes' /\ ChainOrder'
    BY <2>0 DEF ChainInv, ChainTypes, ChainOrder
  <2>2. CASE lock = Free /\ lock' = s /\ Go(s, "copy")
             /\ Knows(s, [NoMemo EXCEPT !.id = Identity("pull", work[Words], "completed")])
    <3> DEFINE m == [NoMemo EXCEPT !.id = Identity("pull", work[Words], "completed")]
    <3>1. m.id[2] = work[Words]  BY DEF NoMemo, Identity
    <3>2. memo' = [memo EXCEPT ![s] = m] /\ pc' = [pc EXCEPT ![s] = "copy"]  BY <2>2 DEF Go, Knows
    <3> HIDE DEF m
    <3>3. memo'[s].id[2] = work[Words] /\ pc'[s] = "copy" /\ \A r \in Sessions \ {s} : pc'[r] = pc[r]
      BY <3>1, <3>2 DEF Types, SessionInv
    <3>4. \A r \in Sessions \ {s} : pc[r] \notin Writing
      BY <2>2, WorkspaceAssumption DEF LockInv
    <3>5. \A r \in Sessions \ {s} : WriteOf(r)'  BY <3>3, <3>4 DEF WriteOf, Writing
    <3>6. slot' = 0 /\ copy' = NoFile  BY <2>0, <2>2 DEF ChainInv
    <3>7. WriteOf(s)'  BY <2>0, <3>3, <3>6, WordsTyped DEF WriteOf
    <3>8. lock' # Free  BY <2>2, WorkspaceAssumption
    <3> QED  BY <2>1, <3>5, <3>7, <3>8 DEF ChainInv
  <2>3. CASE End(s) /\ UNCHANGED lock
    <3>1. pc'[s] = "idle" /\ \A r \in Sessions \ {s} : pc'[r] = pc[r] /\ memo'[r] = memo[r]
      BY <2>3 DEF End, Types, SessionInv
    <3>2. ChainKept  BY <2>0, <2>3, <3>1 DEF ChainKept, backups, Writing
    <3> QED  BY <1>4, <3>2
  <2> QED  BY <1>5, <2>2, <2>3 DEF BeginCollect
<1>6. ASSUME NEW s \in Sessions, Die(s)  PROVE ChainInv'
  <2>1. /\ pc' = [pc EXCEPT ![s] = "idle"] /\ memo' = [memo EXCEPT ![s] = NoMemo]
        /\ UNCHANGED <<work, bak, slipped>>
        /\ lock' = IF lock = s THEN Free ELSE lock
        /\ copy' = (IF lock = s THEN NoFile ELSE copy) /\ slot' = (IF lock = s THEN 0 ELSE slot)
    BY <1>6 DEF Die, LetGo, workspace
  <2>2. pc'[s] = "idle" /\ \A r \in Sessions \ {s} : pc'[r] = pc[r] /\ memo'[r] = memo[r]
    BY <2>1 DEF Types, SessionInv
  <2>3. CASE lock = s
    <3>1. pc[s] \in Writing  BY <2>3 DEF LockInv
    <3>2. pc'[s] \notin Writing  BY <2>2 DEF Writing
    <3>3. WriteLeft(s)  BY <2>1, <2>3, <3>2, ChainIdle
    <3> QED  BY <1>1, <2>2, <3>1, <3>3
  <2>4. CASE lock # s
    <3>1. pc[s] \notin Writing  BY <2>4 DEF LockInv
    <3>2. ChainKept  BY <2>1, <2>2, <2>4, <3>1 DEF ChainKept, backups, Writing
    <3> QED  BY <1>4, <3>2
  <2> QED  BY <2>3, <2>4
<1> QED  BY <1>2, <1>4, <1>5, <1>6, OthersKeepTheChain

(* A step after which the file has taken the place of what is in .bak.           *)
LEMMA OverwrittenStep ==
    ASSUME Types, LockInv, ChainInv, Next, NEW s \in Sessions,
           pc[s] = "replace", pc'[s] = "record", work[Words] # NoFile
    PROVE  \/ Keep = 0 \/ bak[0] = work[Words]
           \/ work[Words] > copy /\ work[Words] > memo[s].id[2]
<1>1. WriteOf(s) /\ copy \in Nat /\ copy <= work[Words] /\ Keep \in Nat /\ work[Words] \in Nat
  BY WordsTyped, WorkspaceAssumption DEF ChainInv, ChainTypes, ChainOrder
<1>2. memo[s].id[2] \in Nat /\ (Keep > 0 => memo[s].id[2] <= copy)
      /\ (Keep > 0 /\ copy # NoFile => bak[0] = copy)
  BY <1>1 DEF WriteOf, Writing
<1> QED  BY <1>1, <1>2 DEF NoFile

(* The step formula of OnlyTheOldestGoes.                                       *)
OnlyTheOldestGoesNow ==
    /\ \A v \in Backed \ Backed' : slipped \/ \A w \in Backed' : w > v
    /\ \A i, j \in Slots : i < j /\ NoFile \notin {bak'[i], bak'[j]} => bak'[i] >= bak'[j]

(* A step loses a backup only when all that stay are newer, unless a rename failed. *)
LEMMA OnlyTheOldestStep ==
    ASSUME Types, LockInv, ChainInv, Next
    PROVE  OnlyTheOldestGoesNow
<1>1. ASSUME NEW i \in Slots, NEW j \in Slots, i < j, NoFile \notin {bak'[i], bak'[j]}
      PROVE  bak'[i] >= bak'[j]
  <2>1. ChainTypes' /\ ChainOrder'  BY ChainStep DEF ChainInv
  <2>2. bak'[i] \in Nat /\ bak'[j] \in Nat  BY <2>1 DEF ChainTypes
  <2>3. bak'[j] <= bak'[i]  BY <1>1, <2>1 DEF ChainOrder
  <2> QED  BY <2>2, <2>3
<1> DEFINE G == \A v \in Backed \ Backed' : slipped \/ \A w \in Backed' : w > v
<1>2. ASSUME UNCHANGED bak  PROVE G
  BY <1>2 DEF Backed
<1>3. \A i \in Slots : i \in Nat /\ bak[i] \in Nat  BY DEF ChainInv, ChainTypes, Slots
<1>4. \A i, j \in Slots : i < j /\ bak[i] # NoFile /\ bak[j] # NoFile => bak[j] <= bak[i]
  BY DEF ChainInv, ChainOrder
<1>5. ASSUME NEW s \in Sessions, DropOldest(s)  PROVE G
  <2>1. Keep \in Nat /\ Oldest \in Slots /\ \A i \in Slots \ {Oldest} : i < Oldest
    BY <1>5, WorkspaceAssumption DEF DropOldest, ChainInv, WriteOf, Oldest, Slots
  <2>2. CASE bak' = [bak EXCEPT ![Oldest] = NoFile]
    <3>1. \A i \in Slots : bak'[i] = IF i = Oldest THEN NoFile ELSE bak[i]
      BY <2>1, <2>2 DEF ChainInv, ChainTypes
    <3> SUFFICES ASSUME NEW v \in Backed \ Backed', NEW w \in Backed'  PROVE w > v
      OBVIOUS
    <3>2. PICK j \in Slots : v = bak[j] /\ v # NoFile  BY DEF Backed
    <3>3. j = Oldest  BY <3>1, <3>2 DEF Backed
    <3>4. PICK i \in Slots : w = bak'[i] /\ w # NoFile  BY DEF Backed
    <3>5. i # Oldest /\ w = bak[i]  BY <3>1, <3>4
    <3>6. v <= w  BY <1>4, <2>1, <3>2, <3>3, <3>4, <3>5
    <3> QED  BY <1>3, <3>2, <3>5, <3>6
  <2> QED  BY <1>2, <1>5, <2>2 DEF DropOldest
<1>6. ASSUME NEW s \in Sessions, Shift(s)  PROVE G
  <2>1. /\ Keep \in Nat /\ Oldest \in Slots /\ slot \in Slots /\ slot - 1 \in Slots /\ slot \in Nat
        /\ \A i \in Slots \ {Oldest} : i < Oldest
        /\ ~ slipped => slot = Oldest \/ bak[slot] = NoFile
    BY <1>6, WorkspaceAssumption DEF Shift, ChainInv, ChainTypes, WriteOf, Oldest, Slots
  <2>2. CASE bak' = Renamed(slot)
    <3>1. \A i \in Slots : bak'[i] = IF i = slot - 1 THEN NoFile
                                     ELSE IF i = slot THEN bak[slot - 1] ELSE bak[i]
      BY <2>1, <2>2 DEF ChainInv, ChainTypes, Renamed
    <3> SUFFICES ASSUME NEW v \in Backed \ Backed', ~ slipped, NEW w \in Backed'  PROVE w > v
      OBVIOUS
    <3>2. PICK j \in Slots : v = bak[j] /\ v # NoFile  BY DEF Backed
    <3>3. j = slot
      <4>1. j # slot - 1
        <5>1. bak'[slot] = bak[slot - 1]  BY <2>1, <3>1
        <5> QED  BY <2>1, <3>2, <5>1 DEF Backed
      <4> QED  BY <3>1, <3>2, <4>1 DEF Backed
    <3>4. slot = Oldest  BY <2>1, <3>2, <3>3
    <3>5. PICK i \in Slots : w = bak'[i] /\ w # NoFile  BY DEF Backed
    <3>6. PICK k \in Slots : k < Oldest /\ w = bak[k]
      <4>1. CASE i = slot
        <5>1. w = bak[slot - 1] /\ slot - 1 < Oldest  BY <2>1, <3>1, <3>4, <3>5, <4>1
        <5> QED  BY <2>1, <5>1
      <4>2. CASE i # slot
        <5>1. i # slot - 1 /\ w = bak[i] /\ i < Oldest  BY <2>1, <3>1, <3>4, <3>5, <4>2
        <5> QED  BY <5>1
      <4> QED  BY <4>1, <4>2
    <3>7. v <= w  BY <1>4, <2>1, <3>2, <3>3, <3>4, <3>5, <3>6
    <3> QED  BY <1>3, <3>2, <3>6, <3>7
  <2> QED  BY <1>2, <1>6, <2>2 DEF Shift
<1>7. ASSUME NEW s \in Sessions, PlaceCopy(s)  PROVE G
  <2>1. /\ Keep \in Nat /\ 0 \in Slots /\ \A i \in Slots : bak[i] <= copy
        /\ copy # NoFile /\ copy \in Nat
        /\ ~ slipped => Keep = 1 \/ bak[0] = NoFile
    BY <1>7, WorkspaceAssumption DEF PlaceCopy, ChainInv, ChainTypes, WriteOf, Oldest, Slots
  <2>2. CASE bak' = [bak EXCEPT ![0] = copy]
    <3>1. bak'[0] = copy /\ \A i \in Slots \ {0} : bak'[i] = bak[i]
      BY <2>1, <2>2 DEF ChainInv, ChainTypes
    <3> SUFFICES ASSUME NEW v \in Backed \ Backed', ~ slipped, NEW w \in Backed'  PROVE w > v
      OBVIOUS
    <3>2. PICK j \in Slots : v = bak[j] /\ v # NoFile  BY DEF Backed
    <3>3. j = 0  BY <3>1, <3>2 DEF Backed
    <3>4. Slots = {0}  BY <2>1, <3>2, <3>3 DEF Slots
    <3>5. w = copy  BY <3>1, <3>4 DEF Backed
    <3>6. v # w /\ v <= w  BY <2>1, <3>2, <3>5
    <3> QED  BY <1>3, <2>1, <3>2, <3>5, <3>6
  <2> QED  BY <1>2, <1>7, <2>2 DEF PlaceCopy, Refused
<1>8. ASSUME NEW s \in Sessions, MakeCopy(s) \/ Replace(s) \/ BeginCollect(s) \/ Die(s)  PROVE G
  <2>1. UNCHANGED bak  BY <1>8 DEF MakeCopy, Replace, Refused, BeginCollect, Die, backups
  <2> QED  BY <1>2, <2>1
<1>9. ASSUME ChainKept  PROVE G
  BY <1>2, <1>9 DEF ChainKept, backups
<1>10. G
  <2> HIDE DEF G
  <2> QED  BY <1>5, <1>6, <1>7, <1>8, <1>9, OthersKeepTheChain DEF Backup
<1> QED  BY <1>1, <1>10 DEF OnlyTheOldestGoesNow

-----------------------------------------------------------------------------
(* The theorems                                                              *)

(* What was cleared had been written.                                           *)
ClearedInv == cleared \in Nat /\ cleared <= written

(* What was cleared was written before.                                         *)
LEMMA ClearedStep ==
    ASSUME Types, ClearedInv, Next
    PROVE  ClearedInv'
<1>1. written \in Nat /\ written' \in Nat /\ written <= written'
  <2>1. written' = written \/ written' = written + 1
    BY WhoTouchesTheHistory DEF Look, Write, NotSaved, Swap, Clear
  <2> QED  BY <2>1 DEF Types, HistoryTypes
<1>2. UNCHANGED cleared \/ (cleared' = written /\ written' = written)
  <2>1. ASSUME NEW s \in Sessions, Act(s)  PROVE UNCHANGED cleared \/ (cleared' = written /\ written' = written)
    BY <2>1 DEF Act, LogsStep, OpenLogs, Refresh, ChooseFilter, PressClear, Clear, LeaveLogs,
         Presses, logs
  <2>2. ASSUME NEW s \in Sessions, Die(s)  PROVE UNCHANGED cleared
    BY <2>2 DEF Die, logs
  <2> QED
    BY <2>1, <2>2 DEF Next, Thread, ThreadReads, ThreadEnds, ThreadFails, Runs, EditorSaves,
         logs
<1> QED  BY <1>1, <1>2 DEF ClearedInv

(* The inductive invariant.                                                     *)
AftermathInv ==
    /\ Types /\ LockInv
    /\ GitOrder /\ SaveInv /\ SaidIsSaved
    /\ ChainInv /\ ClearedInv

(* The invariant holds at the start.                                            *)
LEMMA AftermathInit ==
    ASSUME Init  PROVE AftermathInv
<1>1. Types /\ LockInv  BY TypesInit, LockInit
<1>2. GitOrder
  BY <1>1 DEF Init, InitGit, GitOrder, Types, WorkspaceInv, Versions
<1>3. SaveInv
  BY <1>1 DEF Init, InitWorkspace, NoMemo, SaveInv, NoFile, Types, WorkspaceInv, GitTypes,
       Versions, Files
<1>4. SaidIsSaved
  BY <1>1 DEF Init, InitGit, SaidIsSaved, Silent, Nowhere, NoFile, Types, GitTypes, Versions,
       Files
<1>5. ChainInv
  <2>1. /\ bak = [i \in Slots |-> IF scene.used THEN Keep - i ELSE NoFile]
        /\ copy = NoFile /\ slot = 0 /\ slipped = FALSE
    BY DEF Init, InitBackups
  <2>2. Keep \in Nat /\ \A i \in Slots : i \in Nat /\ Keep - i \in Nat /\ Keep - i <= Keep
    BY WorkspaceAssumption DEF Slots
  <2>3. work[Words] = IF scene.used THEN Keep + 1 ELSE 0
    BY DEF Init, InitWorkspace, Words, Files, Tracked, NoFile
  <2>4. \A i \in Slots : bak[i] \in Nat /\ bak[i] <= work[Words]
    BY <2>1, <2>2, <2>3 DEF NoFile
  <2>5. ChainTypes
    <3>1. slipped \in BOOLEAN /\ slot \in Slots \cup {0} /\ copy \in Nat  BY <2>1 DEF NoFile
    <3>2. bak \in [Slots -> Nat]  BY <2>1, <2>2 DEF NoFile
    <3> QED  BY <3>1, <3>2 DEF ChainTypes
  <2>6. ASSUME NEW i \in Slots, NEW j \in Slots, i < j, bak[i] # NoFile, bak[j] # NoFile
        PROVE  bak[j] <= bak[i]
    <3>1. bak[i] = Keep - i /\ bak[j] = Keep - j  BY <2>1, <2>6
    <3> QED  BY <2>2, <2>6, <3>1
  <2>7. ChainOrder
    <3>1. copy <= work[Words]  BY <2>1, <2>2, <2>3 DEF NoFile
    <3> QED  BY <2>4, <2>6, <3>1 DEF ChainOrder
  <2>8. \A s \in Sessions : WriteOf(s)  BY DEF Init, InitWorkspace, WriteOf, Writing
  <2> QED  BY <2>1, <2>5, <2>7, <2>8 DEF ChainInv
<1>6. ClearedInv
  BY <1>1 DEF Init, InitLogs, ClearedInv, Types, HistoryTypes
<1> QED  BY <1>1, <1>2, <1>3, <1>4, <1>5, <1>6 DEF AftermathInv

(* Every step keeps the invariant.                                              *)
LEMMA AftermathStep ==
    ASSUME AftermathInv, [Next]_vars  PROVE AftermathInv'
<1>1. CASE Next
  <2> USE DEF AftermathInv
  <2>1. Types' /\ LockInv'  BY <1>1, TypesStep, LockStep
  <2>2. GitOrder'  BY <1>1, GitOrderStep
  <2>3. SaveInv'  BY <1>1, SaveStep
  <2>4. SaidIsSaved'  BY <1>1, SaidStep
  <2>5. ChainInv'  BY <1>1, ChainStep
  <2>6. ClearedInv'  BY <1>1, ClearedStep
  <2> QED  BY <2>1, <2>2, <2>3, <2>4, <2>5, <2>6
<1>2. CASE UNCHANGED vars
  <2> USE DEF vars, workspace, session, budget, backups, history, logs, git
  <2>1. WorkspaceInv' /\ SessionInv'
    BY <1>2 DEF AftermathInv, Types, WorkspaceInv, SessionInv
  <2>2. HistoryTypes' /\ GitTypes'
    BY <1>2 DEF AftermathInv, Types, HistoryTypes, GitTypes
  <2>3. LockInv' /\ GitOrder'
    BY <1>2 DEF AftermathInv, LockInv, GitOrder
  <2>4. SaveInv'
    BY <1>2 DEF AftermathInv, SaveInv, AllSaved
  <2>5. SaidIsSaved'
    BY <1>2 DEF AftermathInv, SaidIsSaved
  <2>6. ChainTypes' /\ ChainOrder'
    BY <1>2 DEF AftermathInv, ChainInv, ChainTypes, ChainOrder
  <2>7. \A s \in Sessions : WriteOf(s)'
    BY <1>2 DEF AftermathInv, ChainInv, WriteOf
  <2>8. (lock' = Free => copy' = NoFile /\ slot' = 0) /\ ClearedInv'
    BY <1>2 DEF AftermathInv, ChainInv, ClearedInv
  <2> QED  BY <2>1, <2>2, <2>3, <2>4, <2>5, <2>6, <2>7, <2>8 DEF AftermathInv, Types, ChainInv
<1> QED  BY <1>1, <1>2

(* However the sessions' commands interleave, the invariant holds.              *)
THEOREM AftermathHolds == Spec => []AftermathInv
<1>1. Init => AftermathInv  BY AftermathInit
<1>2. AftermathInv /\ [Next]_vars => AftermathInv'  BY AftermathStep
<1> QED  BY <1>1, <1>2, PTL DEF Spec

(* Every variable keeps its type, whatever is recorded, saved or killed.          *)
THEOREM TypeCorrect == Spec => []TypeOK
<1>1. AftermathInv => TypeOK
  <2> SUFFICES ASSUME AftermathInv  PROVE TypeOK
    OBVIOUS
  <2>1. clock \in Nat /\ work \in Versions /\ \A f \in Files : work[f] <= clock
    BY DEF AftermathInv, Types, WorkspaceInv
  <2>2. \A f \in Files : /\ work[f] \in Nat /\ index[f] \in Nat /\ head[f] \in Nat /\ remote[f] \in Nat
                         /\ work[f] <= clock /\ index[f] <= clock /\ head[f] <= clock
                         /\ remote[f] <= clock
    BY <2>1 DEF AftermathInv, Types, GitTypes, GitOrder, Versions
  <2>3. \A f \in Files : /\ work[f] \in 0 .. clock /\ index[f] \in 0 .. clock
                         /\ head[f] \in 0 .. clock /\ remote[f] \in 0 .. clock
    BY <2>1, <2>2
  <2>4. /\ work \in [Files -> 0 .. clock] /\ index \in [Files -> 0 .. clock]
        /\ head \in [Files -> 0 .. clock] /\ remote \in [Files -> 0 .. clock]
    BY <2>1, <2>3 DEF AftermathInv, Types, GitTypes, Versions
  <2>5. bak \in [Slots -> 0 .. clock] /\ copy \in 0 .. clock
    <3>1. Words \in Files  BY DEF Words, Files, Tracked
    <3>2. \A i \in Slots : bak[i] \in 0 .. clock
      BY <2>1, <2>2, <3>1 DEF AftermathInv, ChainInv, ChainTypes, ChainOrder
    <3>3. copy \in 0 .. clock
      BY <2>1, <2>2, <3>1 DEF AftermathInv, ChainInv, ChainTypes, ChainOrder
    <3> QED  BY <3>2, <3>3 DEF AftermathInv, ChainInv, ChainTypes
  <2>6. lock \in Sessions \cup {Free} /\ hlock \in Sessions \cup {Free}
    BY DEF AftermathInv, LockInv
  <2>7. /\ pc \in [Sessions -> {"idle", "record", "logs"} \cup Writing \cup Waiting \cup Recording \cup Saving]
        /\ plan \in [Sessions -> Seq(Commands)]
    BY DEF AftermathInv, Types, SessionInv, Phases
  <2>8. slot \in Slots \cup {0} /\ slipped \in BOOLEAN /\ torn \in BOOLEAN /\ upstream \in BOOLEAN
    BY DEF AftermathInv, Types, HistoryTypes, GitTypes, ChainInv, ChainTypes
  <2>9. written \in Nat /\ cleared \in 0 .. written
    BY DEF AftermathInv, Types, HistoryTypes, ClearedInv
  <2>10. scene \in Scenes /\ saves \in 0 .. scene.saves /\ faults \in 0 .. scene.faults
    BY DEF AftermathInv, Types, WorkspaceInv
  <2> QED  BY <2>1, <2>4, <2>5, <2>6, <2>7, <2>8, <2>9, <2>10 DEF TypeOK
<1> QED  BY <1>1, AftermathHolds, PTL

(* What a report says is committed or pushed is, however the saves interleave.    *)
THEOREM SaidIsSavedHolds == Spec => []SaidIsSaved
<1>1. AftermathInv => SaidIsSaved  BY DEF AftermathInv
<1> QED  BY <1>1, AftermathHolds, PTL

(* A commit takes only the files its session has listed.                         *)
THEOREM CommitsOnlyListedHolds == Spec => CommitsOnlyListed
<1> DEFINE A == \A s \in Sessions : pc[s] = "commit" /\ pc'[s] # "commit" =>
                    \A f \in Files : head'[f] # head[f] => f \in memo[s].dirty
<1>1. AftermathInv /\ [Next]_vars => [A]_<<git, pc>>
  <2> SUFFICES ASSUME AftermathInv, [Next]_vars  PROVE [A]_<<git, pc>>
    OBVIOUS
  <2>1. CASE Next  BY <2>1, CommitsOnlyListedStep DEF AftermathInv
  <2>2. CASE UNCHANGED vars  BY <2>2 DEF vars, session
  <2> QED  BY <2>1, <2>2
<1> QED  BY <1>1, AftermathHolds, PTL DEF Spec, CommitsOnlyListed

(* What a write replaces is in .bak.                                              *)
THEOREM OverwrittenIsKeptHolds == Spec => OverwrittenIsKept
<1> DEFINE A == \A s \in Sessions : pc[s] = "replace" /\ pc'[s] = "record" /\ work[Words] # NoFile
                    => \/ Keep = 0 \/ bak[0] = work[Words]
                       \/ work[Words] > copy /\ work[Words] > memo[s].id[2]
<1>1. AftermathInv /\ [Next]_vars => [A]_<<workspace, backups, pc, memo>>
  <2> SUFFICES ASSUME AftermathInv, [Next]_vars  PROVE [A]_<<workspace, backups, pc, memo>>
    OBVIOUS
  <2>1. CASE Next  BY <2>1, OverwrittenStep DEF AftermathInv
  <2>2. CASE UNCHANGED vars  BY <2>2 DEF vars, session
  <2> QED  BY <2>1, <2>2
<1> QED  BY <1>1, AftermathHolds, PTL DEF Spec, OverwrittenIsKept

(* The chain stays ordered, and loses its oldest backup first.                   *)
THEOREM OnlyTheOldestGoesHolds == Spec => OnlyTheOldestGoes
<1>1. AftermathInv /\ [Next]_vars => [OnlyTheOldestGoesNow]_backups
  <2> SUFFICES ASSUME AftermathInv, [Next]_vars  PROVE [OnlyTheOldestGoesNow]_backups
    OBVIOUS
  <2>1. CASE Next  BY <2>1, OnlyTheOldestStep DEF AftermathInv
  <2>2. CASE UNCHANGED vars  BY <2>2 DEF vars
  <2> QED  BY <2>1, <2>2
<1> QED  BY <1>1, AftermathHolds, PTL DEF Spec, OnlyTheOldestGoes, OnlyTheOldestGoesNow
=============================================================================

-------------------------- MODULE History_proofs ---------------------------
(***************************************************************************)
(* The operation history and the screen that shows it, for any number of   *)
(* records, sessions and loads: the lines stay in the order of their       *)
(* operations, a record leaves the file only when it is cleared or pushed  *)
(* out by newer ones, and the screen shows the rows its filter lets        *)
(* through and none that it has cleared.                                   *)
(***************************************************************************)
EXTENDS Aftermath_proofs, FiniteSetTheorems

(* What can be read of the history is there in its order.                        *)
LEMMA ParsedOf ==
    ASSUME NEW lines \in Seq(Lines)
    PROVE  /\ Parsed(lines) \in Seq(Lines)
           /\ \E g : Stood(g, Parsed(lines), lines, {l \in ToSet(lines) : l.readable}, Len(lines))
  BY PickedIsPicked DEF Parsed

(* The lines that can be read are in the order of their numbers.                *)
Ordered(lines) == \A i, j \in 1 .. Len(lines) :
                      i < j /\ lines[i].readable /\ lines[j].readable => lines[i].n < lines[j].n

(* ... and their numbers are between the two.                                   *)
Between(lines, low, high) ==
    \A i \in 1 .. Len(lines) : lines[i].readable => low < lines[i].n /\ lines[i].n <= high

(* The lines that can be read, all of them, in the order of their numbers.      *)
LEMMA ParsedOrder ==
    ASSUME NEW lines \in Seq(Lines), NEW low \in Nat, NEW high \in Nat,
           Ordered(lines), Between(lines, low, high)
    PROVE  LET P == Parsed(lines) IN
           /\ P \in Seq(Lines)
           /\ \A k \in 1 .. Len(P) : P[k].readable /\ low < P[k].n /\ P[k].n <= high
           /\ \A j, k \in 1 .. Len(P) : j < k => P[j].n < P[k].n
           /\ \A i \in 1 .. Len(lines) : lines[i].readable => \E k \in 1 .. Len(P) : P[k] = lines[i]
<1> DEFINE P == Parsed(lines)
           L == {l \in ToSet(lines) : l.readable}
<1>1. PICK g : Stood(g, P, lines, L, Len(lines))  BY ParsedOf
<1>2. P \in Seq(Lines)  BY ParsedOf
<1>3. \A i \in 1 .. Len(lines) : lines[i] \in L <=> lines[i].readable  BY DEF ToSet
<1> HIDE DEF P, L
<1>4. \A k \in 1 .. Len(P) : g[k] \in 1 .. Len(lines) /\ P[k] = lines[g[k]] /\ P[k] \in L
  BY <1>1 DEF Stood
<1>5. \A k \in 1 .. Len(P) : P[k].readable  BY <1>3, <1>4
<1>6. \A k \in 1 .. Len(P) : low < P[k].n /\ P[k].n <= high  BY <1>4, <1>5 DEF Between
<1>7. \A j, k \in 1 .. Len(P) : j < k => P[j].n < P[k].n
  BY <1>1, <1>4, <1>5 DEF Stood, Ordered
<1>8. \A i \in 1 .. Len(lines) : lines[i].readable => \E k \in 1 .. Len(P) : P[k] = lines[i]
  BY <1>1, <1>3, <1>4 DEF Stood
<1> QED  BY <1>2, <1>5, <1>6, <1>7, <1>8 DEF P

(* The order of the lines, and of those about to be put in their place.         *)
HistoryInv ==
    /\ Ordered(hist) /\ Between(hist, cleared, written)
    /\ \A s \in Sessions : pc[s] = "swap" => /\ memo[s].lines = Newest(Parsed(hist), MaxRecords)
                                             /\ MaxRecords < Len(Parsed(hist))

(* An appended record is the newest.                                            *)
LEMMA ExtendedOrder ==
    ASSUME Types, ClearedInv, NEW line \in Lines, Ordered(hist), Between(hist, cleared, written),
           line.readable => line.n = written + 1
    PROVE  Ordered(Extended(line)) /\ Between(Extended(line), cleared, written + 1)
<1> DEFINE E == Extended(line)
           last == Len(E)
<1>0. HistoryTypes  BY DEF Types
<1>1. /\ E \in Seq(Lines) /\ last \in Nat /\ last > 0
      /\ E[last] = IF torn THEN Garbage ELSE line
      /\ \A i \in 1 .. last : i # last => i \in 1 .. Len(hist) /\ E[i] = hist[i]
  <2>1. /\ E \in Seq(Lines) /\ E # <<>>
        /\ E[last] = IF torn THEN Garbage ELSE line
        /\ last = IF torn THEN Len(hist) ELSE Len(hist) + 1
        /\ \A i \in 1 .. Len(hist) : ~ (torn /\ i = Len(hist)) => E[i] = hist[i]
    BY <1>0, ExtendedTyped
  <2> HIDE DEF E
  <2>2. Len(hist) \in Nat  BY <1>0 DEF HistoryTypes
  <2>3. last \in Nat /\ last > 0  BY <2>1
  <2>4. CASE torn
    <3>1. last = Len(hist)  BY <2>1, <2>4
    <3> QED  BY <2>1, <2>2, <2>3, <2>4, <3>1
  <2>5. CASE ~ torn
    <3>1. last = Len(hist) + 1  BY <2>1, <2>5
    <3> QED  BY <2>1, <2>2, <2>3, <2>5, <3>1
  <2> QED  BY <2>4, <2>5
<1> HIDE DEF E, last
<1>2. E[last].readable => E[last].n = written + 1
  <2>1. CASE torn
    <3>1. E[last] = Garbage  BY <1>1, <2>1
    <3> QED  BY <3>1 DEF Garbage
  <2>2. CASE ~ torn
    <3>1. E[last] = line  BY <1>1, <2>2
    <3> QED  BY <3>1
  <2> QED  BY <2>1, <2>2
<1>3. cleared \in Nat /\ written \in Nat /\ cleared <= written
  BY <1>0 DEF ClearedInv, HistoryTypes
<1>4. \A i \in 1 .. last : E[i] \in Lines /\ E[i].n \in Nat
  <2>1. \A i \in 1 .. last : E[i] \in Lines  BY <1>1 DEF last
  <2> QED  BY <2>1 DEF Lines
<1>5. \A i \in 1 .. last : E[i].readable => cleared < E[i].n /\ E[i].n <= written + 1
  <2> SUFFICES ASSUME NEW i \in 1 .. last, E[i].readable
               PROVE  cleared < E[i].n /\ E[i].n <= written + 1
    OBVIOUS
  <2>1. CASE i = last  BY <1>2, <1>3, <2>1
  <2>2. CASE i # last
    <3>1. cleared < E[i].n /\ E[i].n <= written  BY <1>1, <2>2 DEF Between
    <3> QED  BY <1>3, <1>4, <3>1
  <2> QED  BY <2>1, <2>2
<1>6. ASSUME NEW i \in 1 .. last, NEW j \in 1 .. last, i < j, E[i].readable, E[j].readable
      PROVE  E[i].n < E[j].n
  <2>1. i # last  BY <1>1, <1>6
  <2>2. i \in 1 .. Len(hist) /\ E[i] = hist[i] /\ E[i].n <= written  BY <1>1, <1>6, <2>1 DEF Between
  <2>3. CASE j = last  BY <1>2, <1>3, <1>4, <1>6, <2>2, <2>3
  <2>4. CASE j # last  BY <1>1, <1>6, <2>2, <2>4 DEF Ordered
  <2> QED  BY <2>3, <2>4
<1>7. Ordered(E) /\ Between(E, cleared, written + 1)  BY <1>5, <1>6 DEF Ordered, Between, last
<1> QED  BY <1>7 DEF E

(* The newest of what can be read.                                               *)
LEMMA NewestOrder ==
    ASSUME NEW lines \in Seq(Lines), NEW low \in Nat, NEW high \in Nat,
           Ordered(lines), Between(lines, low, high),
           NEW n \in Nat, n < Len(Parsed(lines))
    PROVE  LET N == Newest(Parsed(lines), n) IN
           /\ N \in Seq(Lines) /\ Len(N) = n
           /\ Ordered(N) /\ Between(N, low, high)
           /\ \A k \in 1 .. n : N[k].readable
           /\ \A i \in 1 .. Len(lines) : lines[i].readable =>
                 \/ \E k \in 1 .. n : N[k] = lines[i]
                 \/ \A k \in 1 .. n : N[k].n > lines[i].n
<1> DEFINE P == Parsed(lines)
           N == Newest(P, n)
           off == Len(P) - n
<1>1. /\ P \in Seq(Lines)
      /\ \A k \in 1 .. Len(P) : P[k].readable /\ low < P[k].n /\ P[k].n <= high
      /\ \A j, k \in 1 .. Len(P) : j < k => P[j].n < P[k].n
      /\ \A i \in 1 .. Len(lines) : lines[i].readable => \E k \in 1 .. Len(P) : P[k] = lines[i]
  BY ParsedOrder
<1>2. Len(P) \in Nat /\ n < Len(P) /\ off \in Nat
  BY <1>1
<1>3. N \in Seq(Lines) /\ Len(N) = n /\ \A k \in 1 .. n : N[k] = P[off + k]
  <2> HIDE DEF P
  <2> QED  BY <1>1, <1>2, NewestTyped
<1>4. \A k \in 1 .. n : off + k \in 1 .. Len(P)  BY <1>2
<1> HIDE DEF P, N
<1>5. \A k \in 1 .. n : N[k].readable /\ low < N[k].n /\ N[k].n <= high
  <2> HIDE DEF off
  <2> QED  BY <1>1, <1>3, <1>4
<1>6. ASSUME NEW j \in 1 .. n, NEW k \in 1 .. n, j < k  PROVE N[j].n < N[k].n
  <2>1. off + j < off + k  BY <1>2, <1>6
  <2> HIDE DEF off
  <2> QED  BY <1>1, <1>3, <1>4, <2>1
<1>7. ASSUME NEW i \in 1 .. Len(lines), lines[i].readable
      PROVE  \/ \E k \in 1 .. n : N[k] = lines[i]
             \/ \A k \in 1 .. n : N[k].n > lines[i].n
  <2>1. PICK m \in 1 .. Len(P) : P[m] = lines[i]  BY <1>1, <1>7
  <2>2. CASE m <= off
    <3>1. \A k \in 1 .. n : m < off + k  BY <1>2, <2>2
    <3>2. \A k \in 1 .. n : P[off + k] \in Lines /\ P[m] \in Lines  BY <1>1, <1>4
    <3>3. \A k \in 1 .. n : P[m].n < P[off + k].n
      <4> HIDE DEF off
      <4> QED  BY <1>1, <1>4, <3>1
    <3>4. \A k \in 1 .. n : P[off + k].n > P[m].n
      <4> HIDE DEF off
      <4> QED  BY <3>2, <3>3 DEF Lines
    <3> HIDE DEF off
    <3> QED  BY <1>3, <2>1, <3>4
  <2>3. CASE m > off
    <3>1. m - off \in 1 .. n /\ off + (m - off) = m  BY <1>2, <2>3
    <3>2. N[m - off] = lines[i]
      <4> HIDE DEF off
      <4> QED  BY <1>3, <2>1, <3>1
    <3> QED  BY <3>1, <3>2
  <2> QED  BY <1>2, <2>2, <2>3
<1>8. Ordered(N) /\ Between(N, low, high)  BY <1>3, <1>5, <1>6 DEF Ordered, Between
<1> QED  BY <1>3, <1>5, <1>7, <1>8 DEF N, P

(* Who is about to put the newest records in place has just read them.            *)
LEMMA WhoSwaps ==
    ASSUME Types, Next, NEW r \in Sessions, pc'[r] = "swap"
    PROVE  \/ Compact(r)
           \/ pc[r] = "swap" /\ memo'[r] = memo[r]
<1> DEFINE G == Compact(r) \/ (pc[r] = "swap" /\ memo'[r] = memo[r])
<1> SUFFICES G  OBVIOUS
<1> USE DEF Types, SessionInv
<1>1. ASSUME NEW s \in Sessions, BeginCollect(s) /\ UNCHANGED <<history, logs, git>>
     PROVE  G
  BY <1>1 DEF BeginCollect, Asked, Go, End, Knows, NoFault, session
<1>2. ASSUME NEW s \in Sessions, MakeCopy(s) /\ UNCHANGED <<history, logs, git>>
     PROVE  G
  BY <1>2 DEF MakeCopy, Refused, Fault, NoFault, End, LetGo, Go, session
<1>3. ASSUME NEW s \in Sessions, DropOldest(s) /\ UNCHANGED <<history, logs, git>>
     PROVE  G
  BY <1>3 DEF DropOldest, NoFault, Fault, Go, session
<1>4. ASSUME NEW s \in Sessions, Shift(s) /\ UNCHANGED <<history, logs, git>>
     PROVE  G
  BY <1>4 DEF Shift, NoFault, Fault, Go, Renamed, session
<1>5. ASSUME NEW s \in Sessions, PlaceCopy(s) /\ UNCHANGED <<history, logs, git>>
     PROVE  G
  BY <1>5 DEF PlaceCopy, Refused, Fault, NoFault, End, LetGo, Go, session
<1>6. ASSUME NEW s \in Sessions, Replace(s) /\ UNCHANGED <<history, logs, git>>
     PROVE  G
  BY <1>6 DEF Replace, Refused, Fault, NoFault, End, LetGo, Go, NewContent, session
<1>7. ASSUME NEW s \in Sessions, BeginRecover(s) /\ UNCHANGED <<backups, logs, git>>
     PROVE  G
  BY <1>7 DEF BeginRecover, Asked, Go, Knows, NoFault, session
<1>8. ASSUME NEW s \in Sessions, Record(s) /\ UNCHANGED <<backups, logs, git>>
     PROVE  G
  BY <1>8 DEF Record, Go, End, NoFault, session
<1>9. ASSUME NEW s \in Sessions, TakeHistoryLock(s) /\ UNCHANGED <<backups, logs, git>>
     PROVE  G
  BY <1>9 DEF TakeHistoryLock, Go, NoFault, Waiting, session
<1>10. ASSUME NEW s \in Sessions, Look(s) /\ UNCHANGED <<backups, logs, git>>
     PROVE  G
  BY <1>10 DEF Look, Learns, End, Release, NoFault, Fault, Go, session
<1>11. ASSUME NEW s \in Sessions, Write(s) /\ UNCHANGED <<backups, logs, git>>
     PROVE  G
  BY <1>11 DEF Write, NotSaved, Fault, NoFault, End, Release, Learns, Go, session
<1>12. ASSUME NEW s \in Sessions, Compact(s) /\ UNCHANGED <<backups, logs, git>>
     PROVE  G
  <2>1. CASE s = r  BY <1>12, <2>1
  <2>2. CASE s # r  BY <1>12, <2>2 DEF Compact, NoFault, Fault, End, Release, Go, Knows
  <2> QED  BY <2>1, <2>2
<1>13. ASSUME NEW s \in Sessions, Swap(s) /\ UNCHANGED <<backups, logs, git>>
     PROVE  G
  BY <1>13 DEF Swap, NoFault, Fault, End, Release, session
<1>14. ASSUME NEW s \in Sessions, Inspect(s) /\ UNCHANGED <<backups, history, logs>>
     PROVE  G
  BY <1>14 DEF Inspect, Asked, Quiet, NoFault, Fault, Ends, End, Go, Knows, session
<1>15. ASSUME NEW s \in Sessions, Confirm(s) /\ UNCHANGED <<backups, history, logs>>
     PROVE  G
  BY <1>15 DEF Confirm, Quiet, NoFault, Go, Ends, End, session
<1>16. ASSUME NEW s \in Sessions, Add(s) /\ UNCHANGED <<backups, history, logs>>
     PROVE  G
  BY <1>16 DEF Add, Quiet, NoFault, Fault, GivesUp, End, Go, session
<1>17. ASSUME NEW s \in Sessions, Commit(s) /\ UNCHANGED <<backups, history, logs>>
     PROVE  G
  BY <1>17 DEF Commit, Quiet, NoFault, Fault, GivesUp, Go, Knows, Ends, End, session
<1>18. ASSUME NEW s \in Sessions, InspectAgain(s) /\ UNCHANGED <<backups, history, logs>>
     PROVE  G
  BY <1>18 DEF InspectAgain, Quiet, NoFault, Go, Ends, End, session
<1>19. ASSUME NEW s \in Sessions, Push(s) /\ UNCHANGED <<backups, history, logs>>
     PROVE  G
  BY <1>19 DEF Push, Quiet, NoFault, Fault, GivesUp, End, session
<1>20. ASSUME NEW s \in Sessions, OpenLogs(s) /\ UNCHANGED <<backups, git>>
     PROVE  G
  BY <1>20 DEF OpenLogs, Asked, NoFault, Go, session
<1>21. ASSUME NEW s \in Sessions, Refresh(s) /\ UNCHANGED <<backups, git>>
     PROVE  G
  BY <1>21 DEF Refresh, Presses, NoFault, session
<1>22. ASSUME NEW s \in Sessions, ChooseFilter(s) /\ UNCHANGED <<backups, git>>
     PROVE  G
  BY <1>22 DEF ChooseFilter, Presses, NoFault, session
<1>23. ASSUME NEW s \in Sessions, PressClear(s) /\ UNCHANGED <<backups, git>>
     PROVE  G
  BY <1>23 DEF PressClear, Presses, NoFault, Go, session
<1>24. ASSUME NEW s \in Sessions, Clear(s) /\ UNCHANGED <<backups, git>>
     PROVE  G
  BY <1>24 DEF Clear, ClearFile, NoFault, Fault, Release, Go, session
<1>25. ASSUME NEW s \in Sessions, LeaveLogs(s) /\ UNCHANGED <<backups, git>>
     PROVE  G
  BY <1>25 DEF LeaveLogs, Presses, NoFault, End, session
<1>26. ASSUME NEW s \in Sessions, Die(s)
     PROVE  G
  BY <1>26 DEF Die, Fault, LetGo, Release, session
<1>27. ASSUME NEW t \in threads, ThreadReads(t) \/ ThreadEnds(t), UNCHANGED <<backups, git>>
     PROVE  G
  BY <1>27 DEF ThreadReads, ThreadEnds, Runs, NoFault, session
<1>28. ASSUME NEW t \in threads, ThreadFails(t), UNCHANGED <<backups, git>>
     PROVE  G
  BY <1>28 DEF ThreadFails, Fault, session
<1>29. ASSUME EditorSaves
     PROVE  G
  BY <1>29 DEF EditorSaves, Saved, NewContent, session
<1>30. ASSUME UserStages /\ UNCHANGED <<backups, history, logs>>
     PROVE  G
  BY <1>30 DEF UserStages, Saved, NewContent, session
<1> QED
  BY <1>1, <1>2, <1>3, <1>4, <1>5, <1>6, <1>7, <1>8, <1>9, <1>10, <1>11, <1>12, <1>13, <1>14,
       <1>15, <1>16, <1>17, <1>18, <1>19, <1>20, <1>21, <1>22, <1>23, <1>24, <1>25, <1>26,
       <1>27, <1>28, <1>29, <1>30 DEF Next, Act, Backup, Recorder, GitStep, LogsStep, Thread

(* The history is written only by the session that has its lock.                 *)
LEMMA WhoWrites ==
    ASSUME LockInv, NEW s \in Sessions, Write(s) \/ Swap(s) \/ Clear(s)
    PROVE  hlock = s /\ \A r \in Sessions \ {s} : pc[r] \notin Recording
  BY WorkspaceAssumption DEF LockInv, Write, Swap, Clear, Recording

(* What a step makes of the lines of the history, and of what was cleared.       *)
LEMMA HistoryMoves ==
    ASSUME Types, Next
    PROVE  \/ UNCHANGED <<hist, torn, written, cleared>>
           \/ \E s \in Sessions :
                 /\ Write(s) /\ UNCHANGED cleared
                 /\ hist' \in {Extended(Line(memo[s].id, written + 1)), Extended(Garbage)}
                 /\ written' = written + 1
           \/ \E s \in Sessions :
                 Swap(s) /\ hist' = memo[s].lines /\ torn' = FALSE /\ UNCHANGED <<written, cleared>>
           \/ \E s \in Sessions :
                 Clear(s) /\ hist' = <<>> /\ torn' = FALSE /\ UNCHANGED written /\ cleared' = written
           \/ \E s \in Sessions :
                 Clear(s) /\ hist = <<>> /\ UNCHANGED <<hist, torn, written>> /\ cleared' = written
<1> DEFINE Same == UNCHANGED <<hist, torn, written, cleared>>
           Written == \E s \in Sessions :
                 /\ Write(s) /\ UNCHANGED cleared
                 /\ hist' \in {Extended(Line(memo[s].id, written + 1)), Extended(Garbage)}
                 /\ written' = written + 1
           Swapped == \E s \in Sessions :
                 Swap(s) /\ hist' = memo[s].lines /\ torn' = FALSE /\ UNCHANGED <<written, cleared>>
           Emptied == \E s \in Sessions :
                 Clear(s) /\ hist' = <<>> /\ torn' = FALSE /\ UNCHANGED written /\ cleared' = written
           Empty == \E s \in Sessions :
                 Clear(s) /\ hist = <<>> /\ UNCHANGED <<hist, torn, written>> /\ cleared' = written
           G == Same \/ Written \/ Swapped \/ Emptied \/ Empty
<1>1. ASSUME NEW s \in Sessions, BeginCollect(s) \/ Backup(s) \/ GitStep(s), UNCHANGED <<history, logs>>
      PROVE  G
  BY <1>1 DEF history, logs
<1>2. ASSUME NEW s \in Sessions, Recorder(s), UNCHANGED logs
      PROVE  G
  <2>1. CASE Write(s)
    <3>1. UNCHANGED <<hist, torn, written>> \/ Written  BY <1>2, <2>1 DEF Write, NotSaved, logs
    <3> HIDE DEF Written
    <3> QED  BY <1>2, <3>1 DEF logs
  <2>2. CASE Swap(s)
    <3>1. UNCHANGED <<hist, torn, written>> \/ Swapped  BY <1>2, <2>2 DEF Swap, logs
    <3> HIDE DEF Swapped
    <3> QED  BY <1>2, <3>1 DEF logs
  <2>3. CASE BeginRecover(s) \/ Record(s) \/ TakeHistoryLock(s) \/ Look(s) \/ Compact(s)
    <3>1. Same  BY <1>2, <2>3 DEF BeginRecover, Record, TakeHistoryLock, Look, Compact, history, logs
    <3> QED  BY <3>1
  <2> QED  BY <1>2, <2>1, <2>2, <2>3 DEF Recorder
<1>3. ASSUME NEW s \in Sessions, Clear(s)  PROVE G
  <2>1. CASE hist' = <<>> /\ torn' = FALSE
    <3>1. Emptied  BY <1>3, <2>1 DEF Clear
    <3> QED  BY <3>1
  <2>2. CASE UNCHANGED <<hist, torn>> /\ hist = <<>>
    <3>1. Empty  BY <1>3, <2>2 DEF Clear
    <3> QED  BY <3>1
  <2>3. CASE UNCHANGED <<hist, torn>> /\ hist # <<>>
    <3>1. Same  BY <1>3, <2>3 DEF Clear
    <3> QED  BY <3>1
  <2> QED  BY <1>3, <2>1, <2>2, <2>3 DEF Clear, ClearFile
<1>4. ASSUME NEW s \in Sessions, LogsStep(s), ~ Clear(s)  PROVE G
  <2>1. Same
    BY <1>4 DEF LogsStep, OpenLogs, Refresh, ChooseFilter, PressClear, LeaveLogs, Presses,
         history
  <2> QED  BY <2>1
<1>5. ASSUME \/ \E s \in Sessions : Die(s)
             \/ Thread
             \/ \E t \in threads : ThreadFails(t)
             \/ EditorSaves
             \/ UserStages /\ UNCHANGED <<backups, history, logs>>
      PROVE  G
  <2>1. Same
    BY <1>5 DEF Die, Thread, ThreadReads, ThreadEnds, ThreadFails, Runs, EditorSaves, history,
         logs
  <2> QED  BY <2>1
<1>6. G
  <2> HIDE DEF G
  <2> QED  BY <1>1, <1>2, <1>3, <1>4, <1>5 DEF Next, Act
<1> QED  BY <1>6

(* A step keeps the order: a record is appended with the next number, and the   *)
(* newest put in place of all were the newest of the lines still there, the lock of *)
(* the history having kept others out.                                          *)
LEMMA HistoryStep ==
    ASSUME Types, LockInv, ClearedInv, HistoryInv, Next
    PROVE  HistoryInv'
<1>0. /\ cleared \in Nat /\ written \in Nat /\ cleared <= written
      /\ hist \in Seq(Lines) /\ MaxRecords \in Nat
      /\ Ordered(hist) /\ Between(hist, cleared, written)
  BY HistoryAssumption DEF Types, HistoryTypes, ClearedInv, HistoryInv
<1>1. Ordered(hist)' /\ Between(hist, cleared, written)'
  <2>1. CASE UNCHANGED <<hist, torn, written, cleared>>
    BY <1>0, <2>1 DEF Ordered, Between
  <2>2. ASSUME NEW s \in Sessions, UNCHANGED cleared, written' = written + 1,
               hist' \in {Extended(Line(memo[s].id, written + 1)), Extended(Garbage)}
        PROVE  Ordered(hist)' /\ Between(hist, cleared, written)'
    <3> DEFINE line == Line(memo[s].id, written + 1)
    <3>1. line \in Lines /\ line.n = written + 1
      <4>1. memo[s].id \in Named  BY MemoTyped
      <4> QED  BY <1>0, <4>1, LineTyped DEF Line
    <3>2. Garbage \in Lines /\ Garbage.readable = FALSE  BY GarbageTyped DEF Garbage
    <3> HIDE DEF line
    <3>3. Ordered(Extended(line)) /\ Between(Extended(line), cleared, written + 1)
      BY <1>0, <3>1, ExtendedOrder
    <3>4. Ordered(Extended(Garbage)) /\ Between(Extended(Garbage), cleared, written + 1)
      BY <1>0, <3>2, ExtendedOrder
    <3>5. hist' = Extended(line) \/ hist' = Extended(Garbage)  BY <2>2 DEF line
    <3> QED  BY <2>2, <3>3, <3>4, <3>5 DEF Ordered, Between
  <2>3. ASSUME NEW s \in Sessions, Swap(s), hist' = memo[s].lines, UNCHANGED <<written, cleared>>
        PROVE  Ordered(hist)' /\ Between(hist, cleared, written)'
    <3> DEFINE N == Newest(Parsed(hist), MaxRecords)
    <3>1. hist' = N /\ MaxRecords < Len(Parsed(hist))  BY <2>3 DEF Swap, HistoryInv
    <3>2. Ordered(N) /\ Between(N, cleared, written)  BY <1>0, <3>1, NewestOrder
    <3> HIDE DEF N
    <3> QED  BY <2>3, <3>1, <3>2 DEF Ordered, Between
  <2>4. CASE hist' = <<>>
    BY <2>4 DEF Ordered, Between
  <2>5. CASE hist = <<>> /\ UNCHANGED hist
    BY <2>5 DEF Ordered, Between
  <2> QED  BY <2>1, <2>2, <2>3, <2>4, <2>5, HistoryMoves
<1>2. ASSUME NEW r \in Sessions, pc'[r] = "swap"
      PROVE  /\ memo'[r].lines = Newest(Parsed(hist'), MaxRecords)
             /\ MaxRecords < Len(Parsed(hist'))
  <2>1. CASE Compact(r)
    <3> DEFINE m == [memo[r] EXCEPT !.lines = Newest(Parsed(hist), MaxRecords)]
    <3>1. ~ (Len(Parsed(hist)) <= MaxRecords) /\ memo' = [memo EXCEPT ![r] = m] /\ hist' = hist
      BY <1>2, <2>1 DEF Compact, End, Knows, Types, SessionInv
    <3>2. m.lines = Newest(Parsed(hist), MaxRecords)  BY MemoTyped DEF Memos
    <3> HIDE DEF m
    <3>3. memo'[r].lines = Newest(Parsed(hist), MaxRecords)  BY <3>1, <3>2 DEF Types, SessionInv
    <3>4. Parsed(hist) \in Seq(Lines)  BY <1>0, ParsedTyped
    <3>5. MaxRecords < Len(Parsed(hist))  BY <1>0, <3>1, <3>4
    <3> QED  BY <3>1, <3>3, <3>5
  <2>2. CASE pc[r] = "swap" /\ memo'[r] = memo[r]
    <3>1. hist' = hist
      <4>1. \A s \in Sessions \ {r} : ~ (Write(s) \/ Swap(s) \/ Clear(s))
        BY <2>2, WhoWrites DEF Recording
      <4>2. ~ (Write(r) \/ Clear(r))  BY <2>2 DEF Write, Clear
      <4>3. Swap(r) => pc'[r] = "idle"  BY DEF Swap, End, Types, SessionInv
      <4> QED  BY <1>2, <4>1, <4>2, <4>3, HistoryMoves
    <3> QED  BY <2>2, <3>1 DEF HistoryInv
  <2> QED  BY <1>2, <2>1, <2>2, WhoSwaps
<1> QED  BY <1>1, <1>2 DEF HistoryInv

(* What becomes of a record that can be read.                                    *)
RecordsStayNow ==
    \A i \in DOMAIN hist : hist[i].readable /\ ~(torn /\ i = Len(hist)) =>
          \/ hist[i] \in ToSet(hist')
          \/ \E s \in Sessions : pc[s] = "clear" /\ pc'[s] # "clear"
          \/ Cardinality({j \in DOMAIN hist' : hist'[j].readable /\ hist'[j].n > hist[i].n})
                 >= MaxRecords

(* A record that can be read stays, or is cleared, or has as many newer ones after *)
(* it as the history may hold.                                                  *)
LEMMA RecordsStayStep ==
    ASSUME Types, LockInv, ClearedInv, HistoryInv, Next
    PROVE  RecordsStayNow
<1>0. /\ cleared \in Nat /\ written \in Nat /\ cleared <= written
      /\ HistoryTypes /\ hist \in Seq(Lines) /\ MaxRecords \in Nat
      /\ Ordered(hist) /\ Between(hist, cleared, written)
  BY HistoryAssumption DEF Types, HistoryTypes, ClearedInv, HistoryInv
<1> DEFINE Stays(i) ==
          \/ hist[i] \in ToSet(hist')
          \/ \E s \in Sessions : pc[s] = "clear" /\ pc'[s] # "clear"
          \/ Cardinality({j \in DOMAIN hist' : hist'[j].readable /\ hist'[j].n > hist[i].n})
                 >= MaxRecords
<1> SUFFICES ASSUME NEW i \in 1 .. Len(hist), hist[i].readable, ~(torn /\ i = Len(hist))
             PROVE  Stays(i)
  BY <1>0 DEF RecordsStayNow
<1>1. CASE UNCHANGED hist
  BY <1>0, <1>1 DEF ToSet
<1>2. ASSUME NEW s \in Sessions, hist' \in {Extended(Line(memo[s].id, written + 1)), Extended(Garbage)}
      PROVE  Stays(i)
  <2>1. PICK line \in Lines : hist' = Extended(line)
    <3>1. memo[s].id \in Named  BY MemoTyped
    <3>2. Line(memo[s].id, written + 1) \in Lines  BY <1>0, <3>1, LineTyped
    <3> QED  BY <1>2, <3>2, GarbageTyped
  <2>2. /\ hist' \in Seq(Lines) /\ hist'[i] = hist[i]
        /\ Len(hist') = IF torn THEN Len(hist) ELSE Len(hist) + 1
    BY <1>0, <2>1, ExtendedTyped
  <2>3. i \in 1 .. Len(hist')  BY <1>0, <2>2
  <2>4. hist[i] \in ToSet(hist')  BY <2>2, <2>3 DEF ToSet
  <2> QED  BY <2>4
<1>3. ASSUME NEW s \in Sessions, Swap(s), hist' = memo[s].lines  PROVE Stays(i)
  <2> DEFINE N == Newest(Parsed(hist), MaxRecords)
  <2>1. hist' = N /\ MaxRecords < Len(Parsed(hist))  BY <1>3 DEF Swap, HistoryInv
  <2>2. /\ N \in Seq(Lines) /\ Len(N) = MaxRecords
        /\ \A k \in 1 .. MaxRecords : N[k].readable
        /\ \/ \E k \in 1 .. MaxRecords : N[k] = hist[i]
           \/ \A k \in 1 .. MaxRecords : N[k].n > hist[i].n
    BY <1>0, <2>1, NewestOrder
  <2> HIDE DEF N
  <2>3. DOMAIN hist' = 1 .. MaxRecords  BY <2>1, <2>2
  <2>4. CASE \E k \in 1 .. MaxRecords : N[k] = hist[i]
    <3>1. hist[i] \in ToSet(hist')  BY <2>1, <2>3, <2>4 DEF ToSet
    <3> QED  BY <3>1
  <2>5. CASE \A k \in 1 .. MaxRecords : N[k].n > hist[i].n
    <3> DEFINE W == {j \in DOMAIN hist' : hist'[j].readable /\ hist'[j].n > hist[i].n}
    <3>1. W = 1 .. MaxRecords  BY <2>1, <2>2, <2>3, <2>5
    <3>2. Cardinality(1 .. MaxRecords) = MaxRecords
      <4>1. 1 \in Int /\ MaxRecords \in Int  BY <1>0
      <4>2. Cardinality(1 .. MaxRecords) = IF 1 > MaxRecords THEN 0 ELSE MaxRecords - 1 + 1
        BY ONLY <4>1, FS_Interval
      <4> QED  BY <1>0, <4>2
    <3> HIDE DEF W
    <3>3. Cardinality(W) >= MaxRecords  BY <1>0, <3>1, <3>2
    <3> USE DEF W
    <3> QED  BY <3>3
  <2> QED  BY <2>2, <2>4, <2>5
<1>4. ASSUME NEW s \in Sessions, Clear(s)  PROVE Stays(i)
  <2>1. pc[s] = "clear" /\ pc'[s] = "logs"  BY <1>4 DEF Clear, Go, Types, SessionInv
  <2> QED  BY <2>1
<1> HIDE DEF Stays
<1> QED  BY <1>1, <1>2, <1>3, <1>4, HistoryMoves

(* What the screen shows when it has a filter.                                   *)
Shown(rows, filter) ==
    /\ rows \in Seq(Lines)
    /\ \A k \in 1 .. Len(rows) : rows[k].n > cleared /\ filter \in {All, rows[k].id[1]}

Screens == [open : BOOLEAN, ready : BOOLEAN, busy : BOOLEAN, filter : Filters,
            rows : Seq(Lines), load : Nat]
Threads == [load : Nat, filter : Filters, rows : Seq(Lines)]

(* The screen, and the loads it has started.                                    *)
LogsInv ==
    /\ screen \in Screens /\ threads \subseteq Threads
    /\ \A t \in threads : t.load <= screen.load
    /\ Shown(screen.rows, screen.filter)
    /\ \A t \in threads : screen.open /\ t.load = screen.load =>
          t.filter = screen.filter /\ (t.rows = Unread \/ Shown(t.rows, t.filter))

(* A load that reads the history finds the rows its filter lets through.         *)
LEMMA RecentIsShown ==
    ASSUME Types, ClearedInv, HistoryInv, NEW filter \in Filters
    PROVE  Shown(Recent(filter), filter)
<1> DEFINE P == Parsed(hist)
           R == Reverse(P)
           L == {l \in ToSet(P) : filter \in {All, l.id[1]}}
           S == Picked(R, L)
           m == IF Len(S) < Limit THEN Len(S) ELSE Limit
<1>0. hist \in Seq(Lines) /\ cleared \in Nat /\ written \in Nat /\ Limit \in Nat
  BY HistoryAssumption DEF Types, HistoryTypes, ClearedInv
<1>1. P \in Seq(Lines) /\ \A k \in 1 .. Len(P) : P[k].n > cleared
  <2>1. /\ P \in Seq(Lines)
        /\ \A k \in 1 .. Len(P) : P[k].readable /\ cleared < P[k].n /\ P[k].n <= written
    BY <1>0, ParsedOrder DEF HistoryInv
  <2> HIDE DEF P
  <2>2. \A k \in 1 .. Len(P) : P[k] \in Lines  BY <2>1
  <2> QED  BY <1>0, <2>1, <2>2 DEF Lines
<1> HIDE DEF P
<1>2. R \in Seq(Lines)  BY <1>1 DEF Reverse
<1>3. \A l \in L : l.n > cleared /\ filter \in {All, l.id[1]}  BY <1>1 DEF ToSet
<1> HIDE DEF R, L
<1>4. S \in Seq(Lines) /\ \E g : Stood(g, S, R, L, Len(R))  BY <1>2, PickedIsPicked
<1> HIDE DEF S
<1>5. \A k \in 1 .. Len(S) : S[k] \in L  BY <1>4 DEF Stood
<1>6. m \in Nat /\ m <= Len(S)  BY <1>0, <1>4
<1>7. /\ SubSeq(S, 1, m) \in Seq(Lines) /\ Len(SubSeq(S, 1, m)) = m
      /\ \A k \in 1 .. m : SubSeq(S, 1, m)[k] = S[k]
  <2> HIDE DEF m
  <2>1. CASE m = 0
    <3>1. SubSeq(S, 1, m) = <<>>  BY <1>4, <2>1
    <3> QED  BY <2>1, <3>1
  <2>2. CASE m # 0
    <3>1. 1 \in 1 .. Len(S) + 1 /\ m \in 0 .. Len(S) /\ 1 <= m  BY <1>4, <1>6, <2>2
    <3> QED  BY <1>4, <1>6, <3>1, SubSeqProperties
  <2> QED  BY <2>1, <2>2
<1>8. Recent(filter) = SubSeq(S, 1, m)  BY DEF Recent, S, R, L, P
<1> HIDE DEF m
<1>9. Shown(SubSeq(S, 1, m), filter)
  <2>1. \A k \in 1 .. m : k \in 1 .. Len(S)  BY <1>4, <1>6
  <2> QED  BY <1>3, <1>5, <1>6, <1>7, <2>1 DEF Shown
<1> QED  BY <1>8, <1>9

(* A new load empties the table, and is the only one listened to.                *)
LEMMA LoadingKeeps ==
    ASSUME LogsInv, cleared' \in Nat, NEW v \in Screens, Loading(v)
    PROVE  LogsInv'
<1> DEFINE n == screen.load + 1
           new == [load |-> n, filter |-> v.filter, rows |-> Unread]
<1>1. screen.load \in Nat /\ n \in Nat /\ v.filter \in Filters  BY DEF LogsInv, Screens
<1>2. screen' = [v EXCEPT !.busy = TRUE, !.rows = <<>>, !.load = n]
      /\ threads' = threads \cup {new}
  BY DEF Loading
<1>3. screen' \in Screens /\ screen'.rows = <<>> /\ screen'.filter = v.filter /\ screen'.load = n
  <2> DEFINE w == [v EXCEPT !.busy = TRUE, !.rows = <<>>, !.load = n]
  <2>1. <<>> \in Seq(Lines)  OBVIOUS
  <2> HIDE DEF n
  <2>2. w \in Screens /\ w.rows = <<>> /\ w.filter = v.filter /\ w.load = n
    BY <1>1, <2>1 DEF Screens
  <2> HIDE DEF w
  <2>3. screen' = w  BY <1>2 DEF w
  <2> QED  BY <2>2, <2>3
<1>4. Unread \in Seq(Lines)
  <2>1. Garbage \in Lines  BY GarbageTyped
  <2> QED  BY <2>1 DEF Unread
<1>5. new \in Threads  BY <1>1, <1>4 DEF Threads
<1>6. \A t \in threads : t \in Threads /\ t.load <= screen.load /\ t.load < n
  BY <1>1 DEF LogsInv, Threads
<1>7. \A t \in threads' : t.load <= n  BY <1>1, <1>2, <1>6 DEF Threads
<1>8. Shown(screen.rows, screen.filter)'  BY <1>3 DEF Shown
<1>9. \A t \in threads' : t.load = n => t.filter = v.filter /\ t.rows = Unread
  BY <1>1, <1>2, <1>6 DEF Threads
<1>10. threads' \subseteq Threads  BY <1>2, <1>5, <1>6
<1> QED  BY <1>3, <1>7, <1>8, <1>9, <1>10 DEF LogsInv

(* The screen is not changed by what the commands do.                           *)
LEMMA LogsStay ==
    ASSUME LogsInv, UNCHANGED logs  PROVE LogsInv'
  BY DEF LogsInv, Shown, logs

(* Threads that end leave the screen alone, unless it listens to them.           *)
LEMMA ScreenKeeps ==
    ASSUME LogsInv, threads' \subseteq threads, UNCHANGED cleared, screen' \in Screens,
           screen'.load = screen.load, screen'.open => screen.open,
           screen'.filter = screen.filter \/ ~screen'.open,
           Shown(screen'.rows, screen'.filter)
    PROVE  LogsInv'
<1>1. Shown(screen.rows, screen.filter)'  BY DEF Shown
<1>2. \A t \in threads' : t \in threads  OBVIOUS
<1>3. \A t \in threads' : screen'.open /\ t.load = screen'.load =>
          t.filter = screen'.filter /\ (t.rows = Unread \/ Shown(t.rows, t.filter)')
  BY <1>2 DEF LogsInv, Shown
<1>4. threads' \subseteq Threads /\ \A t \in threads' : t.load <= screen'.load
  BY <1>2 DEF LogsInv
<1> QED  BY <1>1, <1>3, <1>4 DEF LogsInv, Shown

(* A thread has read rows that its filter lets through.                         *)
LEMMA ThreadKeeps ==
    ASSUME LogsInv, NEW t \in threads, NEW rows, Shown(rows, t.filter),
           threads' = (threads \ {t}) \cup {[t EXCEPT !.rows = rows]},
           UNCHANGED <<screen, cleared>>
    PROVE  LogsInv'
<1> DEFINE u == [t EXCEPT !.rows = rows]
<1>1. t \in Threads /\ t.load <= screen.load  BY DEF LogsInv
<1>2. u \in Threads /\ u.load = t.load /\ u.filter = t.filter /\ u.rows = rows
  BY <1>1 DEF Threads, Shown
<1>3. threads' = (threads \ {t}) \cup {u}  OBVIOUS
<1> HIDE DEF u
<1>4. \A w \in threads' : w \in threads \/ w = u  BY <1>3
<1>5. threads' \subseteq Threads /\ \A w \in threads' : w.load <= screen.load
  BY <1>1, <1>2, <1>4 DEF LogsInv
<1>6. \A w \in threads' : screen.open /\ w.load = screen.load =>
          w.filter = screen.filter /\ (w.rows = Unread \/ Shown(w.rows, w.filter))
  BY <1>2, <1>4 DEF LogsInv
<1> QED  BY <1>5, <1>6 DEF LogsInv, Shown

(* Whatever is loaded, overtaken, cleared or left, the screen and the load it waits *)
(* for agree on the filter, and neither has a row that was cleared.             *)
LEMMA LogsInvStep ==
    ASSUME Types, ClearedInv, HistoryInv, LogsInv, Next  PROVE LogsInv'
<1> USE DEF logs
<1>0. screen \in Screens /\ Closed \in Screens /\ cleared \in Nat /\ written \in Nat
  <2>1. All \in Filters  BY DEF Filters
  <2>2. Closed \in Screens  BY <2>1 DEF Closed, Screens
  <2> QED  BY <2>2 DEF Types, HistoryTypes, ClearedInv, LogsInv
<1>1. ASSUME NEW s \in Sessions, BeginCollect(s) /\ UNCHANGED <<history, logs, git>>
     PROVE  LogsInv'
  <2>1. UNCHANGED logs  BY <1>1 DEF BeginCollect, Asked, Go, End, Knows, NoFault, session, history, workspace
  <2> QED  BY <2>1, LogsStay
<1>2. ASSUME NEW s \in Sessions, MakeCopy(s) /\ UNCHANGED <<history, logs, git>>
     PROVE  LogsInv'
  <2>1. UNCHANGED logs  BY <1>2 DEF MakeCopy, Refused, Fault, NoFault, End, LetGo, Go, session, history, workspace
  <2> QED  BY <2>1, LogsStay
<1>3. ASSUME NEW s \in Sessions, DropOldest(s) /\ UNCHANGED <<history, logs, git>>
     PROVE  LogsInv'
  <2>1. UNCHANGED logs  BY <1>3 DEF DropOldest, NoFault, Fault, Go, session, history, workspace
  <2> QED  BY <2>1, LogsStay
<1>4. ASSUME NEW s \in Sessions, Shift(s) /\ UNCHANGED <<history, logs, git>>
     PROVE  LogsInv'
  <2>1. UNCHANGED logs  BY <1>4 DEF Shift, NoFault, Fault, Go, Renamed, session, history, workspace
  <2> QED  BY <2>1, LogsStay
<1>5. ASSUME NEW s \in Sessions, PlaceCopy(s) /\ UNCHANGED <<history, logs, git>>
     PROVE  LogsInv'
  <2>1. UNCHANGED logs  BY <1>5 DEF PlaceCopy, Refused, Fault, NoFault, End, LetGo, Go, session, history, workspace
  <2> QED  BY <2>1, LogsStay
<1>6. ASSUME NEW s \in Sessions, Replace(s) /\ UNCHANGED <<history, logs, git>>
     PROVE  LogsInv'
  <2>1. UNCHANGED logs  BY <1>6 DEF Replace, Refused, Fault, NoFault, End, LetGo, Go, NewContent, session, history, workspace
  <2> QED  BY <2>1, LogsStay
<1>7. ASSUME NEW s \in Sessions, BeginRecover(s) /\ UNCHANGED <<backups, logs, git>>
     PROVE  LogsInv'
  <2>1. UNCHANGED logs  BY <1>7 DEF BeginRecover, Asked, Go, Knows, NoFault, session, history, workspace
  <2> QED  BY <2>1, LogsStay
<1>8. ASSUME NEW s \in Sessions, Record(s) /\ UNCHANGED <<backups, logs, git>>
     PROVE  LogsInv'
  <2>1. UNCHANGED logs  BY <1>8 DEF Record, Go, End, NoFault, session, history, workspace
  <2> QED  BY <2>1, LogsStay
<1>9. ASSUME NEW s \in Sessions, TakeHistoryLock(s) /\ UNCHANGED <<backups, logs, git>>
     PROVE  LogsInv'
  <2>1. UNCHANGED logs  BY <1>9 DEF TakeHistoryLock, Go, NoFault, Waiting, session, history, workspace
  <2> QED  BY <2>1, LogsStay
<1>10. ASSUME NEW s \in Sessions, Look(s) /\ UNCHANGED <<backups, logs, git>>
     PROVE  LogsInv'
  <2>1. UNCHANGED logs  BY <1>10 DEF Look, Learns, End, Release, NoFault, Fault, Go, session, history, workspace
  <2> QED  BY <2>1, LogsStay
<1>11. ASSUME NEW s \in Sessions, Write(s) /\ UNCHANGED <<backups, logs, git>>
     PROVE  LogsInv'
  <2>1. UNCHANGED logs  BY <1>11 DEF Write, NotSaved, Fault, NoFault, End, Release, Learns, Go, session, history, workspace
  <2> QED  BY <2>1, LogsStay
<1>12. ASSUME NEW s \in Sessions, Compact(s) /\ UNCHANGED <<backups, logs, git>>
     PROVE  LogsInv'
  <2>1. UNCHANGED logs  BY <1>12 DEF Compact, NoFault, Fault, End, Release, Go, Knows, session, history, workspace
  <2> QED  BY <2>1, LogsStay
<1>13. ASSUME NEW s \in Sessions, Swap(s) /\ UNCHANGED <<backups, logs, git>>
     PROVE  LogsInv'
  <2>1. UNCHANGED logs  BY <1>13 DEF Swap, NoFault, Fault, End, Release, session, history, workspace
  <2> QED  BY <2>1, LogsStay
<1>14. ASSUME NEW s \in Sessions, Inspect(s) /\ UNCHANGED <<backups, history, logs>>
     PROVE  LogsInv'
  <2>1. UNCHANGED logs  BY <1>14 DEF Inspect, Asked, Quiet, NoFault, Fault, Ends, End, Go, Knows, session, history, workspace
  <2> QED  BY <2>1, LogsStay
<1>15. ASSUME NEW s \in Sessions, Confirm(s) /\ UNCHANGED <<backups, history, logs>>
     PROVE  LogsInv'
  <2>1. UNCHANGED logs  BY <1>15 DEF Confirm, Quiet, NoFault, Go, Ends, End, session, history, workspace
  <2> QED  BY <2>1, LogsStay
<1>16. ASSUME NEW s \in Sessions, Add(s) /\ UNCHANGED <<backups, history, logs>>
     PROVE  LogsInv'
  <2>1. UNCHANGED logs  BY <1>16 DEF Add, Quiet, NoFault, Fault, GivesUp, End, Go, session, history, workspace
  <2> QED  BY <2>1, LogsStay
<1>17. ASSUME NEW s \in Sessions, Commit(s) /\ UNCHANGED <<backups, history, logs>>
     PROVE  LogsInv'
  <2>1. UNCHANGED logs  BY <1>17 DEF Commit, Quiet, NoFault, Fault, GivesUp, Go, Knows, Ends, End, session, history, workspace
  <2> QED  BY <2>1, LogsStay
<1>18. ASSUME NEW s \in Sessions, InspectAgain(s) /\ UNCHANGED <<backups, history, logs>>
     PROVE  LogsInv'
  <2>1. UNCHANGED logs  BY <1>18 DEF InspectAgain, Quiet, NoFault, Go, Ends, End, session, history, workspace
  <2> QED  BY <2>1, LogsStay
<1>19. ASSUME NEW s \in Sessions, Push(s) /\ UNCHANGED <<backups, history, logs>>
     PROVE  LogsInv'
  <2>1. UNCHANGED logs  BY <1>19 DEF Push, Quiet, NoFault, Fault, GivesUp, End, session, history, workspace
  <2> QED  BY <2>1, LogsStay
<1>20. ASSUME NEW s \in Sessions, OpenLogs(s) /\ UNCHANGED <<backups, git>>
     PROVE  LogsInv'
  <2> DEFINE v == [Closed EXCEPT !.open = TRUE]
  <2>1. v \in Screens  BY <1>0 DEF Screens
  <2>2. Loading(v) /\ cleared' = cleared  BY <1>20 DEF OpenLogs
  <2> HIDE DEF v
  <2> QED  BY <1>0, <2>1, <2>2, LoadingKeeps
<1>21. ASSUME NEW s \in Sessions, Refresh(s) /\ UNCHANGED <<backups, git>>
     PROVE  LogsInv'
  <2>1. Loading(screen) /\ cleared' = cleared  BY <1>21 DEF Refresh, Presses
  <2> QED  BY <1>0, <2>1, LoadingKeeps
<1>22. ASSUME NEW s \in Sessions, ChooseFilter(s) /\ UNCHANGED <<backups, git>>
     PROVE  LogsInv'
  <2>1. PICK f \in Filters : Loading([screen EXCEPT !.filter = f])  BY <1>22 DEF ChooseFilter
  <2> DEFINE v == [screen EXCEPT !.filter = f]
  <2>2. v \in Screens  BY <1>0 DEF Screens
  <2>3. Loading(v) /\ cleared' = cleared  BY <1>22, <2>1 DEF ChooseFilter, Presses
  <2> HIDE DEF v
  <2> QED  BY <1>0, <2>2, <2>3, LoadingKeeps
<1>23. ASSUME NEW s \in Sessions, PressClear(s) /\ UNCHANGED <<backups, git>>
     PROVE  LogsInv'
  <2>1. UNCHANGED logs  BY <1>23 DEF PressClear, Presses, NoFault, Go, session, history, workspace
  <2> QED  BY <2>1, LogsStay
<1>24. ASSUME NEW s \in Sessions, Clear(s) /\ UNCHANGED <<backups, git>>
     PROVE  LogsInv'
  <2>1. Loading(screen) /\ cleared' \in Nat  BY <1>24, <1>0 DEF Clear
  <2> QED  BY <1>0, <2>1, LoadingKeeps
<1>25. ASSUME NEW s \in Sessions, LeaveLogs(s) /\ UNCHANGED <<backups, git>>
     PROVE  LogsInv'
  <2> DEFINE v == [Closed EXCEPT !.load = screen.load]
  <2>1. screen' = v /\ threads' = threads /\ cleared' = cleared  BY <1>25 DEF LeaveLogs, Presses
  <2>2. v \in Screens /\ v.load = screen.load /\ v.open = FALSE /\ v.rows = <<>>
    <3>1. Closed.rows = <<>> /\ Closed.open = FALSE  BY DEF Closed
    <3>2. screen.load \in Nat  BY <1>0 DEF Screens
    <3> QED  BY <1>0, <3>1, <3>2 DEF Screens
  <2> HIDE DEF v
  <2>3. Shown(v.rows, v.filter)  BY <2>2 DEF Shown
  <2>4. Shown(screen'.rows, screen'.filter)  BY <2>1, <2>3
  <2> QED  BY <2>1, <2>2, <2>4, ScreenKeeps
<1>26. ASSUME NEW s \in Sessions, Die(s)
     PROVE  LogsInv'
  <2>1. UNCHANGED logs  BY <1>26 DEF Die, Fault, LetGo, Release, session, history, workspace
  <2> QED  BY <2>1, LogsStay
<1>27. ASSUME NEW t \in threads, ThreadReads(t) \/ ThreadEnds(t), UNCHANGED <<backups, git>>
     PROVE  LogsInv'
  <2>1. CASE ThreadReads(t)
    <3>1. screen' = screen /\ cleared' = cleared
          /\ threads' = (threads \ {t}) \cup {[t EXCEPT !.rows = Recent(t.filter)]}
      BY <2>1 DEF ThreadReads, Runs
    <3>2. Shown(Recent(t.filter), t.filter)  BY RecentIsShown DEF LogsInv, Threads
    <3> QED  BY <3>1, <3>2, ThreadKeeps
  <2>2. CASE ThreadEnds(t)
    <3>1. t.rows # Unread /\ cleared' = cleared /\ threads' \subseteq threads
      BY <2>2 DEF ThreadEnds, Runs
    <3>2. CASE screen.open /\ screen.load = t.load
      <4> DEFINE v == [screen EXCEPT !.busy = FALSE, !.ready = TRUE, !.rows = t.rows]
      <4>1. screen' = v  BY <2>2, <3>2 DEF ThreadEnds
      <4>2. t.filter = screen.filter /\ Shown(t.rows, screen.filter)  BY <3>1, <3>2 DEF LogsInv
      <4>3. /\ v \in Screens /\ v.rows = t.rows /\ v.filter = screen.filter
            /\ v.load = screen.load /\ v.open = screen.open
        BY <1>0, <4>2 DEF Screens, Shown
      <4> HIDE DEF v
      <4>4. Shown(screen'.rows, screen'.filter)  BY <4>1, <4>2, <4>3
      <4> QED  BY <3>1, <4>1, <4>3, <4>4, ScreenKeeps
    <3>3. CASE ~ (screen.open /\ screen.load = t.load)
      <4>1. screen' = screen  BY <2>2, <3>3 DEF ThreadEnds
      <4>2. Shown(screen'.rows, screen'.filter)  BY <4>1 DEF LogsInv
      <4> QED  BY <1>0, <3>1, <4>1, <4>2, ScreenKeeps
    <3> QED  BY <3>2, <3>3
  <2> QED  BY <1>27, <2>1, <2>2
<1>28. ASSUME NEW t \in threads, ThreadFails(t), UNCHANGED <<backups, git>>
     PROVE  LogsInv'
  <2>1. CASE UNCHANGED screen /\ threads' = (threads \ {t}) \cup {[t EXCEPT !.rows = <<>>]}
    <3>1. Shown(<<>>, t.filter) /\ cleared' = cleared  BY <1>28 DEF ThreadFails, Shown
    <3> QED  BY <2>1, <3>1, ThreadKeeps
  <2>2. CASE /\ threads' = threads \ {t} /\ cleared' = cleared
             /\ screen' \in {screen, [screen EXCEPT !.busy = FALSE]}
    <3>1. cleared' = cleared /\ threads' \subseteq threads
          /\ (screen' = screen \/ screen' = [screen EXCEPT !.busy = FALSE])
      BY <2>2 DEF history
    <3>2. /\ screen' \in Screens /\ screen'.load = screen.load /\ screen'.open = screen.open
          /\ screen'.filter = screen.filter /\ screen'.rows = screen.rows
      <4>1. CASE screen' = screen  BY <1>0, <4>1
      <4>2. CASE screen' = [screen EXCEPT !.busy = FALSE]  BY <1>0, <4>2 DEF Screens
      <4> QED  BY <3>1, <4>1, <4>2
    <3>3. Shown(screen'.rows, screen'.filter)  BY <3>2 DEF LogsInv
    <3> QED  BY <3>1, <3>2, <3>3, ScreenKeeps
  <2> QED  BY <1>28, <2>1, <2>2 DEF ThreadFails
<1>29. ASSUME EditorSaves
     PROVE  LogsInv'
  <2>1. UNCHANGED logs  BY <1>29 DEF EditorSaves, Saved, NewContent, session, history, workspace
  <2> QED  BY <2>1, LogsStay
<1>30. ASSUME UserStages /\ UNCHANGED <<backups, history, logs>>
     PROVE  LogsInv'
  <2>1. UNCHANGED logs  BY <1>30 DEF UserStages, Saved, NewContent, session, history, workspace
  <2> QED  BY <2>1, LogsStay
<1> QED
  BY <1>1, <1>2, <1>3, <1>4, <1>5, <1>6, <1>7, <1>8, <1>9, <1>10, <1>11, <1>12, <1>13, <1>14,
       <1>15, <1>16, <1>17, <1>18, <1>19, <1>20, <1>21, <1>22, <1>23, <1>24, <1>25, <1>26,
       <1>27, <1>28, <1>29, <1>30 DEF Next, Act, Backup, Recorder, GitStep, LogsStep, Thread

(* The inductive invariant of the history and its screen.                       *)
RecordsInv == AftermathInv /\ HistoryInv /\ LogsInv

(* The history starts in order, and the screen closed.                          *)
LEMMA RecordsInit ==
    ASSUME Init  PROVE HistoryInv /\ LogsInv
<1>1. /\ hist = [i \in 1 .. Len(OldHistory) |-> Line(OldHistory[i], i)]
      /\ written = Len(OldHistory) /\ cleared = 0 /\ screen = Closed /\ threads = {}
      /\ \A s \in Sessions : pc[s] = "idle"
  BY DEF Init, InitHistory, InitLogs, InitWorkspace
<1>2. Len(OldHistory) \in Nat  BY HistoryAssumption
<1>3. Len(hist) = Len(OldHistory) /\ \A i \in 1 .. Len(hist) : hist[i].n = i
  BY <1>1, <1>2 DEF Line
<1>4. Ordered(hist) /\ Between(hist, cleared, written)
  BY <1>1, <1>2, <1>3 DEF Ordered, Between
<1>5. All \in Filters  BY DEF Filters
<1>6. Closed \in Screens /\ Closed.rows = <<>>  BY <1>5 DEF Closed, Screens
<1>7. Shown(screen.rows, screen.filter)  BY <1>1, <1>6 DEF Shown
<1>8. LogsInv  BY <1>1, <1>6, <1>7 DEF LogsInv
<1> QED  BY <1>1, <1>4, <1>8 DEF HistoryInv

(* The lines stay in their order, and the screen shows what its filter lets      *)
(* through of what it has not cleared.                                           *)
THEOREM RecordsHold == Spec => []RecordsInv
<1>1. Init => HistoryInv /\ LogsInv  BY RecordsInit
<1>2. AftermathInv /\ HistoryInv /\ LogsInv /\ [Next]_vars => (HistoryInv /\ LogsInv)'
  <2> SUFFICES ASSUME AftermathInv, HistoryInv, LogsInv, [Next]_vars
               PROVE  HistoryInv' /\ LogsInv'
    OBVIOUS
  <2>1. CASE Next
    <3>1. Types /\ LockInv /\ ClearedInv  BY DEF AftermathInv
    <3> QED  BY <2>1, <3>1, HistoryStep, LogsInvStep
  <2>2. CASE UNCHANGED vars
    <3>1. UNCHANGED <<hist, written, cleared, pc, memo>> /\ UNCHANGED logs
      BY <2>2 DEF vars, session, history, logs
    <3>2. HistoryInv'  BY <3>1 DEF HistoryInv, Ordered, Between
    <3> QED  BY <3>1, <3>2, LogsStay
  <2> QED  BY <2>1, <2>2
<1> QED  BY <1>1, <1>2, AftermathHolds, PTL DEF Spec, RecordsInv

(* The records that can be read are in the order of their operations.            *)
THEOREM InOrderHolds == Spec => []InOrder
<1>1. RecordsInv => InOrder
  <2> SUFFICES ASSUME RecordsInv  PROVE InOrder
    OBVIOUS
  <2>1. hist \in Seq(Lines)  BY DEF RecordsInv, AftermathInv, Types, HistoryTypes
  <2> QED  BY <2>1 DEF RecordsInv, HistoryInv, Ordered, InOrder
<1> QED  BY <1>1, RecordsHold, PTL

(* Only what the user clears, or newer records push out, leaves the history.     *)
THEOREM RecordsStayHolds == Spec => RecordsStay
<1>1. RecordsInv /\ [Next]_vars => [RecordsStayNow]_<<history, pc>>
  <2> SUFFICES ASSUME RecordsInv, [Next]_vars  PROVE [RecordsStayNow]_<<history, pc>>
    OBVIOUS
  <2>1. CASE Next  BY <2>1, RecordsStayStep DEF RecordsInv, AftermathInv
  <2>2. CASE UNCHANGED vars  BY <2>2 DEF vars, session
  <2> QED  BY <2>1, <2>2
<1> QED  BY <1>1, RecordsHold, PTL DEF Spec, RecordsStay, RecordsStayNow

(* The rows of the screen are those its filter lets through.                     *)
THEOREM RowsMatchFilterHolds == Spec => []RowsMatchFilter
<1>1. RecordsInv => RowsMatchFilter
  BY DEF RecordsInv, LogsInv, Shown, RowsMatchFilter, ToSet
<1> QED  BY <1>1, RecordsHold, PTL

(* What the screen has cleared it does not show again.                           *)
THEOREM ClearedStaysAwayHolds == Spec => []ClearedStaysAway
<1>1. RecordsInv => ClearedStaysAway
  BY DEF RecordsInv, LogsInv, Shown, ClearedStaysAway, ToSet
<1> QED  BY <1>1, RecordsHold, PTL
=============================================================================

--------------------------- MODULE OperationHistory ---------------------------
(***************************************************************************)
(* The operation history: one file of lines shared by all sessions,        *)
(* appended to, compacted and removed under a lock of its own that is      *)
(* waited for.  A record is identified by what was done to what and how it *)
(* ended, without the time, and a session remembers the identities it has  *)
(* seen; so an operation that repeats an earlier one is not recorded.      *)
(***************************************************************************)
EXTENDS WorkspaceFiles, SequencesExt

CONSTANTS
    MaxRecords, Limit,   \* MAX_HISTORY_RECORDS; how many a screen asks for
    OldHistory,          \* the identities recorded by earlier sessions
    Recoveries           \* how a recovery may end

\* build_recovery_operation_report: what a recovery is reported as.
Reported == [recovered |-> "completed", recovered_with_warnings |-> "completed_with_warnings",
             conflicted |-> "stopped_safely", recovery_incomplete |-> "recovery_required",
             cleanup_completed |-> "completed", discarded |-> "completed", failed |-> "failed"]

Identities == {"pull", "recover"} \X Nat \X {Reported[how] : how \in DOMAIN Reported}

ASSUME HistoryAssumption == /\ MaxRecords \in Nat \ {0} /\ Limit \in Nat \ {0}
                            /\ Recoveries \subseteq DOMAIN Reported
                            /\ OldHistory \in Seq(Identities)

VARIABLES
    hist,                \* operation-history.jsonl
    torn,                \* its last line has no end
    written,             \* how many records were ever written
    hlock,               \* the session that holds the history lock
    seen                 \* _session_record_ids

history == <<hist, torn, written, hlock, seen>>

Waiting   == {"wait", "wait_clear"}
Recording == {"look", "write", "compact", "swap", "clear"}

Line(id, n) == [id |-> id, n |-> n, readable |-> TRUE]
Garbage     == [id |-> <<>>, n |-> 0, readable |-> FALSE]

\* Those of the lines that are in L, in their order.
Picked(lines, L) ==
    LET picked[n \in 0 .. Len(lines)] ==
            IF n = 0 THEN <<>>
            ELSE IF lines[n] \in L THEN Append(picked[n - 1], lines[n]) ELSE picked[n - 1]
    IN  picked[Len(lines)]

\* _parse_line: lines that are no record are passed over.
Parsed(lines) == Picked(lines, {l \in ToSet(lines) : l.readable})
Ids(lines)    == {l.id : l \in ToSet(Parsed(lines))}

InitHistory ==
    /\ hist = [i \in DOMAIN OldHistory |-> Line(OldHistory[i], i)] /\ written = Len(OldHistory)
    /\ torn = FALSE /\ hlock = Free /\ seen = [s \in Sessions |-> {}]

Release(s) == hlock' = IF hlock = s THEN Free ELSE hlock

-----------------------------------------------------------------------------
(* Recording an operation: finalize_report and append.                      *)

\* A recovery has no identifier: its records differ in the reported outcome only,
\* and a clean-up or a discard is the same as a recovery.
BeginRecover(s) ==
    /\ Asked(s, "recover") /\ Go(s, "record")
    /\ \E how \in Recoveries :
          Knows(s, [NoMemo EXCEPT !.id = Identity("recover", 0, Reported[how])])
    /\ NoFault /\ UNCHANGED <<workspace, lock, history>>

\* The session has recorded or met this identity before, or waits for the lock.
Record(s) ==
    /\ pc[s] = "record" /\ NoFault /\ UNCHANGED <<workspace, lock, history>>
    /\ IF memo[s].id \in seen[s] THEN End(s) ELSE Go(s, "wait") /\ UNCHANGED memo

\* Mutant of TakeHistoryLock: the file is used whoever has it locked.
TakeHistoryLockAnyway(s) ==
    /\ pc[s] \in Waiting /\ hlock' = s /\ NoFault
    /\ Go(s, IF pc[s] = "wait" THEN "look" ELSE "clear")
    /\ UNCHANGED <<workspace, lock, memo, hist, torn, written, seen>>

TakeHistoryLock(s) ==
    /\ pc[s] \in Waiting /\ hlock = Free /\ hlock' = s /\ NoFault
    /\ Go(s, IF pc[s] = "wait" THEN "look" ELSE "clear")
    /\ UNCHANGED <<workspace, lock, memo, hist, torn, written, seen>>

\* The report gets a warning and the operation ends all the same.
NotSaved(s) == Fault /\ End(s) /\ Release(s) /\ UNCHANGED seen

Learns(s) == seen' = [seen EXCEPT ![s] = @ \cup {memo[s].id}]

\* Mutant of Look: a repeated record leaves the lock taken.
LookAndKeep(s) ==
    /\ pc[s] = "look" /\ NoFault /\ UNCHANGED <<workspace, lock, hist, torn, written, hlock>>
    /\ \/ memo[s].id \in Ids(hist) /\ Learns(s) /\ End(s)
       \/ memo[s].id \notin Ids(hist) /\ Go(s, "write") /\ UNCHANGED <<memo, seen>>

\* A history that cannot be read holds no record.
Look(s) ==
    /\ pc[s] = "look" /\ UNCHANGED <<workspace, lock, hist, torn, written>>
    /\ \/ memo[s].id \in Ids(hist) /\ Learns(s) /\ End(s) /\ Release(s) /\ NoFault
       \/ /\ (memo[s].id \notin Ids(hist) /\ NoFault) \/ Fault
          /\ Go(s, "write") /\ UNCHANGED <<memo, seen, hlock>>

\* What the file holds when a text is written at its end: it goes on with a line
\* that has no end.
Extended(line) == IF torn THEN Front(hist) \o <<Garbage>> ELSE Append(hist, line)

\* The bytes are written; or fewer of them than asked for, which os.write tells
\* and nobody looks at; or none.
Write(s) ==
    /\ pc[s] = "write" /\ UNCHANGED <<workspace, lock>>
    /\ \/ NotSaved(s) /\ UNCHANGED <<hist, torn, written>>
       \/ /\ \/ hist' = Extended(Line(memo[s].id, written + 1)) /\ torn' = FALSE /\ NoFault
             \/ /\ hist' \in {Extended(Line(memo[s].id, written + 1)), Extended(Garbage)}
                /\ torn' = TRUE /\ Fault
          /\ written' = written + 1 /\ Learns(s) /\ Go(s, "compact")
          /\ UNCHANGED <<memo, hlock>>

Newest(lines, n) == SubSeq(lines, Len(lines) - n + 1, Len(lines))

\* _maybe_compact_unlocked: reads what there is, ...
Compact(s) ==
    /\ pc[s] = "compact" /\ NoFault /\ UNCHANGED <<workspace, lock, hist, torn, written, seen>>
    /\ IF Len(Parsed(hist)) <= MaxRecords
       THEN End(s) /\ Release(s)
       ELSE /\ Knows(s, [memo[s] EXCEPT !.lines = Newest(Parsed(hist), MaxRecords)])
            /\ Go(s, "swap") /\ UNCHANGED hlock

\* Mutant of Swap: what was read is written after what there is.
SwapDoubled(s) ==
    /\ pc[s] = "swap" /\ End(s) /\ Release(s) /\ UNCHANGED <<workspace, lock, written, seen>>
    /\ hist' = memo[s].lines \o memo[s].lines /\ torn' = FALSE /\ NoFault

\* ... and puts the newest of it into the file's place, or leaves it.
Swap(s) ==
    /\ pc[s] = "swap" /\ End(s) /\ Release(s) /\ UNCHANGED <<workspace, lock, written, seen>>
    /\ \/ hist' = memo[s].lines /\ torn' = FALSE /\ NoFault
       \/ UNCHANGED <<hist, torn>> /\ Fault

\* clear: the file goes, and what this session knew of it; other sessions keep
\* what they know.
ClearFile(s) ==
    \/ hist' = <<>> /\ torn' = FALSE /\ seen' = [seen EXCEPT ![s] = {}] /\ NoFault
    \/ UNCHANGED <<hist, torn, seen>> /\ Fault

Recorder(s) == BeginRecover(s) \/ Record(s) \/ TakeHistoryLock(s) \/ Look(s) \/ Write(s)
               \/ Compact(s) \/ Swap(s)

-----------------------------------------------------------------------------

\* A record that can be read stays, until a session clears the history or as many
\* newer ones as are kept are there - although several sessions append, compact
\* and clear.  Only a last line without its end is lost to the next record.
RecordsStay ==
    [][\A i \in DOMAIN hist : hist[i].readable /\ ~(torn /\ i = Len(hist)) =>
          \/ hist[i] \in ToSet(hist')
          \/ \E s \in Sessions : pc[s] = "clear" /\ pc'[s] # "clear"
          \/ Cardinality({j \in DOMAIN hist' : hist'[j].readable /\ hist'[j].n > hist[i].n})
                 >= MaxRecords]_<<history, pc>>

\* Of the records the file holds the later ones stand behind the earlier ones,
\* each once: the newest first is what a screen shows by reading from the end.
InOrder == \A i, j \in DOMAIN hist :
               i < j /\ hist[i].readable /\ hist[j].readable => hist[i].n < hist[j].n

\* Whoever waits for the history lock gets it, and lets it go.
RecordingEnds == \A s \in Sessions : pc[s] \in Waiting \cup Recording ~> pc[s] \notin Waiting \cup Recording
=============================================================================

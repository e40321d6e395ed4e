------------------------------ MODULE LogsScreen ------------------------------
(***************************************************************************)
(* The operation history as the terminal interface shows it: a screen that *)
(* loads the records in a thread, again whenever its filter changes, and a *)
(* confirmation that clears them.  A thread that was overtaken goes on and *)
(* ends later.                                                             *)
(***************************************************************************)
EXTENDS OperationHistory

CONSTANT MaxLoads        \* bound: loads of the screen

VARIABLES
    screen,              \* the Logs screen of the terminal interface
    threads,             \* the loads that have not ended
    cleared              \* the newest record it has cleared (auxiliary)

logs == <<screen, threads, cleared>>

All     == "all"
Filters == {All, "pull", "recover"}
Unread  == <<Garbage>>

Closed == [open |-> FALSE, ready |-> FALSE, busy |-> FALSE, filter |-> All,
           rows |-> <<>>, load |-> 0]

InitLogs == screen = Closed /\ threads = {} /\ cleared = 0

\* read_recent: the newest first, those the filter lets through, so many of them.
Recent(filter) ==
    LET shown == Picked(Reverse(Parsed(hist)), {l \in ToSet(Parsed(hist)) : filter \in {All, l.id[1]}})
    IN  SubSeq(shown, 1, IF Len(shown) < Limit THEN Len(shown) ELSE Limit)

\* _start_load: the table is emptied, the thread that runs is no longer the one
\* waited for.
Loading(v) ==
    /\ screen' = [v EXCEPT !.busy = TRUE, !.rows = <<>>, !.load = screen.load + 1]
    /\ threads' = threads \cup {[load |-> screen.load + 1, filter |-> v.filter, rows |-> Unread]}

Presses(s) == pc[s] = "logs" /\ NoFault /\ UNCHANGED <<workspace, lock, memo, history, cleared>>
Again      == screen.load < MaxLoads

OpenLogs(s) ==
    /\ Asked(s, "logs") /\ NoFault /\ Go(s, "logs") /\ Loading([Closed EXCEPT !.open = TRUE])
    /\ UNCHANGED <<workspace, lock, memo, history, cleared>>

Refresh(s) == Presses(s) /\ ~screen.busy /\ Again /\ Loading(screen) /\ UNCHANGED <<pc, plan>>

\* A filter chosen before the first load has succeeded is not taken over.
ChooseFilter(s) ==
    /\ Presses(s) /\ screen.ready /\ Again /\ UNCHANGED <<pc, plan>>
    /\ \E f \in Filters \ {screen.filter} : Loading([screen EXCEPT !.filter = f])

\* Clear is there when there are rows; the confirmation comes before the lock.
PressClear(s) == /\ Presses(s) /\ ~screen.busy /\ screen.rows # <<>> /\ Again
                 /\ Go(s, "wait_clear") /\ UNCHANGED <<screen, threads>>

\* ClearHistoryConfirmScreen: cleared or not, the screen below loads again.
Clear(s) ==
    /\ pc[s] = "clear" /\ ClearFile(s) /\ Release(s) /\ Go(s, "logs") /\ Loading(screen)
    /\ cleared' = IF hist' = <<>> THEN written ELSE cleared
    /\ UNCHANGED <<workspace, lock, memo, written>>

LeaveLogs(s) == Presses(s) /\ End(s) /\ screen' = [Closed EXCEPT !.load = screen.load]
                /\ UNCHANGED threads

Runs == NoFault /\ UNCHANGED <<workspace, session, history, cleared>>

ThreadReads(t) ==
    /\ t.rows = Unread /\ Runs /\ UNCHANGED screen
    /\ threads' = (threads \ {t}) \cup {[t EXCEPT !.rows = Recent(t.filter)]}

\* Mutant of ThreadEnds: whichever thread ends, its rows are shown.
AnyThreadEnds(t) ==
    /\ t.rows # Unread /\ Runs /\ threads' = threads \ {t}
    /\ screen' = [screen EXCEPT !.busy = FALSE, !.ready = TRUE, !.rows = t.rows]

\* Only the thread of the last load is listened to.
ThreadEnds(t) ==
    /\ t.rows # Unread /\ Runs /\ threads' = threads \ {t}
    /\ IF screen.open /\ screen.load = t.load
       THEN screen' = [screen EXCEPT !.busy = FALSE, !.ready = TRUE, !.rows = t.rows]
       ELSE UNCHANGED screen

\* The history could not be read: an unreadable file counts as an empty one, any
\* other error ends the load and nothing is shown.
ThreadFails(t) ==
    /\ Fault /\ t.rows = Unread /\ UNCHANGED <<workspace, session, history, cleared>>
    /\ \/ threads' = (threads \ {t}) \cup {[t EXCEPT !.rows = <<>>]} /\ UNCHANGED screen
       \/ /\ threads' = threads \ {t}
          /\ screen' = IF screen.open /\ screen.load = t.load
                       THEN [screen EXCEPT !.busy = FALSE] ELSE screen

Thread == \E t \in threads : ThreadReads(t) \/ ThreadEnds(t)

LogsStep(s) == OpenLogs(s) \/ Refresh(s) \/ ChooseFilter(s) \/ PressClear(s) \/ Clear(s) \/ LeaveLogs(s)

-----------------------------------------------------------------------------

\* The rows of the screen are those its filter lets through, whatever loads were
\* started before and end after the one for that filter.
RowsMatchFilter == ~screen.busy /\ screen.filter # All =>
                       \A r \in ToSet(screen.rows) : r.id[1] = screen.filter

\* A record that this screen cleared is not shown by it again.
ClearedStaysAway == \A r \in ToSet(screen.rows) : r.n > cleared
=============================================================================

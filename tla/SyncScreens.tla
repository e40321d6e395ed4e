------------------------------ MODULE SyncScreens ------------------------------
(***************************************************************************)
(* The screens of collect and update, alone and in a Review session, with  *)
(* the previews they show and confirm, the threads that load previews, and *)
(* the operation screen with what it does when its worker ends.            *)
(***************************************************************************)
EXTENDS TargetSettings

CONSTANT Slot    \* places for threads that load a preview

ASSUME SlotAssumption == Slot \subseteq Nat /\ IsFiniteSet(Slot)

VARIABLES
    stack,      \* the screens, the last one on top
    mutation,   \* _mutation_active of the controller
    pull,       \* collect: preview shown and active, refresh on resume
    push,       \* update: preview shown, and whether it is the active one
    session,    \* the Review session
    load,       \* the threads
    rec,        \* the preview of the recovery screen
    dash,       \* what the dashboard shows
    offer       \* "Continue to update" on Add words or on a report

ui == <<stack, mutation, pull, push, session, load, rec, dash, offer>>

On(screen)     == stack # <<>> /\ Last(stack) = screen
Under(screen)  == Len(stack) > 1 /\ stack[Len(stack) - 1] = screen
Opened(screen) == Append(stack, screen)
Closed         == Front(stack)
Home           == <<"Dashboard">>

NoPull    == [shown |-> Nothing, active |-> Nothing, refresh |-> FALSE]
NoPush    == [shown |-> Nothing, same |-> FALSE]
NoPreview == [clean |-> FALSE, edits |-> 0]
\* edits: of the preview the report rests on (auxiliary).
NoSession == [on |-> FALSE, pull |-> "none", push |-> "none", preview |-> NoPreview,
              matched |-> FALSE, edits |-> 0]
Idle      == [for |-> "none", phase |-> "idle", live |-> FALSE, latest |-> FALSE, got |-> Nothing]

Still == UNCHANGED <<folder, setup, settings>>

\* plan_identifier of a pull preview: of the word list, of counts when it is missing.
PullId(p) == [list |-> p.list,
              merged |-> IF p.list.status = "missing" THEN Cardinality(Merged(p)) ELSE 0]

\* Mutant of Clean: dictionaries that were left out do not count.
CleanAnyway(p) == [clean |-> CanPush(p) /\ ToUpdate(p) = {}, edits |-> p.edits]

\* What lets an update preview count as "No changes" in the session report.
Clean(p) == [clean |-> CanPush(p) /\ ToUpdate(p) = {} /\ p.skipped = {}, edits |-> p.edits]

\* The issues that block, of the project and of the dictionaries.
ProjectBlocked == Blocks(config) \/ list.status = "unreadable" \/ journal # NoJournal
AppsBlocked    == \E d \in InUse(config) : dict[d].status = "corrupt"

DashboardNow == [blocked  |-> mutation \/ ProjectBlocked \/ AppsBlocked,
                 recovery |-> journal # NoJournal]

\* A dashboard that cannot be loaded lets nothing be written and offers recovery.
DashboardFailed == [blocked |-> TRUE, recovery |-> TRUE]

-----------------------------------------------------------------------------
(* Threads that load a preview.  The answer of one that a later load or the *)
(* closing of its screen has replaced is dropped, what it did is not.       *)

Free == {i \in Slot : load[i].phase = "idle"}

\* A thread cannot be stopped, but of one that no screen waits for only the Review
\* session sees more than a preview that is no longer the active one, which makes
\* the confirmation refuse: the others end here.
Leave(ld, screens) ==
    [i \in Slot |->
        IF ld[i].for \notin screens THEN ld[i]
        ELSE IF ld[i].for = "ReviewPush" /\ ld[i].phase # "got"
        THEN [ld[i] EXCEPT !.live = FALSE]
        ELSE Idle]
Begin(ld, screen)  == [Leave(ld, {screen}) EXCEPT ![Min(Free)] =
                          [Idle EXCEPT !.for = screen, !.phase = "start", !.live = TRUE]]

Overtaken(ld) == [i \in Slot |-> [ld[i] EXCEPT !.latest = FALSE]]

\* prepare_review_push invalidates the active preview first.
LoadReads(i) ==
    /\ load[i].phase = "start"
    /\ LET review == load[i].for = "ReviewPush" IN
         /\ load' = [(IF review THEN Overtaken(load) ELSE load) EXCEPT ![i].phase = "set",
                                                                     ![i].got = Snapshot]
         /\ push' = IF review THEN [push EXCEPT !.same = FALSE] ELSE push
    /\ Still /\ UNCHANGED <<stack, mutation, pull, session, rec, dash, offer>>

\* The preview becomes the active one of the controller, whatever became of the
\* screen; in a Review session, whichever it is, the one of the session too.
LoadSets(i) ==
    /\ load[i].phase = "set"
    /\ LET update == load[i].for # "Pull" IN
         /\ load' = [(IF update THEN Overtaken(load) ELSE load) EXCEPT ![i] =
                IF load[i].live THEN [load[i] EXCEPT !.phase = "got", !.latest = TRUE] ELSE Idle]
         /\ pull' = IF update THEN pull ELSE [pull EXCEPT !.active = PullId(load[i].got)]
         /\ push' = IF update THEN [push EXCEPT !.same = FALSE] ELSE push
    /\ session' = IF load[i].for = "ReviewPush" /\ session.on
                  THEN [session EXCEPT !.preview = Clean(load[i].got)] ELSE session
    /\ Still /\ UNCHANGED <<stack, mutation, rec, dash, offer>>

\* The screen shows it.
LoadArrives(i) ==
    /\ load[i].phase = "got" /\ load' = [load EXCEPT ![i] = Idle]
    /\ IF load[i].for = "Pull" THEN pull' = [pull EXCEPT !.shown = load[i].got] /\ UNCHANGED push
       ELSE push' = [shown |-> load[i].got, same |-> load[i].latest] /\ UNCHANGED pull
    /\ Still /\ UNCHANGED <<stack, mutation, session, rec, dash, offer>>

\* The screen goes on without a preview.
LoadFails(i) == /\ load[i].phase = "start" /\ load' = [load EXCEPT ![i] = Idle]
                /\ Still /\ UNCHANGED <<stack, mutation, pull, push, session, rec, dash, offer>>

LoadStep == \E i \in Slot : LoadReads(i) \/ LoadSets(i) \/ LoadArrives(i) \/ LoadFails(i)


-----------------------------------------------------------------------------
(* The operation screen.                                                    *)

\* Mutant of Begins: the operation that is running is not looked for.
BeginsAnyway(kind, plan) ==
    op' = Start(kind, plan) /\ mutation' = TRUE /\ stack' = Opened("Operation")

\* Mutant of Begins: the operation is not marked as running.
BeginsUnmarked(kind, plan) ==
    op' = Start(kind, plan) /\ stack' = Opened("Operation") /\ UNCHANGED mutation

\* on_mount of the operation screen: with another operation running it only
\* says so.
Begins(kind, plan) ==
    IF mutation THEN stack' = Opened("Busy") /\ UNCHANGED <<op, mutation>>
    ELSE op' = Start(kind, plan) /\ mutation' = TRUE /\ stack' = Opened("Operation")

CloseBusy == /\ On("Busy") /\ stack' = Closed
             /\ Still /\ UNCHANGED <<mutation, pull, push, session, load, rec, dash, offer>>

Succeeded == op.outcome \in {"completed", "warnings"}

\* Mutant of OperationEnds: a worker that ends with an exception is not noticed.
OperationReturns ==
    /\ op.phase = "ended" /\ op.outcome # "error" /\ op' = [op EXCEPT !.phase = "shown"]
    /\ mutation' = FALSE
    /\ pull' = [pull EXCEPT !.active = Nothing] /\ push' = [push EXCEPT !.same = FALSE]
    /\ settings' = IF op.kind = "targets" /\ Succeeded THEN NoSettings ELSE settings
    /\ UNCHANGED <<files, slipped, changes, edits, setup, stack, session, load, rec, dash, offer>>

\* The screen learns that its worker has ended, with a result or an exception.
OperationEnds ==
    /\ op.phase = "ended" /\ op' = [op EXCEPT !.phase = "shown"]
    /\ mutation' = FALSE
    /\ pull' = [pull EXCEPT !.active = Nothing] /\ push' = [push EXCEPT !.same = FALSE]
    /\ settings' = IF op.kind = "targets" /\ Succeeded THEN NoSettings ELSE settings
    /\ UNCHANGED <<files, slipped, changes, edits, setup, stack, session, load, rec, dash, offer>>

\* The record of a step in the session: a report's outcome, or that it was skipped.
Record(s, step, outcome) == [s EXCEPT ![step] = outcome]

\* What a report keeps of an operation.
Reported == op' = [NoOp EXCEPT !.kind = op.kind, !.phase = "shown", !.outcome = op.outcome]

\* The report of the session; edits as of the preview that it rests on.
Matched(s) == /\ journal = NoJournal /\ s.pull = "completed"
              /\ \/ s.push = "completed"
                 \/ s.push = "none" /\ s.preview.clean
Reports(s, n) == session' = [s EXCEPT !.matched = Matched(s), !.edits = n]

\* _dismiss_to_result
DismissReview ==
    /\ On("Operation") /\ op.phase = "shown" /\ op' = NoOp
    /\ \/ /\ Under("ReviewPull")
          /\ LET s == Record(session, "pull", op.outcome) IN
               IF Succeeded
               THEN session' = s /\ stack' = Append(Closed, "ReviewPullComplete")
               ELSE Reports(s, op.plan.edits) /\ stack' = Append(Closed, "SessionReport")
       \/ /\ Under("ReviewPush")
          /\ Reports(Record(session, "push", op.outcome), op.plan.edits)
          /\ stack' = Append(Closed, "SessionReport")
    /\ UNCHANGED <<files, slipped, changes, edits, setup, settings>>
    /\ UNCHANGED <<mutation, pull, push, load, rec, dash, offer>>

\* A collected list can be continued with.
Dismiss ==
    /\ On("Operation") /\ op.phase = "shown" /\ Reported
    /\ ~Under("ReviewPull") /\ ~Under("ReviewPush")
    /\ stack' = Opened("Report")
    /\ offer' = (op.kind = "pull" /\ Succeeded /\ list.status = "ok")
    /\ UNCHANGED <<files, slipped, changes, edits, setup, settings>>
    /\ UNCHANGED <<mutation, pull, push, session, load, rec, dash>>

-----------------------------------------------------------------------------
(* Collect and Update from the dashboard.                                   *)

Steady  == UNCHANGED <<mutation, load, rec, dash, offer>>
Unmoved == Still /\ Steady

\* The entries of the dashboard that write are disabled while it shows a blocker.
Entered       == On("Dashboard") /\ ~dash.blocked /\ MayStart
Enter(screen) == Entered /\ stack' = Opened(screen)

OpenPull ==
    /\ Enter("Pull")
    /\ pull' = [NoPull EXCEPT !.shown = Snapshot, !.active = PullId(Snapshot)]
    /\ Unmoved /\ UNCHANGED <<push, session>>

OpenPreview ==
    /\ Enter("Preview")
    /\ push' = [shown |-> Snapshot, same |-> TRUE]
    /\ load' = Overtaken(load)
    /\ Still /\ UNCHANGED <<mutation, pull, session, rec, dash, offer>>

\* refresh_preview: on request, or when the screen is back after a detour.
RefreshPull ==
    /\ On("Pull") /\ Free # {} /\ load' = Begin(load, "Pull") /\ pull' = NoPull
    /\ Still /\ UNCHANGED <<stack, mutation, push, session, rec, dash, offer>>

RefreshPreview ==
    /\ On("Preview") /\ Free # {} /\ load' = Begin(load, "Preview") /\ push' = NoPush
    /\ Still /\ UNCHANGED <<stack, mutation, pull, session, rec, dash, offer>>

Collecting  == pull.shown # Nothing /\ ~pull.refresh
Collectable == Collecting /\ CanPull(pull.shown) /\ Additions(pull.shown) # {} /\ ~mutation
Updatable   == push.shown # Nothing /\ CanPush(push.shown) /\ ToUpdate(push.shown) # {} /\ ~mutation

\* The confirmation of collect: there is something to add, and the active preview
\* is one of the same list.
PullAgreed == Additions(pull.shown) # {} /\ pull.active = PullId(pull.shown)

\* The confirmation of an update: there is something to write, and the active
\* preview is this one, with the very plan that was shown.
PushAgreed == ToUpdate(push.shown) # {} /\ push.same

OnlyBegins == /\ UNCHANGED <<files, slipped, changes, edits, setup, settings>>
              /\ UNCHANGED <<pull, push, session, load, rec, dash, offer>>

\* What was confirmed is carried out, nothing is worked out anew.
StartPull == MayStart /\ Begins("pull", pull.shown) /\ OnlyBegins
StartPush == MayStart /\ Begins("push", push.shown) /\ OnlyBegins

RunPull == On("Pull") /\ Collectable /\ PullAgreed /\ StartPull
RunPush == On("Preview") /\ Updatable /\ PushAgreed /\ StartPush

ClosePull ==
    /\ On("Pull") /\ stack' = Closed /\ pull' = NoPull /\ load' = Leave(load, {"Pull"})
    /\ Still /\ UNCHANGED <<mutation, push, session, rec, dash, offer>>

ClosePreview ==
    /\ On("Preview") /\ stack' = Closed /\ push' = NoPush /\ load' = Leave(load, {"Preview"})
    /\ Still /\ UNCHANGED <<mutation, pull, session, rec, dash, offer>>

-----------------------------------------------------------------------------
(* On to the update, from collect, from Add words, from a report.           *)

\* continue_to_update_apps: in a Review session collect counts as skipped.
Continue(from) ==
    /\ Free # {} /\ push' = NoPush
    /\ IF session.on
       THEN /\ stack' = Append(from, "ReviewPush") /\ load' = Begin(load, "ReviewPush")
            /\ session' = Record(session, "pull", "skipped")
       ELSE /\ stack' = Append(from, "Preview") /\ load' = Begin(load, "Preview")
            /\ UNCHANGED session

\* Mutant of DetourFromPull: collect shows what it showed before the detour.
ForgetfulDetour ==
    /\ pull.shown.list.words = {} /\ stack' = Opened("AddWords") /\ offer' = FALSE
    /\ UNCHANGED <<pull, push, session, load>>

\* continue_from_collect_preview: with an empty list, to Add words; collect loads
\* its preview anew when the user comes back.
DetourFromPull ==
    /\ pull.shown.list.words = {} /\ stack' = Opened("AddWords") /\ offer' = FALSE
    /\ pull' = [pull EXCEPT !.refresh = TRUE] /\ UNCHANGED <<push, session, load>>

LeaveCollect == \/ DetourFromPull
                \/ pull.shown.list.words # {} /\ Continue(stack) /\ UNCHANGED <<pull, offer>>

\* With nothing to collect.
PullNext ==
    /\ On("Pull") /\ Collecting /\ CanPull(pull.shown) /\ ~mutation
    /\ Additions(pull.shown) = {} /\ LeaveCollect
    /\ Still /\ UNCHANGED <<mutation, rec, dash>>

\* on_screen_resume of collect and of the first step of a Review session.
ResumePull ==
    /\ pull.refresh
    /\ \/ On("Pull") /\ Free # {} /\ load' = Begin(load, "Pull") /\ pull' = NoPull
       \/ /\ On("ReviewPull") /\ UNCHANGED load
          /\ pull' = [NoPull EXCEPT !.shown = Snapshot, !.active = PullId(Snapshot)]
    /\ Still /\ UNCHANGED <<stack, mutation, push, session, rec, dash, offer>>

OpenAddWords ==
    /\ \/ Enter("AddWords")
       \/ On("FirstWin") /\ stack' = Opened("AddWords")
    /\ offer' = FALSE
    /\ Still /\ UNCHANGED <<mutation, pull, push, session, load, rec, dash>>

\* append_words; the update is offered when the list has words.
SaveWord(w) ==
    /\ On("AddWords") /\ MayStart /\ ScopeOpen /\ list.status \in {"ok", "empty"}
    /\ list' = Text(list.words \cup {w}) /\ offer' = TRUE
    /\ changes' = IF list' = list THEN changes ELSE changes + 1
    /\ UNCHANGED <<dict, config, whitelist, journal, op, slipped, edits, setup, settings>>
    /\ UNCHANGED <<stack, mutation, pull, push, session, load, rec, dash>>

CloseAddWords ==
    /\ On("AddWords") \/ On("FirstWin")
    /\ stack' = Closed /\ offer' = FALSE
    /\ Still /\ UNCHANGED <<mutation, pull, push, session, load, rec, dash>>

AddWordsNext ==
    /\ On("AddWords") /\ offer /\ Continue(Closed) /\ offer' = FALSE
    /\ Still /\ UNCHANGED <<mutation, pull, rec, dash>>
=============================================================================

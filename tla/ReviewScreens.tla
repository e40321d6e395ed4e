----------------------------- MODULE ReviewScreens -----------------------------
(***************************************************************************)
(* The Review session, collect and then update with one report at its end, *)
(* the reports of single operations, the recovery screen, and the way back *)
(* to the dashboard.                                                       *)
(***************************************************************************)
EXTENDS SyncScreens

\* Every screen above the dashboard is closed; a dashboard that is opened anew,
\* as after the setup, reads the project.
Homewards(screens, anew) ==
    /\ stack' = Home \o screens /\ pull' = NoPull /\ push' = NoPush
    /\ dash' = IF anew \/ Head(stack) # "Dashboard" THEN DashboardNow ELSE dash

Closing == Leave(load, {"Pull", "Preview", "ReviewPush"})

RefreshDashboard ==
    /\ On("Dashboard") /\ dash' \in {DashboardNow, DashboardFailed}
    /\ Still /\ UNCHANGED <<stack, mutation, pull, push, session, load, rec, offer>>

-----------------------------------------------------------------------------
(* The session.                                                             *)

OpenReview ==
    /\ \/ Enter("ReviewStart")
       \/ On("FirstWin") /\ stack' = Opened("ReviewStart")
    /\ Unmoved /\ UNCHANGED <<pull, push, session>>

StartReview ==
    /\ On("ReviewStart") /\ stack' = Append(Closed, "ReviewPull")
    /\ session' = [NoSession EXCEPT !.on = TRUE]
    /\ pull' = [NoPull EXCEPT !.shown = Snapshot, !.active = PullId(Snapshot)]
    /\ Unmoved /\ UNCHANGED push

\* Mutant of LeaveReview: the session is kept when the user turns back.
LeaveReviewOnly ==
    /\ On("ReviewStart") \/ On("ReviewPull")
    /\ stack' = Closed /\ pull' = NoPull /\ push' = NoPush
    /\ Unmoved /\ UNCHANGED session

LeaveReview ==
    /\ On("ReviewStart") \/ On("ReviewPull")
    /\ stack' = Closed /\ session' = NoSession /\ pull' = NoPull /\ push' = NoPush
    /\ Unmoved

ReviewRunPull == On("ReviewPull") /\ Collectable /\ PullAgreed /\ StartPull

\* action_skip_pull: with words to collect or without.
SkipCollect ==
    /\ On("ReviewPull") /\ Collecting /\ CanPull(pull.shown) /\ ~mutation
    /\ LeaveCollect
    /\ Still /\ UNCHANGED <<mutation, rec, dash>>

ReviewUpdate ==
    /\ On("ReviewPullComplete") /\ Free # {}
    /\ stack' = Opened("ReviewPush") /\ push' = NoPush /\ load' = Begin(load, "ReviewPush")
    /\ Still /\ UNCHANGED <<mutation, pull, session, rec, dash, offer>>

\* The second step offers the update only when there is something to write.
ReviewUpdatable == On("ReviewPush") /\ Updatable
ReviewRunPush   == ReviewUpdatable /\ PushAgreed /\ StartPush

CloseReviewPush ==
    /\ On("ReviewPush")
    /\ stack' = Closed /\ push' = NoPush /\ load' = Leave(load, {"ReviewPush"})
    /\ Still /\ UNCHANGED <<mutation, pull, session, rec, dash, offer>>

Waiting   == \E i \in Slot : load[i].live /\ load[i].for = "ReviewPush"
CanFinish == On("ReviewPush") /\ ~Waiting /\ ~mutation

\* Without an update; it counts as skipped unless there was nothing to update.
FinishReview ==
    /\ CanFinish /\ stack' = Opened("SessionReport")
    /\ LET p == push.shown IN
         Reports(IF p # Nothing /\ CanPush(p) /\ ToUpdate(p) = {} THEN session
                 ELSE Record(session, "push", "skipped"), session.preview.edits)
    /\ Unmoved /\ UNCHANGED <<pull, push>>

EndReview ==
    /\ On("SessionReport") /\ session' = NoSession /\ Homewards(<<>>, FALSE) /\ load' = Closing
    /\ Still /\ UNCHANGED <<mutation, rec, offer>>

-----------------------------------------------------------------------------
(* The report of one operation.                                             *)

\* Back at the dashboard nothing reads what Start here and Applications have kept;
\* either begins anew.
LeaveReport ==
    /\ op' = NoOp /\ setup' = NoSetup /\ settings' = NoSettings /\ slipped' = {}
    /\ rec' = Nothing /\ offer' = FALSE /\ UNCHANGED <<files, changes, edits, mutation, session>>

\* A project that was just set up starts with a first step.
ReportHome ==
    /\ On("Report") /\ LeaveReport /\ load' = Closing
    /\ Homewards(IF op.kind = "setup" /\ Succeeded THEN <<"FirstWin">> ELSE <<>>,
                 op.kind \in {"setup", "targets"} /\ Succeeded)

ReportNext ==
    /\ On("Report") /\ offer /\ Continue(stack) /\ Still
    /\ UNCHANGED <<mutation, pull, rec, dash, offer>>

\* Rebuild preview, after a conflict.
RebuildOffered == On("Report") /\ op.outcome = "conflict"
ReportRebuild ==
    /\ RebuildOffered /\ Free # {}
    /\ LeaveReport /\ Homewards(<<"Preview">>, FALSE) /\ load' = Begin(Closing, "Preview")

-----------------------------------------------------------------------------
(* Recovery.                                                                *)

\* A preview that cannot be made is not kept as one.
RecoveryNow == [journal |-> journal, recover |-> CanRecover, discard |-> CanDiscard]

InspectRecovery ==
    /\ \/ On("Dashboard") /\ dash.recovery /\ MayStart /\ stack' = Opened("Recovery")
       \/ On("Recovery") /\ UNCHANGED stack
    /\ rec' \in {RecoveryNow, Nothing}
    /\ Still /\ UNCHANGED <<mutation, pull, push, session, load, dash, offer>>

\* The buttons, of a preview that could be made.
Offered(kind) == /\ On("Recovery") /\ rec # Nothing
                 /\ kind = "recover" => rec.recover
                 /\ kind = "discard" => rec.discard

Pressed(kind) == Offered(kind) /\ ~mutation

StartRecovery(kind) == MayStart /\ Begins(kind, rec) /\ OnlyBegins

\* Carried out when the word typed is the one the action asks for.
RunRecovery == \E kind, typed \in {"recover", "discard"} :
                  Pressed(kind) /\ typed = kind /\ StartRecovery(kind)

CloseRecovery ==
    /\ On("Recovery") /\ stack' = Closed /\ rec' = Nothing
    /\ Still /\ UNCHANGED <<mutation, pull, push, session, load, dash, offer>>
=============================================================================

------------------------------- MODULE Terminal -------------------------------
(***************************************************************************)
(* The terminal interface as a whole: start, Start here, the dashboard,    *)
(* Applications, and one Next of everything that can happen to a project   *)
(* while it is open.  The program may be closed or killed at any step.     *)
(***************************************************************************)
EXTENDS ReviewScreens

CONSTANT Begun    \* the projects it is first started in, with the changes used up

ASSUME BegunAssumption ==
    \A p \in Begun : /\ p.list \in Texts /\ p.config \in Configs /\ p.changes \in Nat
                     /\ p.dict \in [Dictionaries -> Texts]

vars == <<folder, setup, settings, ui>>

NoDash == [blocked |-> FALSE, recovery |-> FALSE]

Init ==
    /\ \E p \in Begun : list = p.list /\ dict = p.dict /\ config = p.config /\ changes = p.changes
    /\ whitelist = "absent" /\ journal = NoJournal /\ op = NoOp
    /\ slipped = {} /\ edits = 0
    /\ setup = NoSetup /\ settings = NoSettings
    /\ stack = <<>> /\ mutation = FALSE /\ pull = NoPull /\ push = NoPush
    /\ session = NoSession /\ load = [i \in Slot |-> Idle] /\ rec = Nothing
    /\ dash = NoDash /\ offer = FALSE

Unseen == UNCHANGED <<mutation, pull, push, session, load, rec, offer>>

\* inspect_project_setup: Start here when a file of the project is not there.
NeedsSetup == /\ journal = NoJournal /\ ~Blocks(config) /\ list.status # "unreadable"
              /\ ~Present("list") \/ ~Present("config")

Launch ==
    /\ stack = <<>>
    /\ IF NeedsSetup THEN stack' = <<"SetupWelcome">> /\ UNCHANGED dash
       ELSE stack' = Home /\ dash' \in {DashboardNow, DashboardFailed}
    /\ Still /\ Unseen

\* Quit, or killed: nothing is left but the files.
Stop ==
    /\ stack # <<>> /\ stack' = <<>>
    /\ op' = NoOp /\ slipped' = {} /\ setup' = NoSetup /\ settings' = NoSettings
    /\ mutation' = FALSE /\ pull' = NoPull /\ push' = NoPush /\ session' = NoSession
    /\ load' = [i \in Slot |-> Idle] /\ rec' = Nothing /\ dash' = NoDash /\ offer' = FALSE
    /\ UNCHANGED <<files, changes, edits>>

-----------------------------------------------------------------------------
(* Start here.                                                              *)

BeginSetup   == On("SetupWelcome") /\ stack' = Opened("SetupWordlist") /\ UNCHANGED setup
ChooseFolder == On("SetupWordlist") /\ PickList /\ stack' = Opened("SetupTargets")
ChooseApps   == On("SetupTargets") /\ ChooseForSetup /\ UNCHANGED stack
ReviewSetup  == On("SetupTargets") /\ PrepareSetup /\ stack' = Opened("SetupPreview")
BackInSetup  == /\ On("SetupWordlist") \/ On("SetupTargets") \/ On("SetupPreview")
                /\ stack' = Closed /\ setup' = [setup EXCEPT !.plan = Nothing]

SetupScreens ==
    /\ BeginSetup \/ ChooseFolder \/ ChooseApps \/ ReviewSetup \/ BackInSetup
    /\ UNCHANGED <<folder, settings, dash>> /\ Unseen

\* Pressed twice, Create opens the operation screen twice.
CreateProject ==
    /\ \/ On("SetupPreview") /\ CanCreate /\ MayStart /\ Begins("setup", setup.plan)
       \/ On("Operation") /\ At("setup", "create") /\ Begins("setup", op.plan)
    /\ UNCHANGED <<files, slipped, changes, edits, setup, settings>>
    /\ UNCHANGED <<pull, push, session, load, rec, dash, offer>>

OpenExisting ==
    /\ On("SetupPreview") /\ setup.plan.exists /\ Homewards(<<>>, TRUE) /\ setup' = NoSetup
    /\ UNCHANGED <<folder, settings, mutation, session, load, rec, offer>>

-----------------------------------------------------------------------------
(* Applications.  Opening the screen starts its session anew; as it does    *)
(* not look at previews, it is opened here only while none is loading.      *)

Calm == \A i \in Slot : load[i] = Idle

OpenApplications   == /\ On("Dashboard") /\ MayStart /\ Calm
                      /\ OpenSettings /\ stack' = Opened("Settings")
ChooseApplications == On("Settings") /\ ~settings.error /\ ChooseForSettings /\ UNCHANGED stack
ReviewApplications == /\ On("Settings") /\ ~settings.error
                      /\ ReadConfig /\ stack' = Opened("SettingsReview")
BackInApplications == \/ /\ On("SettingsReview") /\ Reviewed /\ stack' = Closed
                         /\ settings' = [settings EXCEPT !.plan = Nothing]
                      \/ On("Settings") /\ stack' = Closed /\ settings' = NoSettings

SettingsScreens ==
    /\ \/ OpenApplications \/ ChooseApplications \/ ReviewApplications \/ BackInApplications
       \/ On("SettingsReview") /\ HashConfig /\ UNCHANGED stack
    /\ UNCHANGED <<folder, setup, dash>> /\ Unseen

SaveSettings ==
    /\ On("SettingsReview") /\ CanSave /\ MayStart /\ Begins("targets", settings.plan)
    /\ UNCHANGED <<files, slipped, changes, edits, setup, settings>>
    /\ UNCHANGED <<pull, push, session, load, rec, dash, offer>>

-----------------------------------------------------------------------------
Worker == /\ \/ UNCHANGED <<setup, settings>> /\ (WorkPull \/ WorkPush \/ WorkRecover \/ WorkDiscard)
             \/ UNCHANGED settings /\ SetupStep
             \/ SaveStep /\ UNCHANGED setup
          /\ UNCHANGED ui

Others == (EditList \/ EditDict \/ EditConfig) /\ UNCHANGED <<ui, setup, settings>>

User ==
    \/ CloseBusy \/ DismissReview \/ Dismiss
    \/ OpenPull \/ OpenPreview \/ RefreshPull \/ RefreshPreview \/ RunPull \/ RunPush
    \/ ClosePull \/ ClosePreview \/ PullNext \/ ResumePull
    \/ OpenAddWords \/ (\E w \in Word : SaveWord(w)) \/ CloseAddWords \/ AddWordsNext
    \/ RefreshDashboard \/ OpenReview \/ StartReview \/ LeaveReview \/ ReviewRunPull
    \/ SkipCollect \/ ReviewUpdate \/ ReviewRunPush \/ CloseReviewPush \/ FinishReview \/ EndReview
    \/ ReportHome \/ ReportNext \/ ReportRebuild
    \/ InspectRecovery \/ RunRecovery \/ CloseRecovery
    \/ SetupScreens \/ CreateProject \/ OpenExisting \/ SettingsScreens \/ SaveSettings

Next == Launch \/ Stop \/ Worker \/ Others \/ OperationEnds \/ LoadStep \/ User

Fairness == WF_vars(Worker) /\ WF_vars(OperationEnds)

Spec == Init /\ [][Next]_vars /\ Fairness

-----------------------------------------------------------------------------
(* Properties.                                                              *)

AllScreens == {"Dashboard", "Pull", "Preview", "AddWords", "Recovery", "Operation", "Busy",
               "Report", "ReviewStart", "ReviewPull", "ReviewPullComplete", "ReviewPush",
               "SessionReport", "FirstWin", "SetupWelcome", "SetupWordlist", "SetupTargets",
               "SetupPreview", "Settings", "SettingsReview"}

\* The files and what the program keeps in memory have the shape the actions
\* expect; an operation is marked as running from its screen's opening to its end.
TypeOK ==
    /\ list \in Texts /\ dict \in [Dictionaries -> Texts] /\ config \in Configs
    /\ whitelist \in {"absent", "ours"} /\ slipped \subseteq Paths \cup {"dict"}
    /\ stack \in Seq(AllScreens) /\ (mutation <=> Unsettled) /\ offer \in BOOLEAN
    /\ setup.sel \in Selections /\ setup.disc \in Discoveries
    /\ settings.sel \in Selections /\ settings.disc \in Discoveries
    /\ dash \in [blocked : BOOLEAN, recovery : BOOLEAN]
    /\ session.on \in BOOLEAN /\ pull.refresh \in BOOLEAN /\ push.same \in BOOLEAN
    /\ \A i \in Slot : load[i].phase \in {"idle", "start", "set", "got"}
    /\ changes \in Nat /\ edits \in 0..MaxEdits

\* While an operation has not ended, no other one is started over it and it is not
\* started again, however often and wherever the user presses.
OneAtATime ==
    [][Unsettled /\ stack' # <<>> =>
           /\ op'.kind = op.kind /\ op'.plan = op.plan
           /\ op'.phase = "start" => op.phase = "start"]_vars

\* What the user confirms was worked out after the last change this terminal made
\* to the files: no way through the screens leads from a change back to a preview
\* of before it.
PreviewsAreFresh ==
    [][op' # op /\ op'.phase = "start" /\ op'.kind \in {"pull", "push"}
           => op'.plan.at = changes]_vars

\* A Review session does not outlive its screens: an update started later from
\* the dashboard does not count as part of it.
ReviewEnds ==
    session.on => \E i \in DOMAIN stack :
        stack[i] \in {"ReviewPull", "ReviewPullComplete", "ReviewPush", "SessionReport"}

\* The session report says that the applications match the word list only when
\* they do, other programs' changes apart since the preview the report rests on.
MatchedIsTruthful ==
    On("SessionReport") /\ session.matched /\ session.edits = edits =>
        \A d \in InUse(config) : dict[d].status = "absent" \/ dict[d].words = list.words

\* Every operation ends for the interface too, whatever becomes of its worker:
\* the user is not locked out of the next one.
OperationsEnd == mutation ~> ~mutation

\* Start here never replaces a file that was there when it looked under the lock.
SetupKeepsOthersFiles ==
    [][At("setup", "create") /\ edits' = edits /\ stack' # <<>> =>
           /\ Present("list") /\ "list" \notin slipped => list' = list
           /\ Present("config") /\ "config" \notin slipped /\ "config" \notin Range(op.created)
                 => config' = config
           /\ Present("whitelist") => whitelist' = whitelist]_vars

\* A setup that reports failure, and not that it is incomplete, has left nothing
\* of what it created.
FailedMeansUntouched ==
    At("setup", "ended") /\ op.outcome = "failed" =>
        \A i \in DOMAIN op.created : Present(op.created[i]) => op.created[i] \in slipped

\* Wherever a setup is killed, it leaves no configuration without a word list:
\* Start here refuses such a folder and the dashboard has no list to show.
ResumableSetup ==
    op.kind = "setup" /\ Unsettled /\ "config" \in Range(op.created) /\ Present("config")
        => Present("list") \/ slipped # {} \/ "config" \in op.leftover

\* Saving Applications gives every application the user did not switch the setting
\* it had in the file the review read, whatever became of its dictionaries since the
\* screen was opened - one that cannot be switched, or has no row any more, included.
\* Two exceptions: one that had no row when the screen was opened and can be
\* switched at the review (AbsentStay), and one whose setting another program
\* changed between the two.
UntouchedStay ==
    [][At("targets", "write") /\ config' # config /\ edits' = edits =>
           \A f \in Family \ settings.touched :
              \/ f \in config'.enabled <=> f \in op.plan.read.enabled
              \/ f \in settings.returned
              \/ ~(f \in settings.before <=> f \in op.plan.read.enabled)]_vars

\* "Previously enabled families that are temporarily absent from discovery must not
\* be written false" (resolve_enabled_targets): one without a row when Applications
\* was opened, enabled then and at the review, stays enabled.  The code drops it from
\* the selection (selection_from_enabled) and looks only whether it is there at the
\* review.
AbsentStay ==
    [][At("targets", "write") /\ config' # config /\ edits' = edits =>
           (settings.before \cap op.plan.read.enabled) \ settings.disc.rows \subseteq config'.enabled]_vars

\* Saving replaces the configuration the review was made from, never a newer one
\* that was there when the save looked under the lock.
NewerConfigKept ==
    [][At("targets", "write") /\ config' # config /\ edits' = edits =>
           \/ config = op.plan.read
           \/ "config" \in slipped
           \/ op.plan.read # op.plan.hash]_vars

\* A save that reports success has written what the review showed, exclusions
\* included.
CompletedMeansSaved ==
    [][At("targets", "verify") /\ op'.phase = "ended" /\ op'.outcome = "completed"
           => config = op.plan.new \/ "config" \in slipped]_vars
=============================================================================

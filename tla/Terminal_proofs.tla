--------------------------- MODULE Terminal_proofs ----------------------------
(***************************************************************************)
(* What the terminal interface promises, for any files, words, dictionaries *)
(* and edits, and for any number of presses and loading threads: one       *)
(* operation at a time, a setup that takes back what it created and leaves *)
(* alone what others made, a save that replaces what was reviewed.         *)
(*                                                                         *)
(* TerminalInv types everything and ties the mark of a running operation   *)
(* to its screen; WriteInv says, for each step of setup and save, which    *)
(* files are there and which of them others have touched.  Lemmas about    *)
(* all of Next have one step per action, in the order of Next.             *)
(***************************************************************************)
EXTENDS Terminal, SequenceTheorems, TLAPS

(* The values of the variables.                                                 *)
AllTexts  == [Dictionaries -> Texts]
Journals  == {NoJournal} \cup [wrote : SUBSET Dictionaries, before : AllTexts, after : AllTexts]
Snapshots == [list : Texts, config : Configs, skipped : SUBSET Dictionaries, dict : AllTexts,
              at : Nat, edits : Nat]

(* The order in which Start here creates the files.                             *)
Rank(path) == CASE path = "list" -> 1 [] path = "config" -> 2 [] path = "whitelist" -> 3

Rising(s)  == \A i, j \in 1 .. Len(s) : i < j => Rank(s[i]) < Rank(s[j])
Falling(s) == \A i, j \in 1 .. Len(s) : i < j => Rank(s[j]) < Rank(s[i])

(* The plans of the operations.                                                 *)
SetupPlans == {p \in [conflict : BOOLEAN, exists : BOOLEAN, keep : SUBSET {"list", "whitelist"},
                      kept : Texts \X {"absent", "ours"}, create : Seq(Paths), new : Configs] :
    /\ Rising(p.create)
    /\ \A path \in {"list", "whitelist"} : path \in p.keep \/ \E i \in 1 .. Len(p.create) : p.create[i] = path
    /\ "list" \in p.keep => p.kept[1].status # "missing"}

SavePlans == [read : Configs, hash : {Nothing} \cup Configs, new : Configs, ok : BOOLEAN]
Previews  == [journal : Journals, recover : BOOLEAN, discard : BOOLEAN]

Outcomes == {"none", "failed", "stopped", "completed", "warnings", "recovery", "conflict",
             "error", "incomplete"}
Kinds    == {"pull", "push", "recover", "discard", "setup", "targets"}
Phases   == {"none", "start", "lock", "create", "undo", "write", "verify", "ended", "shown"}

(* The plan an operation of a kind works from.                                  *)
PlansOf(kind) == CASE kind \in {"pull", "push"}       -> Snapshots
                   [] kind \in {"recover", "discard"} -> Previews
                   [] kind = "setup"                  -> SetupPlans
                   [] kind = "targets"                -> SavePlans

Plans == {Nothing} \cup Snapshots \cup Previews \cup SetupPlans \cup SavePlans

Ops == [kind : Kinds \cup {"none"}, phase : Phases, plan : Plans, todo : Seq(Paths),
        created : Seq(Paths), leftover : SUBSET Paths, outcome : Outcomes]

(* The types.                                                                   *)
FileTypes ==
    /\ list \in Texts /\ dict \in AllTexts /\ config \in Configs
    /\ whitelist \in {"absent", "ours"} /\ journal \in Journals
    /\ edits \in 0 .. MaxEdits /\ changes \in Nat /\ slipped \subseteq {"list", "config", "dict"}

OpTypes == op \in Ops /\ (Unsettled => op.kind \in Kinds /\ op.plan \in PlansOf(op.kind))

(* What the sessions and the screens keep.                                      *)
Setups == [picked : BOOLEAN, disc : Discoveries, sel : Selections, plan : {Nothing} \cup SetupPlans]

AllSettings == [on : BOOLEAN, error : BOOLEAN, disc : Discoveries, sel : Selections,
                plan : {Nothing} \cup SavePlans, touched : SUBSET Family,
                before : SUBSET Family, returned : SUBSET Family]

Pulls == [shown : {Nothing} \cup Snapshots, active : {Nothing} \cup {PullId(p) : p \in Snapshots},
          refresh : BOOLEAN]
Pushes == [shown : {Nothing} \cup Snapshots, same : BOOLEAN]
ReviewSessions == [on : BOOLEAN, pull : Outcomes \cup {"skipped"}, push : Outcomes \cup {"skipped"},
                   preview : [clean : BOOLEAN, edits : Nat], matched : BOOLEAN,
                   edits : Nat \cup {p.edits : p \in Plans}]
Loads == {l \in [for : {"none", "Pull", "Preview", "ReviewPush"}, phase : {"idle", "start", "set", "got"},
                 live : BOOLEAN, latest : BOOLEAN, got : {Nothing} \cup Snapshots] :
             l.phase \in {"set", "got"} => l.got \in Snapshots}
Dashes == [blocked : BOOLEAN, recovery : BOOLEAN]

UiTypes ==
    /\ stack \in Seq(AllScreens) /\ mutation \in BOOLEAN
    /\ pull \in Pulls /\ push \in Pushes /\ session \in ReviewSessions
    /\ load \in [Slot -> Loads]
    /\ rec \in {Nothing} \cup Previews /\ dash \in Dashes /\ offer \in BOOLEAN

Types == FileTypes /\ OpTypes /\ setup \in Setups /\ settings \in AllSettings /\ UiTypes

-----------------------------------------------------------------------------

(* The contents of a word list or a dictionary.                                 *)
LEMMA TextTyped ==
    /\ \A S \in SUBSET Word : Text(S) \in Texts
    /\ \A s \in Statuses \ {"ok", "empty"} : NoText(s) \in Texts
    /\ Missing \in Texts /\ NoText("absent") \in Texts
    /\ \A t \in Texts : t.words \in SUBSET Word /\ t.status \in Statuses
<1>1. \A S \in SUBSET Word : Text(S) \in Texts  BY DEF Texts
<1>2. \A s \in Statuses \ {"ok", "empty"} : NoText(s) \in Texts  BY DEF Texts
<1>3. Missing \in Texts /\ NoText("absent") \in Texts  BY <1>2 DEF Missing, Statuses
<1>4. \A S \in SUBSET Word : Text(S).words = S /\ Text(S).status \in Statuses  BY DEF Text, Statuses
<1>5. \A s \in Statuses : NoText(s).words = {} /\ NoText(s).status = s  BY DEF NoText
<1>6. \A t \in Texts : t.words \in SUBSET Word /\ t.status \in Statuses
  <2> SUFFICES ASSUME NEW t \in Texts  PROVE t.words \in SUBSET Word /\ t.status \in Statuses
    OBVIOUS
  <2>1. CASE \E S \in SUBSET Word : t = Text(S)  BY <1>4, <2>1
  <2>2. CASE \E s \in Statuses : t = NoText(s)  BY <1>5, <2>2
  <2> QED  BY <2>1, <2>2 DEF Texts
<1> QED  BY <1>1, <1>2, <1>3, <1>6

(* A preview is made of the contents of the files.                              *)
LEMMA SnapshotTyped ==
    ASSUME FileTypes  PROVE Snapshot \in Snapshots
<1>1. Skipped \in SUBSET Dictionaries  BY DEF Skipped, InUse
<1>2. [d \in Dictionaries |-> IF d \in InUse(config) THEN dict[d] ELSE NoText("absent")] \in AllTexts
  BY TextTyped DEF FileTypes, AllTexts
<1>3. edits \in Nat  BY ProjectAssumption DEF FileTypes
<1> QED  BY <1>1, <1>2, <1>3 DEF Snapshot, Snapshots, FileTypes

(* What a collect writes is words.                                              *)
LEMMA MergedTyped ==
    ASSUME NEW p \in Snapshots  PROVE Merged(p) \in SUBSET Word /\ p.list \in Texts
<1>1. \A d \in Dictionaries : p.dict[d].words \in SUBSET Word
  BY TextTyped DEF Snapshots, AllTexts
<1>2. p.list.words \in SUBSET Word /\ p.list \in Texts  BY TextTyped DEF Snapshots
<1> QED  BY <1>1, <1>2 DEF Merged

(* Over the operation screen there are only screens that say it is busy.         *)
Covered == \E k \in 1 .. Len(stack) : /\ stack[k] = "Operation"
                                      /\ \A i \in k + 1 .. Len(stack) : stack[i] = "Busy"

(* Some other screen gets the keys.                                             *)
Elsewhere == stack = <<>> \/ Last(stack) \notin {"Operation", "Busy"}

(* The mark of a running operation, and its screen.                             *)
RunInv == (mutation <=> Unsettled) /\ (Unsettled => Covered)

(* With the operation screen on top, or under screens that only say it is busy, no *)
(* other screen gets the keys.                                                  *)
LEMMA CoveredNotElsewhere ==
    ASSUME stack \in Seq(AllScreens), Covered  PROVE ~Elsewhere
<1>1. PICK k \in 1 .. Len(stack) : /\ stack[k] = "Operation"
                                   /\ \A i \in k + 1 .. Len(stack) : stack[i] = "Busy"
  BY DEF Covered
<1>2. stack # <<>> /\ Len(stack) \in Nat  BY <1>1
<1>3. CASE k = Len(stack)  BY <1>1, <1>2, <1>3 DEF Elsewhere, Last
<1>4. CASE k # Len(stack)
  <2>1. Len(stack) \in k + 1 .. Len(stack)  BY <1>2, <1>4
  <2>2. stack[Len(stack)] = "Busy"  BY <1>1, <2>1
  <2> QED  BY <1>2, <2>2 DEF Elsewhere, Last
<1> QED  BY <1>3, <1>4

(* What a step does to the operation and the files.                              *)
Rests   == UNCHANGED <<folder, mutation>> /\ (UNCHANGED stack \/ CloseBusy \/ Elsewhere)
Starts  == /\ UNCHANGED <<files, slipped, changes, edits>> /\ (Elsewhere \/ Unsettled)
           /\ \E kind \in Kinds : \E plan \in PlansOf(kind) : Begins(kind, plan)
Settles == /\ UNCHANGED <<files, slipped, changes, edits, mutation>> /\ op.phase = "shown"
           /\ op' \in {NoOp, [NoOp EXCEPT !.kind = op.kind, !.phase = "shown", !.outcome = op.outcome]}
Leaves  == UNCHANGED <<files, changes, edits, mutation>> /\ Elsewhere /\ op' = NoOp /\ slipped' = {}
Writes  == \E w \in Word : SaveWord(w)

(* Every step does one of these to the operation and the files.                 *)
LEMMA FolderMoves ==
    ASSUME Types, Next
    PROVE  \/ Rests \/ Starts \/ Settles \/ Leaves \/ Writes
           \/ Worker \/ Others \/ OperationEnds \/ Stop
<1> DEFINE G == \/ Rests \/ Starts \/ Settles \/ Leaves \/ Writes
                \/ Worker \/ Others \/ OperationEnds \/ Stop
<1> SUFFICES G  OBVIOUS
<1>1. ASSUME Launch  PROVE G
  BY <1>1 DEF Rests, Elsewhere, Launch, NeedsSetup, Still, Unseen, folder, files
<1>2. ASSUME Stop  PROVE G
  BY <1>2
<1>3. ASSUME Worker  PROVE G
  BY <1>3
<1>4. ASSUME Others  PROVE G
  BY <1>4
<1>5. ASSUME OperationEnds  PROVE G
  BY <1>5
<1>6. ASSUME NEW i \in Slot, LoadReads(i)  PROVE G
  BY <1>6 DEF Rests, Elsewhere, LoadReads, Still, folder, files
<1>7. ASSUME NEW i \in Slot, LoadSets(i)  PROVE G
  BY <1>7 DEF Rests, Elsewhere, LoadSets, Still, folder, files
<1>8. ASSUME NEW i \in Slot, LoadArrives(i)  PROVE G
  BY <1>8 DEF Rests, Elsewhere, LoadArrives, Still, folder, files
<1>9. ASSUME NEW i \in Slot, LoadFails(i)  PROVE G
  BY <1>9 DEF Rests, Elsewhere, LoadFails, Still, folder, files
<1>10. ASSUME CloseBusy  PROVE G
  BY <1>10 DEF Rests, Elsewhere, On, CloseBusy, Still, folder, files
<1>11. ASSUME DismissReview  PROVE G
  BY <1>11 DEF Settles, DismissReview, Reported
<1>12. ASSUME Dismiss  PROVE G
  BY <1>12 DEF Settles, Dismiss, Reported
<1>13. ASSUME OpenPull  PROVE G
  BY <1>13 DEF Rests, Elsewhere, On, OpenPull, Enter, Entered, Unmoved, Still, Steady, folder,
       files
<1>14. ASSUME OpenPreview  PROVE G
  BY <1>14 DEF Rests, Elsewhere, On, OpenPreview, Enter, Entered, Still, folder, files
<1>15. ASSUME RefreshPull  PROVE G
  BY <1>15 DEF Rests, Elsewhere, On, RefreshPull, Still, folder, files
<1>16. ASSUME RefreshPreview  PROVE G
  BY <1>16 DEF Rests, Elsewhere, On, RefreshPreview, Still, folder, files
<1>17. ASSUME RunPull  PROVE G
  <2>1. pull.shown \in Snapshots
    BY <1>17 DEF RunPull, Collectable, Collecting, Types, UiTypes, Pulls
  <2> QED  BY <1>17, <2>1 DEF RunPull, StartPull, OnlyBegins, Starts, Elsewhere, On, Kinds, PlansOf
<1>18. ASSUME RunPush  PROVE G
  <2>1. push.shown \in Snapshots
    BY <1>18 DEF RunPush, ReviewUpdatable, Updatable, Types, UiTypes, Pushes
  <2> QED  BY <1>18, <2>1 DEF RunPush, ReviewUpdatable, StartPush, OnlyBegins, Starts, Elsewhere, On, Kinds, PlansOf
<1>19. ASSUME ClosePull  PROVE G
  BY <1>19 DEF Rests, Elsewhere, On, ClosePull, Still, folder, files
<1>20. ASSUME ClosePreview  PROVE G
  BY <1>20 DEF Rests, Elsewhere, On, ClosePreview, Still, folder, files
<1>21. ASSUME PullNext  PROVE G
  BY <1>21 DEF Rests, Elsewhere, On, PullNext, LeaveCollect, DetourFromPull, Continue, Still,
       Record, folder, files
<1>22. ASSUME ResumePull  PROVE G
  BY <1>22 DEF Rests, Elsewhere, On, ResumePull, Still, folder, files
<1>23. ASSUME OpenAddWords  PROVE G
  BY <1>23 DEF Rests, Elsewhere, On, OpenAddWords, Enter, Entered, Still, folder, files
<1>24. ASSUME NEW w \in Word, SaveWord(w)  PROVE G
  BY <1>24 DEF Writes
<1>25. ASSUME CloseAddWords  PROVE G
  BY <1>25 DEF Rests, Elsewhere, On, CloseAddWords, Still, folder, files
<1>26. ASSUME AddWordsNext  PROVE G
  BY <1>26 DEF Rests, Elsewhere, On, AddWordsNext, Continue, Still, Record, folder, files
<1>27. ASSUME RefreshDashboard  PROVE G
  BY <1>27 DEF Rests, Elsewhere, On, RefreshDashboard, Still, folder, files
<1>28. ASSUME OpenReview  PROVE G
  BY <1>28 DEF Rests, Elsewhere, On, OpenReview, Enter, Entered, Unmoved, Still, Steady,
       folder, files
<1>29. ASSUME StartReview  PROVE G
  BY <1>29 DEF Rests, Elsewhere, On, StartReview, Unmoved, Still, Steady, folder, files
<1>30. ASSUME LeaveReview  PROVE G
  BY <1>30 DEF Rests, Elsewhere, On, LeaveReview, Unmoved, Still, Steady, folder, files
<1>31. ASSUME ReviewRunPull  PROVE G
  <2>1. pull.shown \in Snapshots
    BY <1>31 DEF ReviewRunPull, Collectable, Collecting, Types, UiTypes, Pulls
  <2> QED  BY <1>31, <2>1 DEF ReviewRunPull, StartPull, OnlyBegins, Starts, Elsewhere, On, Kinds, PlansOf
<1>32. ASSUME SkipCollect  PROVE G
  BY <1>32 DEF Rests, Elsewhere, On, SkipCollect, LeaveCollect, DetourFromPull, Continue,
       Still, Record, folder, files
<1>33. ASSUME ReviewUpdate  PROVE G
  BY <1>33 DEF Rests, Elsewhere, On, ReviewUpdate, Still, folder, files
<1>34. ASSUME ReviewRunPush  PROVE G
  <2>1. push.shown \in Snapshots
    BY <1>34 DEF ReviewRunPush, ReviewUpdatable, Updatable, Types, UiTypes, Pushes
  <2> QED  BY <1>34, <2>1 DEF ReviewRunPush, ReviewUpdatable, StartPush, OnlyBegins, Starts, Elsewhere, On, Kinds, PlansOf
<1>35. ASSUME CloseReviewPush  PROVE G
  BY <1>35 DEF Rests, Elsewhere, On, CloseReviewPush, Still, folder, files
<1>36. ASSUME FinishReview  PROVE G
  BY <1>36 DEF Rests, Elsewhere, On, FinishReview, CanFinish, Reports, Record, Unmoved, Still,
       Steady, folder, files
<1>37. ASSUME EndReview  PROVE G
  BY <1>37 DEF Rests, Elsewhere, On, EndReview, Homewards, Still, folder, files
<1>38. ASSUME ReportHome  PROVE G
  BY <1>38 DEF Leaves, Elsewhere, On, RebuildOffered, LeaveReport, ReportHome
<1>39. ASSUME ReportNext  PROVE G
  BY <1>39 DEF Rests, Elsewhere, On, ReportNext, Continue, Still, Record, folder, files
<1>40. ASSUME ReportRebuild  PROVE G
  BY <1>40 DEF Leaves, Elsewhere, On, RebuildOffered, LeaveReport, ReportRebuild
<1>41. ASSUME InspectRecovery  PROVE G
  BY <1>41 DEF Rests, Elsewhere, On, InspectRecovery, Still, folder, files
<1>42. ASSUME RunRecovery  PROVE G
  <2>1. rec \in Previews
    BY <1>42 DEF RunRecovery, Pressed, Offered, Types, UiTypes
  <2> QED  BY <1>42, <2>1 DEF RunRecovery, Pressed, Offered, StartRecovery, OnlyBegins, Starts, Elsewhere, On, Kinds, PlansOf
<1>43. ASSUME CloseRecovery  PROVE G
  BY <1>43 DEF Rests, Elsewhere, On, CloseRecovery, Still, folder, files
<1>44. ASSUME SetupScreens  PROVE G
  BY <1>44 DEF Rests, Elsewhere, On, SetupScreens, BeginSetup, ChooseFolder, ChooseApps,
       ReviewSetup, BackInSetup, Unseen, folder, files
<1>45. ASSUME CreateProject  PROVE G
  <2>1. CASE On("SetupPreview") /\ CanCreate /\ MayStart /\ Begins("setup", setup.plan)
    <3>1. setup.plan \in SetupPlans  BY <2>1 DEF CanCreate, Types, Setups
    <3> QED  BY <1>45, <2>1, <3>1 DEF CreateProject, Starts, Elsewhere, On, Kinds, PlansOf
  <2>2. CASE At("setup", "create") /\ Begins("setup", op.plan)
    <3>1. Unsettled /\ op.plan \in PlansOf("setup")  BY <2>2 DEF At, Unsettled, Types, OpTypes
    <3> QED  BY <1>45, <2>2, <3>1 DEF CreateProject, Starts, Kinds
  <2> QED  BY <1>45, <2>1, <2>2 DEF CreateProject
<1>46. ASSUME OpenExisting  PROVE G
  BY <1>46 DEF Rests, Elsewhere, On, OpenExisting, Homewards, folder, files
<1>47. ASSUME SettingsScreens  PROVE G
  BY <1>47 DEF Rests, Elsewhere, On, SettingsScreens, OpenApplications, ChooseApplications,
       ReviewApplications, BackInApplications, Unseen, folder, files
<1>48. ASSUME SaveSettings  PROVE G
  <2>1. settings.plan \in SavePlans
    BY <1>48 DEF SaveSettings, CanSave, Reviewed, Types, AllSettings
  <2> QED  BY <1>48, <2>1 DEF SaveSettings, Starts, Elsewhere, On, Kinds, PlansOf
<1> QED
  BY <1>1, <1>2, <1>3, <1>4, <1>5, <1>6, <1>7, <1>8, <1>9, <1>10, <1>11, <1>12, <1>13, <1>14,
     <1>15, <1>16, <1>17, <1>18, <1>19, <1>20, <1>21, <1>22, <1>23, <1>24, <1>25, <1>26,
     <1>27, <1>28,
     <1>29, <1>30, <1>31, <1>32, <1>33, <1>34, <1>35, <1>36, <1>37, <1>38, <1>39, <1>40,
     <1>41, <1>42,
     <1>43, <1>44, <1>45, <1>46, <1>47, <1>48
     DEF Next, User, LoadStep

(* What the worker of an operation leaves as it is, and how it goes on.           *)
GoesOn == op' \in Ops /\ op'.kind = op.kind /\ op'.plan = op.plan
          /\ op'.phase \in {"lock", "create", "undo", "write", "verify", "ended"}
          /\ op.phase \in {"start", "lock", "create", "undo", "write", "verify"}

(* An operation ends as it is, with its outcome.                                *)
LEMMA EndTyped ==
    ASSUME op \in Ops, changes \in Nat, NEW result \in Outcomes, End(result)
    PROVE  /\ op' \in Ops /\ op'.kind = op.kind /\ op'.plan = op.plan /\ op'.phase = "ended"
           /\ op'.outcome = result /\ op'.todo = op.todo /\ op'.created = op.created
           /\ op'.leftover = op.leftover /\ changes' \in Nat
<1> DEFINE o == [op EXCEPT !.phase = "ended", !.outcome = result]
<1>1. "ended" \in Phases  BY DEF Phases
<1>2. /\ o \in Ops /\ o.kind = op.kind /\ o.plan = op.plan /\ o.phase = "ended"
      /\ o.outcome = result /\ o.todo = op.todo /\ o.created = op.created /\ o.leftover = op.leftover
  BY <1>1 DEF Ops
<1> HIDE DEF o
<1>3. op' = o /\ changes' = changes + 1  BY DEF End, o
<1> QED  BY <1>2, <1>3

(* An operation goes on as it is, to its next phase.                            *)
LEMMA GoTyped ==
    ASSUME op \in Ops, changes \in Nat, NEW phase \in Phases, Go(phase)
    PROVE  /\ op' \in Ops /\ op'.kind = op.kind /\ op'.plan = op.plan /\ op'.phase = phase
           /\ op'.outcome = op.outcome /\ op'.todo = op.todo /\ op'.created = op.created
           /\ op'.leftover = op.leftover /\ changes' \in Nat
  BY DEF Go, Ops, Phases

(* An operation that stops has changed no file.                                 *)
LEMMA StoppedTyped ==
    ASSUME FileTypes, op \in Ops, NEW result \in Outcomes, Stopped(result),
           op.phase = "start"
    PROVE  FileTypes' /\ GoesOn
<1>1. /\ op' \in Ops /\ op'.kind = op.kind /\ op'.plan = op.plan /\ op'.phase = "ended"
      /\ changes' \in Nat
  BY EndTyped DEF Stopped, FileTypes
<1> QED  BY <1>1 DEF Stopped, FileTypes, GoesOn, files

(* Collect keeps the types, and ends in one step.                               *)
LEMMA PullTyped ==
    ASSUME Types, WorkPull  PROVE FileTypes' /\ GoesOn
<1>1. FileTypes /\ op \in Ops /\ op.phase = "start" /\ op.plan \in Snapshots
  BY DEF Types, OpTypes, WorkPull, At, Unsettled, PlansOf
<1>2. CASE Fails \/ PullStops(op.plan)
  <2>1. \E result \in Outcomes : Stopped(result)  BY <1>2 DEF Fails, PullStops, Outcomes
  <2> QED  BY <1>1, <2>1, StoppedTyped
<1>3. CASE PullWrites(op.plan)
  <2>1. PICK result \in Outcomes : End(result)  BY <1>3 DEF PullWrites, Outcomes
  <2>2. /\ op' \in Ops /\ op'.kind = op.kind /\ op'.plan = op.plan /\ op'.phase = "ended"
        /\ changes' \in Nat
    BY <1>1, <2>1, EndTyped DEF FileTypes
  <2>3. list' \in Texts  BY <1>1, <1>3, MergedTyped, TextTyped DEF PullWrites
  <2> QED  BY <1>1, <1>3, <2>2, <2>3 DEF PullWrites, FileTypes, GoesOn
<1> QED  BY <1>2, <1>3 DEF WorkPull

(* Update keeps the types, and ends in one step.                                *)
LEMMA PushTyped ==
    ASSUME Types, WorkPush  PROVE FileTypes' /\ GoesOn
<1>1. FileTypes /\ op \in Ops /\ op.phase = "start" /\ op.plan \in Snapshots
  BY DEF Types, OpTypes, WorkPush, At, Unsettled, PlansOf
<1>2. CASE Fails \/ PushStops \/ PushConflicts(op.plan)
  <2>1. \E result \in Outcomes : Stopped(result)  BY <1>2 DEF Fails, PushStops, PushConflicts, Outcomes
  <2> QED  BY <1>1, <2>1, StoppedTyped
<1>3. CASE PushWrites(op.plan)
  <2>1. PICK S \in SUBSET ToUpdate(op.plan), unfinished \in {ToUpdate(op.plan) # {}, FALSE} :
           /\ dict' = Updated(op.plan, S)
           /\ journal' = IF unfinished THEN [wrote |-> S, before |-> dict, after |-> dict']
                         ELSE journal
           /\ End(PushOutcome(op.plan, S, unfinished))
    BY <1>3 DEF PushWrites
  <2>2. PushOutcome(op.plan, S, unfinished) \in Outcomes  BY DEF PushOutcome, Outcomes
  <2>3. /\ op' \in Ops /\ op'.kind = op.kind /\ op'.plan = op.plan /\ op'.phase = "ended"
        /\ changes' \in Nat
    BY <1>1, <2>1, <2>2, EndTyped DEF FileTypes
  <2>4. op.plan.list \in Texts  BY <1>1, MergedTyped
  <2>5. dict' \in AllTexts  BY <1>1, <2>1, <2>4 DEF Updated, FileTypes, AllTexts
  <2>6. S \in SUBSET Dictionaries  BY DEF ToUpdate, InUse
  <2>7. journal' \in Journals
    <3>1. [wrote |-> S, before |-> dict, after |-> dict'] \in Journals
      BY <1>1, <2>5, <2>6 DEF Journals, FileTypes
    <3> QED  BY <1>1, <2>1, <3>1 DEF FileTypes
  <2> QED  BY <1>1, <1>3, <2>3, <2>5, <2>7 DEF PushWrites, FileTypes, GoesOn
<1> QED  BY <1>2, <1>3 DEF WorkPush

(* Recovery keeps the types, and ends in one step.                              *)
LEMMA RecoverTyped ==
    ASSUME Types, WorkRecover \/ WorkDiscard  PROVE FileTypes' /\ GoesOn
<1>1. FileTypes /\ op \in Ops /\ op.phase = "start" /\ op.kind \in {"recover", "discard"}
  BY DEF Types, OpTypes, WorkRecover, WorkDiscard, At
<1>2. CASE Fails
  <2>1. \E result \in Outcomes : Stopped(result)  BY <1>2 DEF Fails, Outcomes
  <2> QED  BY <1>1, <2>1, StoppedTyped
<1>3. CASE ~Fails
  <2>1. PICK result \in Outcomes : End(result)
    BY <1>3 DEF WorkRecover, WorkDiscard, Outcomes
  <2>2. /\ op' \in Ops /\ op'.kind = op.kind /\ op'.plan = op.plan /\ op'.phase = "ended"
        /\ changes' \in Nat
    BY <1>1, <2>1, EndTyped DEF FileTypes
  <2>3. dict' \in AllTexts
    <3>1. CASE dict' = dict  BY <1>1, <3>1 DEF FileTypes
    <3>2. CASE dict' = [d \in Dictionaries |-> IF d \in ToRestore THEN journal.before[d] ELSE dict[d]]
      <4>1. \A d \in ToRestore : journal.before[d] \in Texts
        <5>1. ASSUME NEW d \in ToRestore  PROVE journal.before[d] \in Texts
          <6>1. d \in journal.wrote  BY DEF ToRestore
          <6>2. journal # NoJournal  BY <6>1 DEF NoJournal
          <6>3. journal.before \in AllTexts /\ d \in Dictionaries
            BY <1>1, <6>1, <6>2 DEF FileTypes, Journals
          <6> QED  BY <6>3 DEF AllTexts
        <5> QED  BY <5>1
      <4> QED  BY <1>1, <3>2, <4>1 DEF FileTypes, AllTexts
    <3> QED  BY <1>3, <3>1, <3>2 DEF WorkRecover, WorkDiscard
  <2>4. journal' \in Journals  BY <1>1, <1>3 DEF WorkRecover, WorkDiscard, FileTypes, Journals
  <2>5. UNCHANGED <<list, config, whitelist, slipped, edits>>
    BY <1>3 DEF WorkRecover, WorkDiscard
  <2> QED  BY <1>1, <2>2, <2>3, <2>4, <2>5 DEF FileTypes, GoesOn
<1> QED  BY <1>2, <1>3

(* Only the file that is written changes.                                       *)
LEMMA BecomesTyped ==
    ASSUME FileTypes, NEW path, NEW l \in Texts, NEW c \in Configs, NEW w \in {"absent", "ours"},
           Becomes(path, l, c, w)
    PROVE  FileTypes' /\ setup' = setup
  BY DEF Becomes, FileTypes

(* A configuration that is written is one.                                      *)
LEMMA ConfigTyped ==
    /\ \A enabled \in SUBSET Family, excluded \in SUBSET Dictionaries : Config(enabled, excluded) \in Configs
    /\ \A s \in {"broken", "absent"} : NoConfig(s) \in Configs
  BY DEF Config, NoConfig, Configs

(* Setup keeps the types and its plan, and goes on or ends.                     *)
LEMMA SetupTyped ==
    ASSUME Types, SetupStep
    PROVE  FileTypes' /\ GoesOn /\ setup' \in {setup, NoSetup}
<1>1. FileTypes /\ op \in Ops /\ op.kind = "setup" /\ op.plan \in SetupPlans
  BY DEF Types, OpTypes, SetupStep, SetupChecks, SetupLocks, SetupCreates, SetupBreaksOff,
       SetupEnds,
         SetupUndoes, SetupIsUndone, At, Unsettled, PlansOf
<1>2. op.todo \in Seq(Paths) /\ op.created \in Seq(Paths) /\ op.leftover \in SUBSET Paths
      /\ op.plan.create \in Seq(Paths) /\ op.plan.new \in Configs /\ changes \in Nat
      /\ op.outcome \in Outcomes
  BY <1>1 DEF Ops, SetupPlans, FileTypes
<1> DEFINE G == FileTypes' /\ GoesOn /\ setup' \in {setup, NoSetup}
<1> USE DEF GoesOn, At, Phases, Outcomes
<1>3. ASSUME UNCHANGED <<files, edits>>, slipped' \in {slipped, {}}, setup' \in {setup, NoSetup},
             NEW result \in Outcomes, End(result), op.phase \in {"start", "lock", "create",
             "undo"}
      PROVE  G
  <2>1. /\ op' \in Ops /\ op'.kind = op.kind /\ op'.plan = op.plan /\ op'.phase = "ended"
        /\ changes' \in Nat
    BY <1>1, <1>2, <1>3, EndTyped
  <2> QED  BY <1>1, <1>3, <2>1 DEF FileTypes, files
<1>4. CASE SetupChecks
  <2>1. CASE Go("lock")
    <3>1. /\ op' \in Ops /\ op'.kind = op.kind /\ op'.plan = op.plan /\ op'.phase = "lock"
          /\ changes' \in Nat
      BY <1>1, <1>2, <2>1, GoTyped
    <3> QED  BY <1>1, <1>4, <3>1 DEF SetupChecks, FileTypes, files
  <2> QED  BY <1>3, <1>4, <2>1 DEF SetupChecks
<1>5. CASE SetupLocks
  <2>1. CASE op' = [op EXCEPT !.phase = "create", !.todo = op.plan.create]
    <3>1. op' \in Ops /\ op'.kind = op.kind /\ op'.plan = op.plan /\ op'.phase = "create"
      BY <1>1, <1>2, <2>1 DEF Ops
    <3> QED  BY <1>1, <1>2, <1>5, <3>1 DEF SetupLocks, FileTypes, files, End
  <2>2. CASE \E result \in Outcomes : End(result) /\ UNCHANGED slipped
    BY <1>3, <1>5, <2>2 DEF SetupLocks
  <2> QED  BY <1>5, <2>1, <2>2 DEF SetupLocks
<1>6. CASE SetupCreates
  <2> DEFINE path == Head(op.todo)
  <2>1. path \in Paths /\ Tail(op.todo) \in Seq(Paths) /\ Append(op.created, path) \in Seq(Paths)
    BY <1>2, <1>6 DEF SetupCreates
  <2>2. op' = [op EXCEPT !.todo = Tail(@), !.created = Append(@, path)] /\ op.phase = "create"
    BY <1>6 DEF SetupCreates
  <2>3. Text({}) \in Texts  BY TextTyped
  <2>4. FileTypes' /\ setup' = setup
    BY <1>1, <1>2, <1>6, <2>3, BecomesTyped DEF SetupCreates
  <2> HIDE DEF path
  <2>5. op' \in Ops /\ op'.kind = op.kind /\ op'.plan = op.plan /\ op'.phase = "create"
    BY <1>1, <1>2, <2>1, <2>2 DEF Ops
  <2> QED  BY <2>2, <2>4, <2>5
<1>7. CASE SetupBreaksOff
  <2>1. Reverse(op.created) \in Seq(Paths)  BY <1>2 DEF Reverse
  <2>2. op' \in Ops /\ op'.kind = op.kind /\ op'.plan = op.plan /\ op'.phase = "undo"
    BY <1>1, <1>7, <2>1 DEF SetupBreaksOff, UndoOrder, Ops
  <2> QED  BY <1>1, <1>7, <2>2 DEF SetupBreaksOff, FileTypes, files
<1>8. CASE SetupEnds
  BY <1>3, <1>8 DEF SetupEnds
<1>9. CASE SetupUndoes
  <2> DEFINE path == Head(op.todo)
             rest == [op EXCEPT !.todo = Tail(@)]
  <2>1. path \in Paths /\ Tail(op.todo) \in Seq(Paths)  BY <1>2, <1>9 DEF SetupUndoes
  <2> HIDE DEF path
  <2>2. /\ rest \in Ops /\ rest.kind = op.kind /\ rest.plan = op.plan /\ rest.phase = op.phase
        /\ rest.leftover = op.leftover
    BY <1>1, <2>1 DEF Ops
  <2> HIDE DEF rest
  <2>3. [rest EXCEPT !.leftover = @ \cup {path}] \in Ops
        /\ [rest EXCEPT !.leftover = @ \cup {path}].kind = op.kind
        /\ [rest EXCEPT !.leftover = @ \cup {path}].plan = op.plan
        /\ [rest EXCEPT !.leftover = @ \cup {path}].phase = op.phase
    BY <1>2, <2>1, <2>2 DEF Ops
  <2>4. op' = rest \/ op' = [rest EXCEPT !.leftover = @ \cup {path}]
    BY <1>9 DEF SetupUndoes, path, rest
  <2>5. NoConfig("absent") \in Configs /\ Missing \in Texts  BY ConfigTyped, TextTyped
  <2>6. Becomes(path, Missing, NoConfig("absent"), "absent") \/ Becomes("none", list, config, whitelist)
    BY <1>9 DEF SetupUndoes, path
  <2>7. FileTypes' /\ setup' = setup
    BY <1>1, <2>5, <2>6, BecomesTyped DEF FileTypes
  <2> QED  BY <1>9, <2>2, <2>3, <2>4, <2>7 DEF SetupUndoes
<1>10. CASE SetupIsUndone
  BY <1>3, <1>10 DEF SetupIsUndone
<1> QED  BY <1>4, <1>5, <1>6, <1>7, <1>8, <1>9, <1>10 DEF SetupStep

(* Save keeps the types and its plan, and goes on or ends.                      *)
LEMMA SaveTyped ==
    ASSUME Types, SaveStep  PROVE FileTypes' /\ GoesOn /\ UNCHANGED settings
<1>1. FileTypes /\ op \in Ops /\ op.kind = "targets" /\ op.plan \in SavePlans /\ changes \in Nat
      /\ op.plan.new \in Configs
  BY DEF Types, OpTypes, SaveStep, SaveChecks, SaveLocks, SaveWrites, SaveVerifies, At,
       Unsettled, PlansOf,
         FileTypes, SavePlans
<1>2. CASE \E result \in Outcomes : End(result)
  <2>1. /\ op' \in Ops /\ op'.kind = op.kind /\ op'.plan = op.plan /\ op'.phase = "ended"
        /\ changes' \in Nat
    BY <1>1, <1>2, EndTyped
  <2> QED  BY <1>1, <2>1 DEF SaveStep, SaveChecks, SaveLocks, SaveWrites, SaveVerifies, Stays, files,
              FileTypes, GoesOn, At
<1>3. CASE \E phase \in {"lock", "write", "verify"} : Go(phase)
  <2>1. /\ op' \in Ops /\ op'.kind = op.kind /\ op'.plan = op.plan /\ op'.phase \in {"lock", "write", "verify"}
        /\ changes' \in Nat
    BY <1>1, <1>3, GoTyped DEF Phases
  <2> QED  BY <1>1, <2>1 DEF SaveStep, SaveChecks, SaveLocks, SaveWrites, SaveVerifies, Stays, files,
              FileTypes, GoesOn, At
<1> QED  BY <1>2, <1>3 DEF SaveStep, SaveChecks, SaveLocks, SaveWrites, SaveVerifies, Outcomes

(* A worker keeps the types and its plan, and leaves the screens alone.         *)
LEMMA WorkerTyped ==
    ASSUME Types, Worker
    PROVE  FileTypes' /\ GoesOn /\ setup' \in {setup, NoSetup} /\ UNCHANGED settings /\ UNCHANGED ui
  BY PullTyped, PushTyped, RecoverTyped, SetupTyped, SaveTyped DEF Worker

-----------------------------------------------------------------------------
(* The screens.                                                              *)

(* Opening a screen puts it on top, closing it takes it off.                    *)
LEMMA StackTyped ==
    ASSUME stack \in Seq(AllScreens), NEW screen \in AllScreens
    PROVE  /\ Opened(screen) \in Seq(AllScreens) /\ Len(Opened(screen)) = Len(stack) + 1
           /\ Opened(screen)[Len(stack) + 1] = screen
           /\ \A i \in 1 .. Len(stack) : Opened(screen)[i] = stack[i]
           /\ stack # <<>> => /\ Closed \in Seq(AllScreens) /\ Len(Closed) = Len(stack) - 1
                              /\ \A i \in 1 .. Len(stack) - 1 : Closed[i] = stack[i]
<1>1. /\ Opened(screen) \in Seq(AllScreens) /\ Len(Opened(screen)) = Len(stack) + 1
      /\ Opened(screen)[Len(stack) + 1] = screen
      /\ \A i \in 1 .. Len(stack) : Opened(screen)[i] = stack[i]
  BY AppendProperties DEF Opened
<1>2. ASSUME stack # <<>>
      PROVE  /\ Closed \in Seq(AllScreens) /\ Len(Closed) = Len(stack) - 1
             /\ \A i \in 1 .. Len(stack) - 1 : Closed[i] = stack[i]
  <2> DEFINE n == Len(stack) - 1
  <2>1. n \in Nat /\ n \in 0 .. Len(stack)  BY <1>2
  <2>2. SubSeq(stack, 1, n) = [i \in 1 .. n |-> stack[i]]
    BY <2>1
  <2>3. Closed = SubSeq(stack, 1, n)  BY DEF Closed, Front
  <2>4. \A i \in 1 .. n : stack[i] \in AllScreens  BY <2>1
  <2> HIDE DEF n
  <2>5. /\ Closed \in Seq(AllScreens) /\ Len(Closed) = n /\ \A i \in 1 .. n : Closed[i] = stack[i]
    BY <2>1, <2>2, <2>3, <2>4
  <2> QED  BY <2>5 DEF n
<1> QED  BY <1>1, <1>2

(* An operation that runs has its screen on top, under as many that say so.        *)
LEMMA RunStep ==
    ASSUME Types, RunInv, Next  PROVE RunInv'
<1>1. stack \in Seq(AllScreens)  BY DEF Types, UiTypes
<1>2. op.phase \in Phases /\ mutation \in BOOLEAN  BY DEF Types, OpTypes, Ops, UiTypes
<1>3. Elsewhere => ~Unsettled  BY <1>1, CoveredNotElsewhere DEF RunInv
<1>4. CASE Rests
  <2>1. UNCHANGED <<op, mutation>>  BY <1>4 DEF Rests, folder
  <2>2. CASE UNCHANGED stack  BY <2>1, <2>2 DEF RunInv, Unsettled, Covered
  <2>3. CASE Elsewhere  BY <1>3, <2>1, <2>3 DEF RunInv, Unsettled
  <2>4. ASSUME CloseBusy, Unsettled  PROVE RunInv'
    <3>1. PICK k \in 1 .. Len(stack) : /\ stack[k] = "Operation"
                                       /\ \A i \in k + 1 .. Len(stack) : stack[i] = "Busy"
      BY <2>4 DEF RunInv, Covered
    <3>2. stack # <<>> /\ stack[Len(stack)] = "Busy" /\ stack' = Closed /\ Len(stack) \in Nat
      BY <1>1, <2>4 DEF CloseBusy, On, Last
    <3>3. k # Len(stack)  BY <3>1, <3>2
    <3>4. Len(Closed) = Len(stack) - 1 /\ \A i \in 1 .. Len(stack) - 1 : Closed[i] = stack[i]
      BY <1>1, <3>2, StackTyped DEF AllScreens
    <3>5. k \in 1 .. Len(stack') /\ stack'[k] = "Operation"
          /\ \A i \in k + 1 .. Len(stack') : stack'[i] = "Busy"
      BY <3>1, <3>2, <3>3, <3>4
    <3> QED  BY <2>1, <3>5 DEF RunInv, Unsettled, Covered
  <2>5. CASE CloseBusy /\ ~Unsettled  BY <2>1, <2>5 DEF RunInv, Unsettled
  <2> QED  BY <1>4, <2>2, <2>3, <2>4, <2>5 DEF Rests
<1>5. CASE Starts
  <2>1. PICK kind \in Kinds : \E plan \in PlansOf(kind) : Begins(kind, plan)  BY <1>5 DEF Starts
  <2>2. PICK plan \in PlansOf(kind) : Begins(kind, plan)  BY <2>1
  <2>3. CASE mutation
    <3>1. stack' = Opened("Busy") /\ UNCHANGED <<op, mutation>>  BY <2>2, <2>3 DEF Begins
    <3>2. PICK k \in 1 .. Len(stack) : /\ stack[k] = "Operation"
                                       /\ \A i \in k + 1 .. Len(stack) : stack[i] = "Busy"
      BY <2>3 DEF RunInv, Covered
    <3>3. Len(stack') = Len(stack) + 1 /\ stack'[Len(stack) + 1] = "Busy" /\ Len(stack) \in Nat
          /\ \A i \in 1 .. Len(stack) : stack'[i] = stack[i]
      BY <1>1, <3>1, StackTyped DEF AllScreens
    <3>4. k \in 1 .. Len(stack') /\ stack'[k] = "Operation"
          /\ \A i \in k + 1 .. Len(stack') : stack'[i] = "Busy"
      BY <3>2, <3>3
    <3> QED  BY <3>1, <3>4 DEF RunInv, Unsettled, Covered
  <2>4. CASE ~mutation
    <3>1. stack' = Opened("Operation") /\ op' = Start(kind, plan) /\ mutation' = TRUE
      BY <2>2, <2>4 DEF Begins
    <3>2. op'.phase = "start"  BY <3>1 DEF Start, NoOp
    <3>3. Len(stack') = Len(stack) + 1 /\ stack'[Len(stack) + 1] = "Operation" /\ Len(stack) \in Nat
      BY <1>1, <3>1, StackTyped DEF AllScreens
    <3>4. Covered'  BY <3>3 DEF Covered
    <3> QED  BY <3>1, <3>2, <3>4 DEF RunInv, Unsettled
  <2> QED  BY <1>2, <2>3, <2>4
<1>6. CASE Settles
  <2>1. op'.phase \in {"none", "shown"}
    <3>1. CASE op' = NoOp  BY <3>1 DEF NoOp
    <3>2. CASE op' = [NoOp EXCEPT !.kind = op.kind, !.phase = "shown", !.outcome = op.outcome]
      BY <3>2 DEF NoOp
    <3> QED  BY <1>6, <3>1, <3>2 DEF Settles
  <2> QED  BY <1>6, <2>1 DEF Settles, RunInv, Unsettled
<1>7. CASE Leaves
  <2>1. op'.phase = "none"  BY <1>7 DEF Leaves, NoOp
  <2> QED  BY <1>3, <1>7, <2>1 DEF Leaves, RunInv, Unsettled
<1>8. CASE Writes
  BY <1>8 DEF Writes, SaveWord, RunInv, Unsettled, Covered
<1>9. CASE Worker
  <2>1. GoesOn /\ UNCHANGED ui  BY <1>9, WorkerTyped
  <2> QED  BY <2>1 DEF GoesOn, ui, RunInv, Unsettled, Covered
<1>10. CASE Others
  BY <1>10 DEF Others, EditList, EditDict, EditConfig, Edits, ui, RunInv, Unsettled, Covered
<1>11. CASE OperationEnds
  <2>1. op'.phase = "shown" /\ mutation' = FALSE
    BY <1>11 DEF OperationEnds, Types, OpTypes, Ops
  <2> QED  BY <2>1 DEF RunInv, Unsettled
<1>12. CASE Stop
  <2>1. op'.phase = "none" /\ mutation' = FALSE  BY <1>12 DEF Stop, NoOp
  <2> QED  BY <2>1 DEF RunInv, Unsettled
<1> QED  BY <1>4, <1>5, <1>6, <1>7, <1>8, <1>9, <1>10, <1>11, <1>12, FolderMoves

(* While an operation runs, no step starts another or starts it again.          *)
LEMMA OneAtATimeStep ==
    ASSUME Types, RunInv, Next, Unsettled, stack' # <<>>
    PROVE  /\ op'.kind = op.kind /\ op'.plan = op.plan
           /\ op'.phase = "start" => op.phase = "start"
<1>1. stack \in Seq(AllScreens)  BY DEF Types, UiTypes
<1>2. ~Elsewhere /\ mutation  BY <1>1, CoveredNotElsewhere DEF RunInv
<1>3. CASE Rests  BY <1>3 DEF Rests, folder
<1>4. CASE Starts  BY <1>2, <1>4 DEF Starts, Begins
<1>5. CASE Settles  BY <1>5 DEF Settles, Unsettled
<1>6. CASE Writes  BY <1>6 DEF Writes, SaveWord
<1>7. CASE Worker
  <2>1. GoesOn  BY <1>7, WorkerTyped
  <2> QED  BY <2>1 DEF GoesOn
<1>8. CASE Others  BY <1>8 DEF Others, EditList, EditDict, EditConfig, Edits
<1>9. CASE OperationEnds  BY <1>9 DEF OperationEnds, Types, OpTypes, Ops
<1>10. CASE Stop  BY <1>10 DEF Stop
<1> QED  BY <1>2, <1>3, <1>4, <1>5, <1>6, <1>7, <1>8, <1>9, <1>10, FolderMoves DEF Leaves

-----------------------------------------------------------------------------
(* Types.                                                                    *)

(* No operation, and one that starts.                                           *)
LEMMA NoOpTyped ==
    /\ NoOp \in Ops /\ NoOp.phase = "none" /\ NoOp.kind = "none"
    /\ \A kind \in Kinds : \A plan \in PlansOf(kind) :
          /\ Start(kind, plan) \in Ops /\ Start(kind, plan).kind = kind
          /\ Start(kind, plan).plan = plan /\ Start(kind, plan).phase = "start"
          /\ Start(kind, plan).created = <<>>
<1>1. NoOp \in Ops /\ NoOp.phase = "none" /\ NoOp.kind = "none" /\ NoOp.created = <<>>
  BY DEF NoOp, Ops, Phases, Plans, Outcomes
<1>2. ASSUME NEW kind \in Kinds, NEW plan \in PlansOf(kind)
      PROVE  /\ Start(kind, plan) \in Ops /\ Start(kind, plan).kind = kind
             /\ Start(kind, plan).plan = plan /\ Start(kind, plan).phase = "start"
             /\ Start(kind, plan).created = <<>>
  <2>1. plan \in Plans  BY DEF PlansOf, Plans, Kinds
  <2> QED  BY <1>1, <2>1 DEF Start, Ops, Phases
<1> QED  BY <1>1, <1>2

(* Other programs write contents of the files.                                  *)
LEMMA OthersTyped ==
    ASSUME FileTypes, EditList \/ EditDict \/ EditConfig  PROVE FileTypes'
<1>1. edits' \in 0 .. MaxEdits /\ UNCHANGED <<whitelist, journal, changes>>
  BY ProjectAssumption DEF EditList, EditDict, EditConfig, Edits, FileTypes
<1>2. slipped' \subseteq {"list", "config", "dict"}
  BY DEF EditList, EditDict, EditConfig, Slips, FileTypes
<1>3. list' \in Texts /\ config' \in Configs
  BY ProjectAssumption DEF EditList, EditDict, EditConfig, FileTypes
<1>4. dict' \in AllTexts
  <2>1. CASE EditDict
    <3>1. PICK d \in Dictionaries : \E t \in EditDicts[d] : dict' = [dict EXCEPT ![d] = t]
      BY <2>1 DEF EditDict
    <3>2. PICK t \in EditDicts[d] : dict' = [dict EXCEPT ![d] = t]  BY <3>1
    <3>3. t \in Texts  BY ProjectAssumption
    <3> QED  BY <3>2, <3>3 DEF FileTypes, AllTexts
  <2> QED  BY <2>1 DEF EditList, EditConfig, FileTypes
<1> QED  BY <1>1, <1>2, <1>3, <1>4 DEF FileTypes

(* The files keep their types.                                                  *)
LEMMA FileTypesStep ==
    ASSUME Types, Next  PROVE FileTypes'
<1>0. FileTypes  BY DEF Types
<1>1. CASE Writes
  <2>1. PICK w \in Word : SaveWord(w)  BY <1>1 DEF Writes
  <2>2. list' = Text(list.words \cup {w})  BY <2>1 DEF SaveWord
  <2>3. list.words \in SUBSET Word  BY <1>0, TextTyped DEF FileTypes
  <2>4. list' \in Texts
    <3>1. list.words \cup {w} \in SUBSET Word  BY <2>3
    <3> QED  BY <2>2, <3>1, TextTyped
  <2> QED  BY <1>0, <2>1, <2>4 DEF SaveWord, FileTypes
<1>2. CASE Worker  BY <1>2, WorkerTyped
<1>3. CASE Others  BY <1>0, <1>3, OthersTyped DEF Others
<1>4. CASE UNCHANGED files /\ UNCHANGED <<changes, edits>> /\ slipped' \in {slipped, {}}
  BY <1>0, <1>4 DEF files, FileTypes
<1>5. CASE Rests  BY <1>4, <1>5 DEF Rests, folder
<1>6. CASE Starts  BY <1>4, <1>6 DEF Starts
<1>7. CASE Settles  BY <1>4, <1>7 DEF Settles
<1>8. CASE Leaves \/ Stop  BY <1>4, <1>8 DEF Leaves, Stop
<1>9. CASE OperationEnds  BY <1>4, <1>9 DEF OperationEnds
<1> QED  BY <1>1, <1>2, <1>3, <1>5, <1>6, <1>7, <1>8, <1>9, FolderMoves

(* The operation keeps its type, and a plan of its kind.                        *)
LEMMA OpTypesStep ==
    ASSUME Types, Next  PROVE OpTypes'
<1>0. OpTypes  BY DEF Types
<1>1. CASE UNCHANGED op  BY <1>0, <1>1 DEF OpTypes, Unsettled
<1>2. CASE Starts
  <2>1. PICK kind \in Kinds : \E plan \in PlansOf(kind) : Begins(kind, plan)  BY <1>2 DEF Starts
  <2>2. PICK plan \in PlansOf(kind) : Begins(kind, plan)  BY <2>1
  <2>3. CASE op' = Start(kind, plan)  BY <2>3, NoOpTyped DEF OpTypes
  <2> QED  BY <1>1, <2>2, <2>3 DEF Begins
<1>3. ASSUME op' \in Ops, op'.phase \in {"none", "shown"}  PROVE OpTypes'
  BY <1>3 DEF OpTypes, Unsettled
<1>4. CASE op' = NoOp  BY <1>3, <1>4, NoOpTyped
<1>5. CASE Settles
  <2>1. op.kind \in Kinds \cup {"none"} /\ op.outcome \in Outcomes  BY <1>0 DEF OpTypes, Ops
  <2> DEFINE o == [NoOp EXCEPT !.kind = op.kind, !.phase = "shown", !.outcome = op.outcome]
  <2>2. o \in Ops /\ o.phase = "shown"  BY <2>1, NoOpTyped DEF Ops, Phases
  <2> HIDE DEF o
  <2>3. op' = NoOp \/ op' = o  BY <1>5 DEF Settles, o
  <2> QED  BY <1>3, <1>4, <2>2, <2>3
<1>6. CASE Worker
  <2>1. GoesOn  BY <1>6, WorkerTyped
  <2> QED  BY <1>0, <2>1 DEF GoesOn, OpTypes, Unsettled
<1>7. CASE OperationEnds
  <2>1. op' \in Ops /\ op'.phase = "shown"  BY <1>0, <1>7 DEF OperationEnds, OpTypes, Ops, Phases
  <2> QED  BY <1>3, <2>1
<1> QED
  BY <1>1, <1>2, <1>4, <1>5, <1>6, <1>7, FolderMoves
     DEF Rests, Leaves, Writes, SaveWord, Others, EditList, EditDict, EditConfig, Edits, Stop, folder

(* s lists the paths of P, in the order they are created.                         *)
Lists(s, P) ==
    /\ s \in Seq(Paths) /\ Rising(s) /\ \A i \in 1 .. Len(s) : s[i] \in P
    /\ \A path \in P : \E i \in 1 .. Len(s) : s[i] = path

(* One list after another, when every path of the first comes before those of the *)
(* second.                                                                      *)
LEMMA ListsConcat ==
    ASSUME NEW s, NEW u, NEW P, NEW Q, Lists(s, P), Lists(u, Q),
           \A p \in P, q \in Q : Rank(p) < Rank(q)
    PROVE  Lists(s \o u, P \cup Q)
<1> DEFINE w == s \o u
<1>1. /\ w \in Seq(Paths) /\ Len(w) = Len(s) + Len(u) /\ Len(s) \in Nat /\ Len(u) \in Nat
      /\ \A i \in 1 .. Len(s) : w[i] = s[i]
      /\ \A i \in 1 .. Len(u) : w[Len(s) + i] = u[i]
  BY ConcatProperties DEF Lists
<1>2. \A i \in 1 .. Len(w) : \/ i \in 1 .. Len(s) /\ w[i] = s[i]
                             \/ i - Len(s) \in 1 .. Len(u) /\ w[i] = u[i - Len(s)]
  <2> HIDE DEF w
  <2> SUFFICES ASSUME NEW i \in 1 .. Len(w)
               PROVE  \/ i \in 1 .. Len(s) /\ w[i] = s[i]
                      \/ i - Len(s) \in 1 .. Len(u) /\ w[i] = u[i - Len(s)]
    OBVIOUS
  <2>1. CASE i <= Len(s)  BY <1>1, <2>1
  <2>2. CASE i > Len(s)
    <3>1. i - Len(s) \in 1 .. Len(u) /\ Len(s) + (i - Len(s)) = i  BY <1>1, <2>2
    <3> QED  BY <1>1, <3>1
  <2> QED  BY <1>1, <2>1, <2>2
<1> HIDE DEF w
<1>3. ASSUME NEW i \in 1 .. Len(w), NEW j \in 1 .. Len(w), i < j  PROVE Rank(w[i]) < Rank(w[j])
  <2>1. CASE j \in 1 .. Len(s)
    <3>1. i \in 1 .. Len(s)  BY <1>1, <1>3, <2>1
    <3>2. w[i] = s[i] /\ w[j] = s[j]  BY <1>1, <2>1, <3>1
    <3>3. Rank(s[i]) < Rank(s[j])  BY <1>3, <2>1, <3>1 DEF Lists, Rising
    <3> QED  BY <3>2, <3>3
  <2>2. CASE i \in 1 .. Len(s) /\ j \notin 1 .. Len(s)  BY <1>2, <2>2 DEF Lists
  <2>3. CASE i \notin 1 .. Len(s) /\ j \notin 1 .. Len(s)
    <3>1. i - Len(s) < j - Len(s)  BY <1>1, <1>3
    <3> QED  BY <1>2, <2>3, <3>1 DEF Lists, Rising
  <2> QED  BY <1>1, <1>3, <2>1, <2>2, <2>3
<1>4. \A i \in 1 .. Len(w) : w[i] \in P \cup Q  BY <1>2 DEF Lists
<1>5. \A path \in P \cup Q : \E i \in 1 .. Len(w) : w[i] = path
  <2>1. ASSUME NEW path \in P  PROVE \E i \in 1 .. Len(w) : w[i] = path
    <3>1. PICK i \in 1 .. Len(s) : s[i] = path  BY DEF Lists
    <3> QED  BY <1>1, <3>1
  <2>2. ASSUME NEW path \in Q  PROVE \E i \in 1 .. Len(w) : w[i] = path
    <3>1. PICK i \in 1 .. Len(u) : u[i] = path  BY DEF Lists
    <3>2. Len(s) + i \in 1 .. Len(w)  BY <1>1
    <3> QED  BY <1>1, <3>1, <3>2
  <2> QED  BY <2>1, <2>2
<1> QED  BY <1>1, <1>3, <1>4, <1>5 DEF Lists, Rising, w

(* What Start here is to create is what is missing, in a fixed order.             *)
LEMMA ToCreateTyped ==
    Lists(ToCreate, {path \in Paths : ~Present(path)})
<1> DEFINE Lacks(path) == {p \in {path} : ~Present(p)}
<1>1. ASSUME NEW path \in Paths  PROVE Lists(IfMissing(path), Lacks(path))
  <2>1. CASE Present(path)
    <3>1. IfMissing(path) = <<>> /\ Lacks(path) = {} /\ Len(<<>>) = 0 /\ <<>> \in Seq(Paths)
      BY <2>1 DEF IfMissing
    <3> QED  BY <3>1 DEF Lists, Rising
  <2>2. CASE ~Present(path)
    <3>1. /\ IfMissing(path) = <<path>> /\ Lacks(path) = {path} /\ Len(<<path>>) = 1
          /\ <<path>> \in Seq(Paths) /\ <<path>>[1] = path
      BY <2>2 DEF IfMissing
    <3> QED  BY <3>1 DEF Lists, Rising
  <2> QED  BY <2>1, <2>2
<1> DEFINE both == IfMissing("list") \o IfMissing("config")
<1>2. "list" \in Paths /\ "config" \in Paths /\ "whitelist" \in Paths  BY DEF Paths
<1>3. Rank("list") < Rank("config") /\ Rank("config") < Rank("whitelist") /\ Rank("list") < Rank("whitelist")
  BY DEF Rank
<1>4. Lists(both, Lacks("list") \cup Lacks("config"))  BY <1>1, <1>2, <1>3, ListsConcat
<1> HIDE DEF both
<1>5. Lists(both \o IfMissing("whitelist"), (Lacks("list") \cup Lacks("config")) \cup Lacks("whitelist"))
  BY <1>1, <1>2, <1>3, <1>4, ListsConcat
<1>6. (Lacks("list") \cup Lacks("config")) \cup Lacks("whitelist") = {path \in Paths : ~Present(path)}
  BY DEF Paths
<1> QED  BY <1>5, <1>6 DEF ToCreate, both

(* Any box that can be ticked makes a selection.                                *)
LEMMA ToggledTyped ==
    ASSUME NEW sel \in Selections, NEW disc \in Discoveries
    PROVE  /\ Toggled(sel, disc) \subseteq Selections
           /\ MergeSelection(sel, disc.rows, disc) \in Selections
           /\ DefaultSelection(disc) \in Selections
<1>1. \A f \in Family : ToggleFamily(sel, disc, f) \in Selections
  BY DEF ToggleFamily, Selection, Selections
<1>2. \A d \in Dictionaries : ToggleDictionary(sel, disc, d) \in Selections
  BY DEF ToggleDictionary, Selection, Selections
<1>3. SelectAvailable(sel, disc) \in Selections /\ ClearSelectable(sel, disc) \in Selections
  BY DEF SelectAvailable, ClearSelectable, Selection, Selections, Discoveries
<1>4. FamilyBoxes(sel, disc) \subseteq Selections /\ DictionaryBoxes(sel, disc) \subseteq Selections
  BY <1>1, <1>2 DEF FamilyBoxes, DictionaryBoxes, Discoveries
<1> QED  BY <1>3, <1>4 DEF Toggled, MergeSelection, DefaultSelection, Selection, Selections, Discoveries

(* What the program discovers, and nothing, are discoveries.                    *)
LEMMA DiscoveryTyped ==
    Discovery \in Discoveries /\ NoDiscovery \in Discoveries /\ NoSelection \in Selections
  BY ApplicationAssumption
     DEF Discovery, Discover, Discoveries, NoDiscovery, NoSelection, Selection, Selections

(* What a step does to the setup session.                                       *)
LEMMA SetupMoves ==
    ASSUME Types, Next
    PROVE  \/ setup' \in {setup, NoSetup, [setup EXCEPT !.plan = Nothing]}
           \/ PickList \/ ChooseForSetup \/ PrepareSetup
<1> DEFINE G == \/ setup' \in {setup, NoSetup, [setup EXCEPT !.plan = Nothing]}
                \/ PickList \/ ChooseForSetup \/ PrepareSetup
<1> SUFFICES G  OBVIOUS
<1>1. ASSUME Launch  PROVE G
  BY <1>1 DEF Launch, NeedsSetup, Still, Unseen
<1>2. ASSUME Stop  PROVE G
  BY <1>2 DEF Stop
<1>3. ASSUME Worker  PROVE G
  <2>1. setup' \in {setup, NoSetup}  BY <1>3, WorkerTyped
  <2> QED  BY <2>1
<1>4. ASSUME Others  PROVE G
  BY <1>4 DEF Others
<1>5. ASSUME OperationEnds  PROVE G
  BY <1>5 DEF OperationEnds
<1>6. ASSUME NEW i \in Slot, LoadReads(i)  PROVE G
  BY <1>6 DEF LoadReads, Still
<1>7. ASSUME NEW i \in Slot, LoadSets(i)  PROVE G
  BY <1>7 DEF LoadSets, Still
<1>8. ASSUME NEW i \in Slot, LoadArrives(i)  PROVE G
  BY <1>8 DEF LoadArrives, Still
<1>9. ASSUME NEW i \in Slot, LoadFails(i)  PROVE G
  BY <1>9 DEF LoadFails, Still
<1>10. ASSUME CloseBusy  PROVE G
  BY <1>10 DEF CloseBusy, Still
<1>11. ASSUME DismissReview  PROVE G
  BY <1>11 DEF DismissReview, Reports, Record
<1>12. ASSUME Dismiss  PROVE G
  BY <1>12 DEF Dismiss, Reported
<1>13. ASSUME OpenPull  PROVE G
  BY <1>13 DEF OpenPull, Enter, Entered, Unmoved, Still, Steady
<1>14. ASSUME OpenPreview  PROVE G
  BY <1>14 DEF OpenPreview, Enter, Entered, Still
<1>15. ASSUME RefreshPull  PROVE G
  BY <1>15 DEF RefreshPull, Still
<1>16. ASSUME RefreshPreview  PROVE G
  BY <1>16 DEF RefreshPreview, Still
<1>17. ASSUME RunPull  PROVE G
  BY <1>17 DEF RunPull, StartPull, OnlyBegins
<1>18. ASSUME RunPush  PROVE G
  BY <1>18 DEF RunPush, StartPush, OnlyBegins
<1>19. ASSUME ClosePull  PROVE G
  BY <1>19 DEF ClosePull, Still
<1>20. ASSUME ClosePreview  PROVE G
  BY <1>20 DEF ClosePreview, Still
<1>21. ASSUME PullNext  PROVE G
  BY <1>21 DEF PullNext, LeaveCollect, DetourFromPull, Continue, Still, Record
<1>22. ASSUME ResumePull  PROVE G
  BY <1>22 DEF ResumePull, Still
<1>23. ASSUME OpenAddWords  PROVE G
  BY <1>23 DEF OpenAddWords, Enter, Entered, Still
<1>24. ASSUME NEW w \in Word, SaveWord(w)  PROVE G
  BY <1>24 DEF SaveWord
<1>25. ASSUME CloseAddWords  PROVE G
  BY <1>25 DEF CloseAddWords, Still
<1>26. ASSUME AddWordsNext  PROVE G
  BY <1>26 DEF AddWordsNext, Continue, Still, Record
<1>27. ASSUME RefreshDashboard  PROVE G
  BY <1>27 DEF RefreshDashboard, Still
<1>28. ASSUME OpenReview  PROVE G
  BY <1>28 DEF OpenReview, Enter, Entered, Unmoved, Still, Steady
<1>29. ASSUME StartReview  PROVE G
  BY <1>29 DEF StartReview, Unmoved, Still, Steady
<1>30. ASSUME LeaveReview  PROVE G
  BY <1>30 DEF LeaveReview, Unmoved, Still, Steady
<1>31. ASSUME ReviewRunPull  PROVE G
  BY <1>31 DEF ReviewRunPull, StartPull, OnlyBegins
<1>32. ASSUME SkipCollect  PROVE G
  BY <1>32 DEF SkipCollect, LeaveCollect, DetourFromPull, Continue, Still, Record
<1>33. ASSUME ReviewUpdate  PROVE G
  BY <1>33 DEF ReviewUpdate, Still
<1>34. ASSUME ReviewRunPush  PROVE G
  BY <1>34 DEF ReviewRunPush, ReviewUpdatable, StartPush, OnlyBegins
<1>35. ASSUME CloseReviewPush  PROVE G
  BY <1>35 DEF CloseReviewPush, Still
<1>36. ASSUME FinishReview  PROVE G
  BY <1>36 DEF FinishReview, CanFinish, Reports, Record, Unmoved, Still, Steady
<1>37. ASSUME EndReview  PROVE G
  BY <1>37 DEF EndReview, Homewards, Still
<1>38. ASSUME ReportHome  PROVE G
  BY <1>38 DEF ReportHome, LeaveReport, Homewards
<1>39. ASSUME ReportNext  PROVE G
  BY <1>39 DEF ReportNext, Continue, Still, Record
<1>40. ASSUME ReportRebuild  PROVE G
  BY <1>40 DEF ReportRebuild, RebuildOffered, LeaveReport, Homewards
<1>41. ASSUME InspectRecovery  PROVE G
  BY <1>41 DEF InspectRecovery, Still
<1>42. ASSUME RunRecovery  PROVE G
  BY <1>42 DEF RunRecovery, Pressed, Offered, StartRecovery, OnlyBegins
<1>43. ASSUME CloseRecovery  PROVE G
  BY <1>43 DEF CloseRecovery, Still
<1>44. ASSUME SetupScreens  PROVE G
  BY <1>44 DEF SetupScreens, BeginSetup, ChooseFolder, ChooseApps, ReviewSetup, BackInSetup,
       Unseen
<1>45. ASSUME CreateProject  PROVE G
  BY <1>45 DEF CreateProject
<1>46. ASSUME OpenExisting  PROVE G
  BY <1>46 DEF OpenExisting, Homewards
<1>47. ASSUME SettingsScreens  PROVE G
  BY <1>47 DEF SettingsScreens, OpenApplications, ChooseApplications, ReviewApplications,
       BackInApplications, Unseen
<1>48. ASSUME SaveSettings  PROVE G
  BY <1>48 DEF SaveSettings
<1> QED
  BY <1>1, <1>2, <1>3, <1>4, <1>5, <1>6, <1>7, <1>8, <1>9, <1>10, <1>11, <1>12, <1>13, <1>14,
     <1>15, <1>16, <1>17, <1>18, <1>19, <1>20, <1>21, <1>22, <1>23, <1>24, <1>25, <1>26,
     <1>27, <1>28,
     <1>29, <1>30, <1>31, <1>32, <1>33, <1>34, <1>35, <1>36, <1>37, <1>38, <1>39, <1>40,
     <1>41, <1>42,
     <1>43, <1>44, <1>45, <1>46, <1>47, <1>48
     DEF Next, User, LoadStep

(* The setup session keeps its type; a plan lists what is missing, in order.    *)
LEMMA SetupTypesStep ==
    ASSUME Types, Next  PROVE setup' \in Setups
<1>0. setup \in Setups /\ FileTypes  BY DEF Types
<1>1. Nothing \in {Nothing} \cup SetupPlans  OBVIOUS
<1>2. NoSetup \in Setups  BY DiscoveryTyped DEF NoSetup, Setups
<1>3. CASE PickList
  <2>1. MergeSelection(setup.sel, setup.disc.rows, Discovery) \in Selections
        /\ DefaultSelection(Discovery) \in Selections
    BY <1>0, DiscoveryTyped
       DEF MergeSelection, DefaultSelection, Selection, Selections, Setups, Discoveries
  <2> QED  BY <1>0, <1>3, <2>1, DiscoveryTyped DEF PickList, Setups
<1>4. CASE ChooseForSetup
  <2>1. PICK s \in Toggled(setup.sel, setup.disc) : setup' = [setup EXCEPT !.sel = s, !.plan = Nothing]
    BY <1>4 DEF ChooseForSetup
  <2>2. s \in Selections  BY <1>0, ToggledTyped DEF Setups
  <2> QED  BY <1>0, <2>1, <2>2 DEF Setups
<1>5. CASE PrepareSetup
  <2> DEFINE p == [conflict |-> list.status = "unreadable" \/ Present("config"),
                   exists   |-> Present("config"),
                   keep     |-> {path \in Paths \ {"config"} : Present(path)},
                   kept     |-> <<list, whitelist>>,
                   create   |-> ToCreate,
                   new      |-> Config(setup.sel.families, setup.sel.excluded)]
  <2>1. setup' = [setup EXCEPT !.plan = p]  BY <1>5 DEF PrepareSetup
  <2>2. p.new \in Configs  BY <1>0, ConfigTyped DEF Setups, Selections
  <2>3. p.conflict \in BOOLEAN /\ p.exists \in BOOLEAN /\ p.keep \in SUBSET {"list", "whitelist"}
    BY DEF Paths, Present
  <2>4. <<list, whitelist>> \in Texts \X {"absent", "ours"}  BY <1>0 DEF FileTypes
  <2>5. \A path \in {"list", "whitelist"} :
            path \in p.keep \/ \E i \in 1 .. Len(p.create) : p.create[i] = path
    BY ToCreateTyped DEF Paths, Lists
  <2>6. "list" \in p.keep => p.kept[1].status # "missing"  BY DEF Present
  <2>7. p \in SetupPlans
    BY <2>2, <2>3, <2>4, <2>5, <2>6, ToCreateTyped DEF SetupPlans, Lists
  <2> HIDE DEF p
  <2> QED  BY <1>0, <2>1, <2>7 DEF Setups
<1>6. CASE setup' = [setup EXCEPT !.plan = Nothing]  BY <1>0, <1>6 DEF Setups
<1> QED  BY <1>0, <1>2, <1>3, <1>4, <1>5, <1>6, SetupMoves

(* What a step does to the settings session.                                    *)
LEMMA SettingsMoves ==
    ASSUME Types, Next
    PROVE  \/ settings' \in {settings, NoSettings, [settings EXCEPT !.plan = Nothing]}
           \/ OpenSettings \/ ChooseForSettings \/ ReadConfig \/ HashConfig
<1> DEFINE G == \/ settings' \in {settings, NoSettings, [settings EXCEPT !.plan = Nothing]}
                \/ OpenSettings \/ ChooseForSettings \/ ReadConfig \/ HashConfig
<1> SUFFICES G  OBVIOUS
<1>1. ASSUME Launch  PROVE G
  BY <1>1 DEF Launch, NeedsSetup, Still, Unseen
<1>2. ASSUME Stop  PROVE G
  BY <1>2 DEF Stop
<1>3. ASSUME Worker  PROVE G
  <2>1. settings' = settings  BY <1>3, WorkerTyped
  <2> QED  BY <2>1
<1>4. ASSUME Others  PROVE G
  BY <1>4 DEF Others
<1>5. ASSUME OperationEnds  PROVE G
  BY <1>5 DEF OperationEnds
<1>6. ASSUME NEW i \in Slot, LoadReads(i)  PROVE G
  BY <1>6 DEF LoadReads, Still
<1>7. ASSUME NEW i \in Slot, LoadSets(i)  PROVE G
  BY <1>7 DEF LoadSets, Still
<1>8. ASSUME NEW i \in Slot, LoadArrives(i)  PROVE G
  BY <1>8 DEF LoadArrives, Still
<1>9. ASSUME NEW i \in Slot, LoadFails(i)  PROVE G
  BY <1>9 DEF LoadFails, Still
<1>10. ASSUME CloseBusy  PROVE G
  BY <1>10 DEF CloseBusy, Still
<1>11. ASSUME DismissReview  PROVE G
  BY <1>11 DEF DismissReview, Reports, Record
<1>12. ASSUME Dismiss  PROVE G
  BY <1>12 DEF Dismiss, Reported
<1>13. ASSUME OpenPull  PROVE G
  BY <1>13 DEF OpenPull, Enter, Entered, Unmoved, Still, Steady
<1>14. ASSUME OpenPreview  PROVE G
  BY <1>14 DEF OpenPreview, Enter, Entered, Still
<1>15. ASSUME RefreshPull  PROVE G
  BY <1>15 DEF RefreshPull, Still
<1>16. ASSUME RefreshPreview  PROVE G
  BY <1>16 DEF RefreshPreview, Still
<1>17. ASSUME RunPull  PROVE G
  BY <1>17 DEF RunPull, StartPull, OnlyBegins
<1>18. ASSUME RunPush  PROVE G
  BY <1>18 DEF RunPush, StartPush, OnlyBegins
<1>19. ASSUME ClosePull  PROVE G
  BY <1>19 DEF ClosePull, Still
<1>20. ASSUME ClosePreview  PROVE G
  BY <1>20 DEF ClosePreview, Still
<1>21. ASSUME PullNext  PROVE G
  BY <1>21 DEF PullNext, LeaveCollect, DetourFromPull, Continue, Still, Record
<1>22. ASSUME ResumePull  PROVE G
  BY <1>22 DEF ResumePull, Still
<1>23. ASSUME OpenAddWords  PROVE G
  BY <1>23 DEF OpenAddWords, Enter, Entered, Still
<1>24. ASSUME NEW w \in Word, SaveWord(w)  PROVE G
  BY <1>24 DEF SaveWord
<1>25. ASSUME CloseAddWords  PROVE G
  BY <1>25 DEF CloseAddWords, Still
<1>26. ASSUME AddWordsNext  PROVE G
  BY <1>26 DEF AddWordsNext, Continue, Still, Record
<1>27. ASSUME RefreshDashboard  PROVE G
  BY <1>27 DEF RefreshDashboard, Still
<1>28. ASSUME OpenReview  PROVE G
  BY <1>28 DEF OpenReview, Enter, Entered, Unmoved, Still, Steady
<1>29. ASSUME StartReview  PROVE G
  BY <1>29 DEF StartReview, Unmoved, Still, Steady
<1>30. ASSUME LeaveReview  PROVE G
  BY <1>30 DEF LeaveReview, Unmoved, Still, Steady
<1>31. ASSUME ReviewRunPull  PROVE G
  BY <1>31 DEF ReviewRunPull, StartPull, OnlyBegins
<1>32. ASSUME SkipCollect  PROVE G
  BY <1>32 DEF SkipCollect, LeaveCollect, DetourFromPull, Continue, Still, Record
<1>33. ASSUME ReviewUpdate  PROVE G
  BY <1>33 DEF ReviewUpdate, Still
<1>34. ASSUME ReviewRunPush  PROVE G
  BY <1>34 DEF ReviewRunPush, ReviewUpdatable, StartPush, OnlyBegins
<1>35. ASSUME CloseReviewPush  PROVE G
  BY <1>35 DEF CloseReviewPush, Still
<1>36. ASSUME FinishReview  PROVE G
  BY <1>36 DEF FinishReview, CanFinish, Reports, Record, Unmoved, Still, Steady
<1>37. ASSUME EndReview  PROVE G
  BY <1>37 DEF EndReview, Homewards, Still
<1>38. ASSUME ReportHome  PROVE G
  BY <1>38 DEF ReportHome, LeaveReport, Homewards
<1>39. ASSUME ReportNext  PROVE G
  BY <1>39 DEF ReportNext, Continue, Still, Record
<1>40. ASSUME ReportRebuild  PROVE G
  BY <1>40 DEF ReportRebuild, RebuildOffered, LeaveReport, Homewards
<1>41. ASSUME InspectRecovery  PROVE G
  BY <1>41 DEF InspectRecovery, Still
<1>42. ASSUME RunRecovery  PROVE G
  BY <1>42 DEF RunRecovery, Pressed, Offered, StartRecovery, OnlyBegins
<1>43. ASSUME CloseRecovery  PROVE G
  BY <1>43 DEF CloseRecovery, Still
<1>44. ASSUME SetupScreens  PROVE G
  BY <1>44 DEF SetupScreens, BeginSetup, ChooseFolder, ChooseApps, ReviewSetup, BackInSetup,
       Unseen
<1>45. ASSUME CreateProject  PROVE G
  BY <1>45 DEF CreateProject
<1>46. ASSUME OpenExisting  PROVE G
  BY <1>46 DEF OpenExisting, Homewards
<1>47. ASSUME SettingsScreens  PROVE G
  BY <1>47 DEF SettingsScreens, OpenApplications, ChooseApplications, ReviewApplications,
       BackInApplications, Unseen
<1>48. ASSUME SaveSettings  PROVE G
  BY <1>48 DEF SaveSettings
<1> QED
  BY <1>1, <1>2, <1>3, <1>4, <1>5, <1>6, <1>7, <1>8, <1>9, <1>10, <1>11, <1>12, <1>13, <1>14,
     <1>15, <1>16, <1>17, <1>18, <1>19, <1>20, <1>21, <1>22, <1>23, <1>24, <1>25, <1>26,
     <1>27, <1>28,
     <1>29, <1>30, <1>31, <1>32, <1>33, <1>34, <1>35, <1>36, <1>37, <1>38, <1>39, <1>40,
     <1>41, <1>42,
     <1>43, <1>44, <1>45, <1>46, <1>47, <1>48
     DEF Next, User, LoadStep

(* The settings session keeps its type.                                         *)
LEMMA SettingsTypesStep ==
    ASSUME Types, Next  PROVE settings' \in AllSettings
<1>0. settings \in AllSettings /\ FileTypes  BY DEF Types
<1>1. NoSettings \in AllSettings  BY DiscoveryTyped DEF NoSettings, AllSettings
<1>2. CASE OpenSettings
  <2>1. LoadedSettings.enabled \in SUBSET Family /\ LoadedSettings.disc \in Discoveries
        /\ LoadedSettings.excluded \in SUBSET Dictionaries /\ LoadedSettings.error \in BOOLEAN
    BY <1>0, DiscoveryTyped DEF LoadedSettings, FileTypes, Configs
  <2>2. FromEnabled(LoadedSettings.disc, LoadedSettings.enabled, LoadedSettings.excluded) \in Selections
    BY <2>1 DEF FromEnabled, Selection, Selections
  <2>3. edits \in Nat  BY <1>0, ProjectAssumption DEF FileTypes
  <2> QED  BY <1>1, <1>2, <2>1, <2>2, <2>3 DEF OpenSettings, AllSettings
<1>3. CASE ChooseForSettings
  <2>1. PICK s \in Toggled(settings.sel, settings.disc) :
           settings' = [settings EXCEPT !.sel = s, !.plan = Nothing, !.touched = @ \cup Switched(s)]
    BY <1>3 DEF ChooseForSettings
  <2>2. s \in Selections  BY <1>0, ToggledTyped DEF AllSettings
  <2>3. Switched(s) \in SUBSET Family  BY <1>0, <2>2 DEF Switched, Selections, AllSettings
  <2> QED  BY <1>0, <2>1, <2>2, <2>3 DEF AllSettings
<1>4. CASE ReadConfig
  <2>1. Prepared(config) \in Configs
    <3>1. ResolveEnabled(Discovery, settings.sel.families, config.enabled) \in SUBSET Family
      BY <1>0 DEF ResolveEnabled, AllSettings, Selections, FileTypes, Configs
    <3>2. \A e : ResolveExcluded(Discovery, settings.sel.excluded, e) \in SUBSET Dictionaries
      BY <1>0 DEF ResolveExcluded, AllSettings, Selections
    <3> QED  BY <3>1, <3>2, ConfigTyped DEF Prepared
  <2> DEFINE p == [read |-> config, hash |-> Nothing, new |-> Prepared(config),
                   ok   |-> /\ journal = NoJournal /\ config.status = "valid"
                            /\ Prepared(config) # config]
  <2>2. p \in SavePlans  BY <1>0, <2>1 DEF SavePlans, FileTypes
  <2>3. settings' = [settings EXCEPT !.returned = Discovery.open \ settings.disc.rows, !.plan = p]
    BY <1>4 DEF ReadConfig
  <2>4. Discovery.open \in SUBSET Family  BY DEF Discovery, Discover
  <2> HIDE DEF p
  <2> QED  BY <1>0, <2>2, <2>3, <2>4 DEF AllSettings
<1>5. CASE HashConfig
  <2> DEFINE p == [settings.plan EXCEPT !.hash = config]
  <2>1. settings.plan \in SavePlans  BY <1>0, <1>5 DEF HashConfig, AllSettings
  <2>2. p \in SavePlans  BY <1>0, <2>1 DEF SavePlans, FileTypes
  <2>3. settings' = [settings EXCEPT !.plan = p]  BY <1>0, <1>5 DEF HashConfig, AllSettings
  <2> HIDE DEF p
  <2> QED  BY <1>0, <2>2, <2>3 DEF AllSettings
<1>6. CASE settings' = [settings EXCEPT !.plan = Nothing]  BY <1>0, <1>6 DEF AllSettings
<1> QED  BY <1>0, <1>1, <1>2, <1>3, <1>4, <1>5, <1>6, SettingsMoves

-----------------------------------------------------------------------------
(* Types of what the screens keep.                                           *)

(* What the screens start with.                                                 *)
LEMMA ScreensTyped ==
    ASSUME FileTypes, mutation \in BOOLEAN
    PROVE  /\ NoPull \in Pulls /\ NoPush \in Pushes /\ NoSession \in ReviewSessions /\ Idle \in Loads
           /\ DashboardNow \in Dashes /\ DashboardFailed \in Dashes /\ NoDash \in Dashes
           /\ RecoveryNow \in Previews
           /\ [NoPull EXCEPT !.shown = Snapshot, !.active = PullId(Snapshot)] \in Pulls
           /\ [shown |-> Snapshot, same |-> TRUE] \in Pushes
<1>1. Snapshot \in Snapshots  BY SnapshotTyped
<1>2. NoPull \in Pulls /\ NoPush \in Pushes  BY DEF NoPull, Pulls, NoPush, Pushes
<1>3. NoSession \in ReviewSessions  BY DEF NoSession, NoPreview, ReviewSessions, Outcomes
<1>4. Idle \in Loads  BY DEF Idle, Loads
<1>5. DashboardNow \in Dashes /\ DashboardFailed \in Dashes /\ NoDash \in Dashes
  BY DEF DashboardNow, DashboardFailed, NoDash, Dashes, ProjectBlocked, AppsBlocked, Blocks
<1>6. RecoveryNow \in Previews
  BY DEF RecoveryNow, Previews, CanRecover, CanDiscard, FileTypes
<1>7. [NoPull EXCEPT !.shown = Snapshot, !.active = PullId(Snapshot)] \in Pulls
  BY <1>1 DEF NoPull, Pulls
<1>8. [shown |-> Snapshot, same |-> TRUE] \in Pushes  BY <1>1 DEF Pushes
<1> QED  BY <1>2, <1>3, <1>4, <1>5, <1>6, <1>7, <1>8

(* Threads that are begun, left or overtaken are threads.                       *)
LEMMA LoadsTyped ==
    ASSUME Idle \in Loads, NEW ld \in [Slot -> Loads], NEW screens
    PROVE  /\ Leave(ld, screens) \in [Slot -> Loads] /\ Overtaken(ld) \in [Slot -> Loads]
           /\ \A screen \in {"Pull", "Preview", "ReviewPush"} : Begin(ld, screen) \in [Slot -> Loads]
<1>1. \A S : Leave(ld, S) \in [Slot -> Loads]
  <2> TAKE S
  <2>1. \A i \in Slot : [ld[i] EXCEPT !.live = FALSE] \in Loads  BY DEF Loads
  <2> QED  BY <2>1 DEF Leave
<1>2. Overtaken(ld) \in [Slot -> Loads]
  <2>1. \A i \in Slot : [ld[i] EXCEPT !.latest = FALSE] \in Loads  BY DEF Loads
  <2> QED  BY <2>1 DEF Overtaken
<1>3. ASSUME NEW screen \in {"Pull", "Preview", "ReviewPush"}  PROVE Begin(ld, screen) \in [Slot -> Loads]
  <2>1. [Idle EXCEPT !.for = screen, !.phase = "start", !.live = TRUE] \in Loads
    BY DEF Loads, Idle
  <2> QED  BY <1>1, <2>1 DEF Begin
<1> QED  BY <1>1, <1>2, <1>3

(* The stack is of screens.                                                     *)
LEMMA StackTypesStep ==
    ASSUME Types, Next  PROVE stack' \in Seq(AllScreens)
<1> DEFINE G == stack' \in Seq(AllScreens)
<1>0. stack \in Seq(AllScreens)  BY DEF Types, UiTypes
<1>a. \A s \in Seq(AllScreens), screen \in AllScreens : Append(s, screen) \in Seq(AllScreens)
  OBVIOUS
<1>b. stack # <<>> => Closed \in Seq(AllScreens)
  BY <1>0, StackTyped DEF AllScreens
<1>c. Home \in Seq(AllScreens) /\ <<"SetupWelcome">> \in Seq(AllScreens) /\ <<>> \in Seq(AllScreens)
      /\ <<"Preview">> \in Seq(AllScreens) /\ <<"FirstWin">> \in Seq(AllScreens)
  BY DEF Home, AllScreens
<1>d. \A s \in Seq(AllScreens) : Home \o s \in Seq(AllScreens)
  BY <1>c, ConcatProperties
<1> SUFFICES G  OBVIOUS
<1> HIDE DEF G
<1>1. ASSUME Launch  PROVE G
  BY <1>0, <1>a, <1>b, <1>c, <1>1 DEF Launch, NeedsSetup, Still, Unseen, G, AllScreens
<1>2. ASSUME Stop  PROVE G
  BY <1>0, <1>a, <1>b, <1>c, <1>2 DEF Stop, G, AllScreens
<1>3. ASSUME Worker  PROVE G
  <2>1. UNCHANGED ui  BY <1>3, WorkerTyped
  <2> QED  BY <1>0, <2>1 DEF ui, G
<1>4. ASSUME Others  PROVE G
  BY <1>0, <1>4 DEF Others, ui, G
<1>5. ASSUME OperationEnds  PROVE G
  BY <1>0, <1>a, <1>b, <1>c, <1>5 DEF OperationEnds, G, AllScreens
<1>6. ASSUME NEW i \in Slot, LoadReads(i)  PROVE G
  BY <1>0, <1>a, <1>b, <1>c, <1>6 DEF LoadReads, Still, G, AllScreens
<1>7. ASSUME NEW i \in Slot, LoadSets(i)  PROVE G
  BY <1>0, <1>a, <1>b, <1>c, <1>7 DEF LoadSets, Still, G, AllScreens
<1>8. ASSUME NEW i \in Slot, LoadArrives(i)  PROVE G
  BY <1>0, <1>a, <1>b, <1>c, <1>8 DEF LoadArrives, Still, G, AllScreens
<1>9. ASSUME NEW i \in Slot, LoadFails(i)  PROVE G
  BY <1>0, <1>a, <1>b, <1>c, <1>9 DEF LoadFails, Still, G, AllScreens
<1>10. ASSUME CloseBusy  PROVE G
  BY <1>0, <1>a, <1>b, <1>c, <1>10 DEF CloseBusy, Still, G, AllScreens, On
<1>11. ASSUME DismissReview  PROVE G
  <2>1. stack # <<>> /\ \E screen \in {"ReviewPullComplete", "SessionReport", "ReviewPush", "Preview"} : stack' = Append(Closed, screen)
    BY <1>11 DEF DismissReview, On
  <2>2. PICK screen \in {"ReviewPullComplete", "SessionReport", "ReviewPush", "Preview"} : stack' = Append(Closed, screen)
    BY <2>1
  <2>3. screen \in AllScreens  BY DEF AllScreens
  <2> QED  BY <1>a, <1>b, <2>1, <2>2, <2>3 DEF G
<1>12. ASSUME Dismiss  PROVE G
  BY <1>0, <1>a, <1>b, <1>c, <1>12 DEF Dismiss, Reported, G, AllScreens, On, Opened
<1>13. ASSUME OpenPull  PROVE G
  BY <1>0, <1>a, <1>b, <1>c, <1>13 DEF OpenPull, Enter, Entered, Unmoved, Still, Steady, G,
       AllScreens, On, Opened
<1>14. ASSUME OpenPreview  PROVE G
  BY <1>0, <1>a, <1>b, <1>c, <1>14 DEF OpenPreview, Enter, Entered, Still, G, AllScreens, On,
       Opened
<1>15. ASSUME RefreshPull  PROVE G
  BY <1>0, <1>a, <1>b, <1>c, <1>15 DEF RefreshPull, Still, G, AllScreens, On
<1>16. ASSUME RefreshPreview  PROVE G
  BY <1>0, <1>a, <1>b, <1>c, <1>16 DEF RefreshPreview, Still, G, AllScreens, On
<1>17. ASSUME RunPull  PROVE G
  BY <1>0, <1>a, <1>b, <1>c, <1>17 DEF RunPull, StartPull, OnlyBegins, G, AllScreens, On,
       Opened, Begins
<1>18. ASSUME RunPush  PROVE G
  BY <1>0, <1>a, <1>b, <1>c, <1>18 DEF RunPush, StartPush, OnlyBegins, G, AllScreens, On,
       Opened, Begins
<1>19. ASSUME ClosePull  PROVE G
  BY <1>0, <1>a, <1>b, <1>c, <1>19 DEF ClosePull, Still, G, AllScreens, On
<1>20. ASSUME ClosePreview  PROVE G
  BY <1>0, <1>a, <1>b, <1>c, <1>20 DEF ClosePreview, Still, G, AllScreens, On
<1>21. ASSUME PullNext  PROVE G
  BY <1>0, <1>a, <1>b, <1>c, <1>21 DEF PullNext, LeaveCollect, DetourFromPull, Continue,
       Still, Record, G, AllScreens, On, Opened
<1>22. ASSUME ResumePull  PROVE G
  BY <1>0, <1>a, <1>b, <1>c, <1>22 DEF ResumePull, Still, G, AllScreens, On
<1>23. ASSUME OpenAddWords  PROVE G
  BY <1>0, <1>a, <1>b, <1>c, <1>23 DEF OpenAddWords, Enter, Entered, Still, G, AllScreens, On,
       Opened
<1>24. ASSUME NEW w \in Word, SaveWord(w)  PROVE G
  BY <1>0, <1>a, <1>b, <1>c, <1>24 DEF SaveWord, G, AllScreens, On
<1>25. ASSUME CloseAddWords  PROVE G
  BY <1>0, <1>a, <1>b, <1>c, <1>25 DEF CloseAddWords, Still, G, AllScreens, On
<1>26. ASSUME AddWordsNext  PROVE G
  <2>1. stack # <<>> /\ \E screen \in {"ReviewPullComplete", "SessionReport", "ReviewPush", "Preview"} : stack' = Append(Closed, screen)
    BY <1>26 DEF AddWordsNext, On, Continue
  <2>2. PICK screen \in {"ReviewPullComplete", "SessionReport", "ReviewPush", "Preview"} : stack' = Append(Closed, screen)
    BY <2>1
  <2>3. screen \in AllScreens  BY DEF AllScreens
  <2> QED  BY <1>a, <1>b, <2>1, <2>2, <2>3 DEF G
<1>27. ASSUME RefreshDashboard  PROVE G
  BY <1>0, <1>a, <1>b, <1>c, <1>27 DEF RefreshDashboard, Still, G, AllScreens, On
<1>28. ASSUME OpenReview  PROVE G
  BY <1>0, <1>a, <1>b, <1>c, <1>28 DEF OpenReview, Enter, Entered, Unmoved, Still, Steady, G,
       AllScreens, On, Opened
<1>29. ASSUME StartReview  PROVE G
  BY <1>0, <1>a, <1>b, <1>c, <1>29 DEF StartReview, Unmoved, Still, Steady, G, AllScreens, On
<1>30. ASSUME LeaveReview  PROVE G
  BY <1>0, <1>a, <1>b, <1>c, <1>30 DEF LeaveReview, Unmoved, Still, Steady, G, AllScreens, On
<1>31. ASSUME ReviewRunPull  PROVE G
  BY <1>0, <1>a, <1>b, <1>c, <1>31 DEF ReviewRunPull, StartPull, OnlyBegins, G, AllScreens,
       On, Opened, Begins
<1>32. ASSUME SkipCollect  PROVE G
  BY <1>0, <1>a, <1>b, <1>c, <1>32 DEF SkipCollect, LeaveCollect, DetourFromPull, Continue,
       Still, Record, G, AllScreens, On, Opened
<1>33. ASSUME ReviewUpdate  PROVE G
  BY <1>0, <1>a, <1>b, <1>c, <1>33 DEF ReviewUpdate, Still, G, AllScreens, On, Opened
<1>34. ASSUME ReviewRunPush  PROVE G
  BY <1>0, <1>a, <1>b, <1>c, <1>34 DEF ReviewRunPush, ReviewUpdatable, StartPush, OnlyBegins,
       G, AllScreens, On, Opened, Begins
<1>35. ASSUME CloseReviewPush  PROVE G
  BY <1>0, <1>a, <1>b, <1>c, <1>35 DEF CloseReviewPush, Still, G, AllScreens, On
<1>36. ASSUME FinishReview  PROVE G
  BY <1>0, <1>a, <1>b, <1>c, <1>36 DEF FinishReview, CanFinish, Reports, Record, Unmoved,
       Still, Steady, G, AllScreens, On, Opened
<1>37. ASSUME EndReview  PROVE G
  <2>1. \E s \in {<<>>, <<"FirstWin">>, <<"Preview">>} : stack' = Home \o s
    BY <1>37 DEF EndReview, Homewards, Still
  <2> QED  BY <1>c, <1>d, <2>1 DEF G
<1>38. ASSUME ReportHome  PROVE G
  <2>1. \E s \in {<<>>, <<"FirstWin">>, <<"Preview">>} : stack' = Home \o s
    BY <1>38 DEF ReportHome, LeaveReport, Homewards
  <2> QED  BY <1>c, <1>d, <2>1 DEF G
<1>39. ASSUME ReportNext  PROVE G
  BY <1>0, <1>a, <1>b, <1>c, <1>39 DEF ReportNext, Continue, Still, Record, G, AllScreens, On
<1>40. ASSUME ReportRebuild  PROVE G
  <2>1. \E s \in {<<>>, <<"FirstWin">>, <<"Preview">>} : stack' = Home \o s
    BY <1>40 DEF ReportRebuild, RebuildOffered, LeaveReport, Homewards
  <2> QED  BY <1>c, <1>d, <2>1 DEF G
<1>41. ASSUME InspectRecovery  PROVE G
  BY <1>0, <1>a, <1>b, <1>c, <1>41 DEF InspectRecovery, Still, G, AllScreens, On, Opened
<1>42. ASSUME RunRecovery  PROVE G
  BY <1>0, <1>a, <1>b, <1>c, <1>42 DEF RunRecovery, Pressed, Offered, StartRecovery,
       OnlyBegins, G, AllScreens, On, Opened, Begins
<1>43. ASSUME CloseRecovery  PROVE G
  BY <1>0, <1>a, <1>b, <1>c, <1>43 DEF CloseRecovery, Still, G, AllScreens, On
<1>44. ASSUME SetupScreens  PROVE G
  BY <1>0, <1>a, <1>b, <1>c, <1>44 DEF SetupScreens, BeginSetup, ChooseFolder, ChooseApps,
       ReviewSetup, BackInSetup, Unseen, G, AllScreens, On, Opened
<1>45. ASSUME CreateProject  PROVE G
  BY <1>0, <1>a, <1>b, <1>c, <1>45 DEF CreateProject, G, AllScreens, On, Opened, Begins
<1>46. ASSUME OpenExisting  PROVE G
  <2>1. \E s \in {<<>>, <<"FirstWin">>, <<"Preview">>} : stack' = Home \o s
    BY <1>46 DEF OpenExisting, Homewards
  <2> QED  BY <1>c, <1>d, <2>1 DEF G
<1>47. ASSUME SettingsScreens  PROVE G
  BY <1>0, <1>a, <1>b, <1>c, <1>47 DEF SettingsScreens, OpenApplications, ChooseApplications,
       ReviewApplications, BackInApplications, Unseen, G, AllScreens, On, Opened
<1>48. ASSUME SaveSettings  PROVE G
  BY <1>0, <1>a, <1>b, <1>c, <1>48 DEF SaveSettings, G, AllScreens, On, Opened, Begins
<1> QED
  BY <1>1, <1>2, <1>3, <1>4, <1>5, <1>6, <1>7, <1>8, <1>9, <1>10, <1>11, <1>12, <1>13, <1>14,
     <1>15, <1>16, <1>17, <1>18, <1>19, <1>20, <1>21, <1>22, <1>23, <1>24, <1>25, <1>26,
     <1>27, <1>28,
     <1>29, <1>30, <1>31, <1>32, <1>33, <1>34, <1>35, <1>36, <1>37, <1>38, <1>39, <1>40,
     <1>41, <1>42,
     <1>43, <1>44, <1>45, <1>46, <1>47, <1>48
     DEF Next, User, LoadStep

(* Collect shows a preview or nothing.                                          *)
LEMMA PullTypesStep ==
    ASSUME Types, Next  PROVE pull' \in Pulls
<1> DEFINE G == pull' \in Pulls
<1>0. pull \in Pulls /\ FileTypes /\ mutation \in BOOLEAN /\ load \in [Slot -> Loads]
  BY DEF Types, UiTypes
<1>a. NoPull \in Pulls /\ [NoPull EXCEPT !.shown = Snapshot, !.active = PullId(Snapshot)] \in Pulls
  BY <1>0, ScreensTyped
<1>b. [pull EXCEPT !.active = Nothing] \in Pulls /\ [pull EXCEPT !.refresh = TRUE] \in Pulls
  BY <1>0 DEF Pulls
<1> SUFFICES G  OBVIOUS
<1>1. ASSUME Launch  PROVE G
  BY <1>0, <1>a, <1>b, <1>1 DEF Launch, NeedsSetup, Still, Unseen
<1>2. ASSUME Stop  PROVE G
  BY <1>0, <1>a, <1>b, <1>2 DEF Stop
<1>3. ASSUME Worker  PROVE G
  <2>1. UNCHANGED ui  BY <1>3, WorkerTyped
  <2> QED  BY <1>0, <2>1 DEF ui, G
<1>4. ASSUME Others  PROVE G
  BY <1>0, <1>4 DEF Others, ui, G
<1>5. ASSUME OperationEnds  PROVE G
  BY <1>b, <1>5 DEF OperationEnds
<1>6. ASSUME NEW i \in Slot, LoadReads(i)  PROVE G
  BY <1>0, <1>a, <1>b, <1>6 DEF LoadReads, Still
<1>7. ASSUME NEW i \in Slot, LoadSets(i)  PROVE G
  <2>1. load[i].got \in Snapshots  BY <1>0, <1>7 DEF LoadSets, Loads
  <2>2. [pull EXCEPT !.active = PullId(load[i].got)] \in Pulls  BY <1>0, <2>1 DEF Pulls
  <2> QED  BY <1>0, <1>7, <2>2 DEF LoadSets
<1>8. ASSUME NEW i \in Slot, LoadArrives(i)  PROVE G
  <2>1. load[i].got \in Snapshots  BY <1>0, <1>8 DEF LoadArrives, Loads
  <2>2. [pull EXCEPT !.shown = load[i].got] \in Pulls  BY <1>0, <2>1 DEF Pulls
  <2> QED  BY <1>0, <1>8, <2>2 DEF LoadArrives
<1>9. ASSUME NEW i \in Slot, LoadFails(i)  PROVE G
  BY <1>0, <1>a, <1>b, <1>9 DEF LoadFails, Still
<1>10. ASSUME CloseBusy  PROVE G
  BY <1>0, <1>a, <1>b, <1>10 DEF CloseBusy, Still
<1>11. ASSUME DismissReview  PROVE G
  BY <1>0, <1>a, <1>b, <1>11 DEF DismissReview, Reports, Record
<1>12. ASSUME Dismiss  PROVE G
  BY <1>0, <1>a, <1>b, <1>12 DEF Dismiss, Reported
<1>13. ASSUME OpenPull  PROVE G
  BY <1>0, <1>a, <1>b, <1>13 DEF OpenPull, Enter, Entered, Unmoved, Still, Steady
<1>14. ASSUME OpenPreview  PROVE G
  BY <1>0, <1>a, <1>b, <1>14 DEF OpenPreview, Enter, Entered, Still
<1>15. ASSUME RefreshPull  PROVE G
  BY <1>0, <1>a, <1>b, <1>15 DEF RefreshPull, Still
<1>16. ASSUME RefreshPreview  PROVE G
  BY <1>0, <1>a, <1>b, <1>16 DEF RefreshPreview, Still
<1>17. ASSUME RunPull  PROVE G
  BY <1>0, <1>a, <1>b, <1>17 DEF RunPull, StartPull, OnlyBegins
<1>18. ASSUME RunPush  PROVE G
  BY <1>0, <1>a, <1>b, <1>18 DEF RunPush, StartPush, OnlyBegins
<1>19. ASSUME ClosePull  PROVE G
  BY <1>0, <1>a, <1>b, <1>19 DEF ClosePull, Still
<1>20. ASSUME ClosePreview  PROVE G
  BY <1>0, <1>a, <1>b, <1>20 DEF ClosePreview, Still
<1>21. ASSUME PullNext  PROVE G
  BY <1>0, <1>a, <1>b, <1>21 DEF PullNext, LeaveCollect, DetourFromPull, Continue, Still, Record
<1>22. ASSUME ResumePull  PROVE G
  BY <1>0, <1>a, <1>b, <1>22 DEF ResumePull, Still
<1>23. ASSUME OpenAddWords  PROVE G
  BY <1>0, <1>a, <1>b, <1>23 DEF OpenAddWords, Enter, Entered, Still
<1>24. ASSUME NEW w \in Word, SaveWord(w)  PROVE G
  BY <1>0, <1>a, <1>b, <1>24 DEF SaveWord
<1>25. ASSUME CloseAddWords  PROVE G
  BY <1>0, <1>a, <1>b, <1>25 DEF CloseAddWords, Still
<1>26. ASSUME AddWordsNext  PROVE G
  BY <1>0, <1>a, <1>b, <1>26 DEF AddWordsNext, Continue, Still, Record
<1>27. ASSUME RefreshDashboard  PROVE G
  BY <1>0, <1>a, <1>b, <1>27 DEF RefreshDashboard, Still
<1>28. ASSUME OpenReview  PROVE G
  BY <1>0, <1>a, <1>b, <1>28 DEF OpenReview, Enter, Entered, Unmoved, Still, Steady
<1>29. ASSUME StartReview  PROVE G
  BY <1>0, <1>a, <1>b, <1>29 DEF StartReview, Unmoved, Still, Steady
<1>30. ASSUME LeaveReview  PROVE G
  BY <1>0, <1>a, <1>b, <1>30 DEF LeaveReview, Unmoved, Still, Steady
<1>31. ASSUME ReviewRunPull  PROVE G
  BY <1>0, <1>a, <1>b, <1>31 DEF ReviewRunPull, StartPull, OnlyBegins
<1>32. ASSUME SkipCollect  PROVE G
  BY <1>0, <1>a, <1>b, <1>32 DEF SkipCollect, LeaveCollect, DetourFromPull, Continue, Still,
       Record
<1>33. ASSUME ReviewUpdate  PROVE G
  BY <1>0, <1>a, <1>b, <1>33 DEF ReviewUpdate, Still
<1>34. ASSUME ReviewRunPush  PROVE G
  BY <1>0, <1>a, <1>b, <1>34 DEF ReviewRunPush, ReviewUpdatable, StartPush, OnlyBegins
<1>35. ASSUME CloseReviewPush  PROVE G
  BY <1>0, <1>a, <1>b, <1>35 DEF CloseReviewPush, Still
<1>36. ASSUME FinishReview  PROVE G
  BY <1>0, <1>a, <1>b, <1>36 DEF FinishReview, CanFinish, Reports, Record, Unmoved, Still,
       Steady
<1>37. ASSUME EndReview  PROVE G
  BY <1>0, <1>a, <1>b, <1>37 DEF EndReview, Homewards, Still
<1>38. ASSUME ReportHome  PROVE G
  BY <1>0, <1>a, <1>b, <1>38 DEF ReportHome, LeaveReport, Homewards
<1>39. ASSUME ReportNext  PROVE G
  BY <1>0, <1>a, <1>b, <1>39 DEF ReportNext, Continue, Still, Record
<1>40. ASSUME ReportRebuild  PROVE G
  BY <1>0, <1>a, <1>b, <1>40 DEF ReportRebuild, RebuildOffered, LeaveReport, Homewards
<1>41. ASSUME InspectRecovery  PROVE G
  BY <1>0, <1>a, <1>b, <1>41 DEF InspectRecovery, Still
<1>42. ASSUME RunRecovery  PROVE G
  BY <1>0, <1>a, <1>b, <1>42 DEF RunRecovery, Pressed, Offered, StartRecovery, OnlyBegins
<1>43. ASSUME CloseRecovery  PROVE G
  BY <1>0, <1>a, <1>b, <1>43 DEF CloseRecovery, Still
<1>44. ASSUME SetupScreens  PROVE G
  BY <1>0, <1>a, <1>b, <1>44 DEF SetupScreens, BeginSetup, ChooseFolder, ChooseApps,
       ReviewSetup, BackInSetup, Unseen
<1>45. ASSUME CreateProject  PROVE G
  BY <1>0, <1>a, <1>b, <1>45 DEF CreateProject
<1>46. ASSUME OpenExisting  PROVE G
  BY <1>0, <1>a, <1>b, <1>46 DEF OpenExisting, Homewards
<1>47. ASSUME SettingsScreens  PROVE G
  BY <1>0, <1>a, <1>b, <1>47 DEF SettingsScreens, OpenApplications, ChooseApplications,
       ReviewApplications, BackInApplications, Unseen
<1>48. ASSUME SaveSettings  PROVE G
  BY <1>0, <1>a, <1>b, <1>48 DEF SaveSettings
<1> QED
  BY <1>1, <1>2, <1>3, <1>4, <1>5, <1>6, <1>7, <1>8, <1>9, <1>10, <1>11, <1>12, <1>13, <1>14,
     <1>15, <1>16, <1>17, <1>18, <1>19, <1>20, <1>21, <1>22, <1>23, <1>24, <1>25, <1>26,
     <1>27, <1>28,
     <1>29, <1>30, <1>31, <1>32, <1>33, <1>34, <1>35, <1>36, <1>37, <1>38, <1>39, <1>40,
     <1>41, <1>42,
     <1>43, <1>44, <1>45, <1>46, <1>47, <1>48
     DEF Next, User, LoadStep

(* Update shows a preview or nothing.                                           *)
LEMMA PushTypesStep ==
    ASSUME Types, Next  PROVE push' \in Pushes
<1> DEFINE G == push' \in Pushes
<1>0. push \in Pushes /\ FileTypes /\ mutation \in BOOLEAN /\ load \in [Slot -> Loads]
  BY DEF Types, UiTypes
<1>a. NoPush \in Pushes /\ [shown |-> Snapshot, same |-> TRUE] \in Pushes
  BY <1>0, ScreensTyped
<1>b. [push EXCEPT !.same = FALSE] \in Pushes
  BY <1>0 DEF Pushes
<1> SUFFICES G  OBVIOUS
<1>1. ASSUME Launch  PROVE G
  BY <1>0, <1>a, <1>b, <1>1 DEF Launch, NeedsSetup, Still, Unseen
<1>2. ASSUME Stop  PROVE G
  BY <1>0, <1>a, <1>b, <1>2 DEF Stop
<1>3. ASSUME Worker  PROVE G
  <2>1. UNCHANGED ui  BY <1>3, WorkerTyped
  <2> QED  BY <1>0, <2>1 DEF ui, G
<1>4. ASSUME Others  PROVE G
  BY <1>0, <1>4 DEF Others, ui, G
<1>5. ASSUME OperationEnds  PROVE G
  BY <1>0, <1>a, <1>b, <1>5 DEF OperationEnds
<1>6. ASSUME NEW i \in Slot, LoadReads(i)  PROVE G
  BY <1>0, <1>a, <1>b, <1>6 DEF LoadReads, Still
<1>7. ASSUME NEW i \in Slot, LoadSets(i)  PROVE G
  BY <1>0, <1>a, <1>b, <1>7 DEF LoadSets, Still
<1>8. ASSUME NEW i \in Slot, LoadArrives(i)  PROVE G
  <2>1. load[i].got \in Snapshots /\ load[i].latest \in BOOLEAN
    BY <1>0, <1>8 DEF LoadArrives, Loads
  <2>2. [shown |-> load[i].got, same |-> load[i].latest] \in Pushes  BY <2>1 DEF Pushes
  <2> QED  BY <1>0, <1>8, <2>2 DEF LoadArrives
<1>9. ASSUME NEW i \in Slot, LoadFails(i)  PROVE G
  BY <1>0, <1>a, <1>b, <1>9 DEF LoadFails, Still
<1>10. ASSUME CloseBusy  PROVE G
  BY <1>0, <1>a, <1>b, <1>10 DEF CloseBusy, Still
<1>11. ASSUME DismissReview  PROVE G
  BY <1>0, <1>a, <1>b, <1>11 DEF DismissReview, Reports, Record
<1>12. ASSUME Dismiss  PROVE G
  BY <1>0, <1>a, <1>b, <1>12 DEF Dismiss, Reported
<1>13. ASSUME OpenPull  PROVE G
  BY <1>0, <1>a, <1>b, <1>13 DEF OpenPull, Enter, Entered, Unmoved, Still, Steady
<1>14. ASSUME OpenPreview  PROVE G
  BY <1>0, <1>a, <1>b, <1>14 DEF OpenPreview, Enter, Entered, Still
<1>15. ASSUME RefreshPull  PROVE G
  BY <1>0, <1>a, <1>b, <1>15 DEF RefreshPull, Still
<1>16. ASSUME RefreshPreview  PROVE G
  BY <1>0, <1>a, <1>b, <1>16 DEF RefreshPreview, Still
<1>17. ASSUME RunPull  PROVE G
  BY <1>0, <1>a, <1>b, <1>17 DEF RunPull, StartPull, OnlyBegins
<1>18. ASSUME RunPush  PROVE G
  BY <1>0, <1>a, <1>b, <1>18 DEF RunPush, StartPush, OnlyBegins
<1>19. ASSUME ClosePull  PROVE G
  BY <1>0, <1>a, <1>b, <1>19 DEF ClosePull, Still
<1>20. ASSUME ClosePreview  PROVE G
  BY <1>0, <1>a, <1>b, <1>20 DEF ClosePreview, Still
<1>21. ASSUME PullNext  PROVE G
  BY <1>0, <1>a, <1>b, <1>21 DEF PullNext, LeaveCollect, DetourFromPull, Continue, Still, Record
<1>22. ASSUME ResumePull  PROVE G
  BY <1>0, <1>a, <1>b, <1>22 DEF ResumePull, Still
<1>23. ASSUME OpenAddWords  PROVE G
  BY <1>0, <1>a, <1>b, <1>23 DEF OpenAddWords, Enter, Entered, Still
<1>24. ASSUME NEW w \in Word, SaveWord(w)  PROVE G
  BY <1>0, <1>a, <1>b, <1>24 DEF SaveWord
<1>25. ASSUME CloseAddWords  PROVE G
  BY <1>0, <1>a, <1>b, <1>25 DEF CloseAddWords, Still
<1>26. ASSUME AddWordsNext  PROVE G
  BY <1>0, <1>a, <1>b, <1>26 DEF AddWordsNext, Continue, Still, Record
<1>27. ASSUME RefreshDashboard  PROVE G
  BY <1>0, <1>a, <1>b, <1>27 DEF RefreshDashboard, Still
<1>28. ASSUME OpenReview  PROVE G
  BY <1>0, <1>a, <1>b, <1>28 DEF OpenReview, Enter, Entered, Unmoved, Still, Steady
<1>29. ASSUME StartReview  PROVE G
  BY <1>0, <1>a, <1>b, <1>29 DEF StartReview, Unmoved, Still, Steady
<1>30. ASSUME LeaveReview  PROVE G
  BY <1>0, <1>a, <1>b, <1>30 DEF LeaveReview, Unmoved, Still, Steady
<1>31. ASSUME ReviewRunPull  PROVE G
  BY <1>0, <1>a, <1>b, <1>31 DEF ReviewRunPull, StartPull, OnlyBegins
<1>32. ASSUME SkipCollect  PROVE G
  BY <1>0, <1>a, <1>b, <1>32 DEF SkipCollect, LeaveCollect, DetourFromPull, Continue, Still,
       Record
<1>33. ASSUME ReviewUpdate  PROVE G
  BY <1>0, <1>a, <1>b, <1>33 DEF ReviewUpdate, Still
<1>34. ASSUME ReviewRunPush  PROVE G
  BY <1>0, <1>a, <1>b, <1>34 DEF ReviewRunPush, ReviewUpdatable, StartPush, OnlyBegins
<1>35. ASSUME CloseReviewPush  PROVE G
  BY <1>0, <1>a, <1>b, <1>35 DEF CloseReviewPush, Still
<1>36. ASSUME FinishReview  PROVE G
  BY <1>0, <1>a, <1>b, <1>36 DEF FinishReview, CanFinish, Reports, Record, Unmoved, Still,
       Steady
<1>37. ASSUME EndReview  PROVE G
  BY <1>0, <1>a, <1>b, <1>37 DEF EndReview, Homewards, Still
<1>38. ASSUME ReportHome  PROVE G
  BY <1>0, <1>a, <1>b, <1>38 DEF ReportHome, LeaveReport, Homewards
<1>39. ASSUME ReportNext  PROVE G
  BY <1>0, <1>a, <1>b, <1>39 DEF ReportNext, Continue, Still, Record
<1>40. ASSUME ReportRebuild  PROVE G
  BY <1>0, <1>a, <1>b, <1>40 DEF ReportRebuild, RebuildOffered, LeaveReport, Homewards
<1>41. ASSUME InspectRecovery  PROVE G
  BY <1>0, <1>a, <1>b, <1>41 DEF InspectRecovery, Still
<1>42. ASSUME RunRecovery  PROVE G
  BY <1>0, <1>a, <1>b, <1>42 DEF RunRecovery, Pressed, Offered, StartRecovery, OnlyBegins
<1>43. ASSUME CloseRecovery  PROVE G
  BY <1>0, <1>a, <1>b, <1>43 DEF CloseRecovery, Still
<1>44. ASSUME SetupScreens  PROVE G
  BY <1>0, <1>a, <1>b, <1>44 DEF SetupScreens, BeginSetup, ChooseFolder, ChooseApps,
       ReviewSetup, BackInSetup, Unseen
<1>45. ASSUME CreateProject  PROVE G
  BY <1>0, <1>a, <1>b, <1>45 DEF CreateProject
<1>46. ASSUME OpenExisting  PROVE G
  BY <1>0, <1>a, <1>b, <1>46 DEF OpenExisting, Homewards
<1>47. ASSUME SettingsScreens  PROVE G
  BY <1>0, <1>a, <1>b, <1>47 DEF SettingsScreens, OpenApplications, ChooseApplications,
       ReviewApplications, BackInApplications, Unseen
<1>48. ASSUME SaveSettings  PROVE G
  BY <1>0, <1>a, <1>b, <1>48 DEF SaveSettings
<1> QED
  BY <1>1, <1>2, <1>3, <1>4, <1>5, <1>6, <1>7, <1>8, <1>9, <1>10, <1>11, <1>12, <1>13, <1>14,
     <1>15, <1>16, <1>17, <1>18, <1>19, <1>20, <1>21, <1>22, <1>23, <1>24, <1>25, <1>26,
     <1>27, <1>28,
     <1>29, <1>30, <1>31, <1>32, <1>33, <1>34, <1>35, <1>36, <1>37, <1>38, <1>39, <1>40,
     <1>41, <1>42,
     <1>43, <1>44, <1>45, <1>46, <1>47, <1>48
     DEF Next, User, LoadStep

(* A recorded step of the session.                                              *)
LEMMA SessionTyped ==
    ASSUME NEW s \in ReviewSessions, NEW outcome \in Outcomes \cup {"skipped"},
           NEW step \in {"pull", "push"}
    PROVE  Record(s, step, outcome) \in ReviewSessions
<1>1. CASE step = "pull"  BY <1>1 DEF Record, ReviewSessions
<1>2. CASE step = "push"  BY <1>2 DEF Record, ReviewSessions
<1> QED  BY <1>1, <1>2

(* A reported session.                                                          *)
LEMMA ReportsTyped ==
    ASSUME NEW s \in ReviewSessions, NEW n \in Nat \cup {p.edits : p \in Plans}, Reports(s, n)
    PROVE  session' \in ReviewSessions
<1>1. Matched(s) \in BOOLEAN  BY DEF Matched, ReviewSessions
<1> QED  BY <1>1 DEF Reports, ReviewSessions

(* The Review session keeps its type.                                           *)
LEMMA SessionTypesStep ==
    ASSUME Types, Next  PROVE session' \in ReviewSessions
<1> DEFINE G == session' \in ReviewSessions
<1>0. /\ session \in ReviewSessions /\ FileTypes /\ mutation \in BOOLEAN /\ load \in [Slot -> Loads]
      /\ op \in Ops
  BY DEF Types, UiTypes, OpTypes
<1>a. NoSession \in ReviewSessions /\ [NoSession EXCEPT !.on = TRUE] \in ReviewSessions
  BY <1>0, ScreensTyped DEF ReviewSessions
<1>b. Record(session, "pull", "skipped") \in ReviewSessions
      /\ Record(session, "push", "skipped") \in ReviewSessions
      /\ Record(session, "pull", op.outcome) \in ReviewSessions
      /\ Record(session, "push", op.outcome) \in ReviewSessions
  BY <1>0, SessionTyped DEF Ops
<1>c. op.plan.edits \in Nat \cup {p.edits : p \in Plans} /\ session.preview.edits \in Nat
  BY <1>0 DEF Ops, ReviewSessions
<1> SUFFICES G  OBVIOUS
<1>1. ASSUME Launch  PROVE G
  BY <1>0, <1>a, <1>b, <1>1 DEF Launch, NeedsSetup, Still, Unseen
<1>2. ASSUME Stop  PROVE G
  BY <1>0, <1>a, <1>b, <1>2 DEF Stop
<1>3. ASSUME Worker  PROVE G
  <2>1. UNCHANGED ui  BY <1>3, WorkerTyped
  <2> QED  BY <1>0, <2>1 DEF ui, G
<1>4. ASSUME Others  PROVE G
  BY <1>0, <1>4 DEF Others, ui, G
<1>5. ASSUME OperationEnds  PROVE G
  BY <1>0, <1>a, <1>b, <1>5 DEF OperationEnds
<1>6. ASSUME NEW i \in Slot, LoadReads(i)  PROVE G
  BY <1>0, <1>a, <1>b, <1>6 DEF LoadReads, Still
<1>7. ASSUME NEW i \in Slot, LoadSets(i)  PROVE G
  <2>1. load[i].got \in Snapshots  BY <1>0, <1>7 DEF LoadSets, Loads
  <2>2. Clean(load[i].got) \in [clean : BOOLEAN, edits : Nat]  BY <2>1 DEF Clean, CanPush, Snapshots
  <2>3. [session EXCEPT !.preview = Clean(load[i].got)] \in ReviewSessions
    BY <1>0, <2>2 DEF ReviewSessions
  <2> QED  BY <1>0, <1>7, <2>3 DEF LoadSets
<1>8. ASSUME NEW i \in Slot, LoadArrives(i)  PROVE G
  BY <1>0, <1>a, <1>b, <1>8 DEF LoadArrives, Still
<1>9. ASSUME NEW i \in Slot, LoadFails(i)  PROVE G
  BY <1>0, <1>a, <1>b, <1>9 DEF LoadFails, Still
<1>10. ASSUME CloseBusy  PROVE G
  BY <1>0, <1>a, <1>b, <1>10 DEF CloseBusy, Still
<1>11. ASSUME DismissReview  PROVE G
  <2>1. CASE Reports(Record(session, "pull", op.outcome), op.plan.edits)
             \/ Reports(Record(session, "push", op.outcome), op.plan.edits)
    BY <1>b, <1>c, <2>1, ReportsTyped
  <2> QED  BY <1>b, <1>11, <2>1 DEF DismissReview
<1>12. ASSUME Dismiss  PROVE G
  BY <1>0, <1>a, <1>b, <1>12 DEF Dismiss, Reported
<1>13. ASSUME OpenPull  PROVE G
  BY <1>0, <1>a, <1>b, <1>13 DEF OpenPull, Enter, Entered, Unmoved, Still, Steady
<1>14. ASSUME OpenPreview  PROVE G
  BY <1>0, <1>a, <1>b, <1>14 DEF OpenPreview, Enter, Entered, Still
<1>15. ASSUME RefreshPull  PROVE G
  BY <1>0, <1>a, <1>b, <1>15 DEF RefreshPull, Still
<1>16. ASSUME RefreshPreview  PROVE G
  BY <1>0, <1>a, <1>b, <1>16 DEF RefreshPreview, Still
<1>17. ASSUME RunPull  PROVE G
  BY <1>0, <1>a, <1>b, <1>17 DEF RunPull, StartPull, OnlyBegins
<1>18. ASSUME RunPush  PROVE G
  BY <1>0, <1>a, <1>b, <1>18 DEF RunPush, StartPush, OnlyBegins
<1>19. ASSUME ClosePull  PROVE G
  BY <1>0, <1>a, <1>b, <1>19 DEF ClosePull, Still
<1>20. ASSUME ClosePreview  PROVE G
  BY <1>0, <1>a, <1>b, <1>20 DEF ClosePreview, Still
<1>21. ASSUME PullNext  PROVE G
  BY <1>0, <1>a, <1>b, <1>21 DEF PullNext, LeaveCollect, DetourFromPull, Continue, Still
<1>22. ASSUME ResumePull  PROVE G
  BY <1>0, <1>a, <1>b, <1>22 DEF ResumePull, Still
<1>23. ASSUME OpenAddWords  PROVE G
  BY <1>0, <1>a, <1>b, <1>23 DEF OpenAddWords, Enter, Entered, Still
<1>24. ASSUME NEW w \in Word, SaveWord(w)  PROVE G
  BY <1>0, <1>a, <1>b, <1>24 DEF SaveWord
<1>25. ASSUME CloseAddWords  PROVE G
  BY <1>0, <1>a, <1>b, <1>25 DEF CloseAddWords, Still
<1>26. ASSUME AddWordsNext  PROVE G
  BY <1>0, <1>a, <1>b, <1>26 DEF AddWordsNext, Continue, Still
<1>27. ASSUME RefreshDashboard  PROVE G
  BY <1>0, <1>a, <1>b, <1>27 DEF RefreshDashboard, Still
<1>28. ASSUME OpenReview  PROVE G
  BY <1>0, <1>a, <1>b, <1>28 DEF OpenReview, Enter, Entered, Unmoved, Still, Steady
<1>29. ASSUME StartReview  PROVE G
  BY <1>0, <1>a, <1>b, <1>29 DEF StartReview, Unmoved, Still, Steady
<1>30. ASSUME LeaveReview  PROVE G
  BY <1>0, <1>a, <1>b, <1>30 DEF LeaveReview, Unmoved, Still, Steady
<1>31. ASSUME ReviewRunPull  PROVE G
  BY <1>0, <1>a, <1>b, <1>31 DEF ReviewRunPull, StartPull, OnlyBegins
<1>32. ASSUME SkipCollect  PROVE G
  BY <1>0, <1>a, <1>b, <1>32 DEF SkipCollect, LeaveCollect, DetourFromPull, Continue, Still
<1>33. ASSUME ReviewUpdate  PROVE G
  BY <1>0, <1>a, <1>b, <1>33 DEF ReviewUpdate, Still
<1>34. ASSUME ReviewRunPush  PROVE G
  BY <1>0, <1>a, <1>b, <1>34 DEF ReviewRunPush, ReviewUpdatable, StartPush, OnlyBegins
<1>35. ASSUME CloseReviewPush  PROVE G
  BY <1>0, <1>a, <1>b, <1>35 DEF CloseReviewPush, Still
<1>36. ASSUME FinishReview  PROVE G
  <2>1. CASE Reports(session, session.preview.edits)
             \/ Reports(Record(session, "push", "skipped"), session.preview.edits)
    BY <1>0, <1>b, <1>c, <2>1, ReportsTyped
  <2> QED  BY <1>36, <2>1 DEF FinishReview
<1>37. ASSUME EndReview  PROVE G
  BY <1>0, <1>a, <1>b, <1>37 DEF EndReview, Homewards, Still
<1>38. ASSUME ReportHome  PROVE G
  BY <1>0, <1>a, <1>b, <1>38 DEF ReportHome, LeaveReport, Homewards
<1>39. ASSUME ReportNext  PROVE G
  BY <1>0, <1>a, <1>b, <1>39 DEF ReportNext, Continue, Still
<1>40. ASSUME ReportRebuild  PROVE G
  BY <1>0, <1>a, <1>b, <1>40 DEF ReportRebuild, RebuildOffered, LeaveReport, Homewards
<1>41. ASSUME InspectRecovery  PROVE G
  BY <1>0, <1>a, <1>b, <1>41 DEF InspectRecovery, Still
<1>42. ASSUME RunRecovery  PROVE G
  BY <1>0, <1>a, <1>b, <1>42 DEF RunRecovery, Pressed, Offered, StartRecovery, OnlyBegins
<1>43. ASSUME CloseRecovery  PROVE G
  BY <1>0, <1>a, <1>b, <1>43 DEF CloseRecovery, Still
<1>44. ASSUME SetupScreens  PROVE G
  BY <1>0, <1>a, <1>b, <1>44 DEF SetupScreens, BeginSetup, ChooseFolder, ChooseApps,
       ReviewSetup, BackInSetup, Unseen
<1>45. ASSUME CreateProject  PROVE G
  BY <1>0, <1>a, <1>b, <1>45 DEF CreateProject
<1>46. ASSUME OpenExisting  PROVE G
  BY <1>0, <1>a, <1>b, <1>46 DEF OpenExisting, Homewards
<1>47. ASSUME SettingsScreens  PROVE G
  BY <1>0, <1>a, <1>b, <1>47 DEF SettingsScreens, OpenApplications, ChooseApplications,
       ReviewApplications, BackInApplications, Unseen
<1>48. ASSUME SaveSettings  PROVE G
  BY <1>0, <1>a, <1>b, <1>48 DEF SaveSettings
<1> QED
  BY <1>1, <1>2, <1>3, <1>4, <1>5, <1>6, <1>7, <1>8, <1>9, <1>10, <1>11, <1>12, <1>13, <1>14,
     <1>15, <1>16, <1>17, <1>18, <1>19, <1>20, <1>21, <1>22, <1>23, <1>24, <1>25, <1>26,
     <1>27, <1>28,
     <1>29, <1>30, <1>31, <1>32, <1>33, <1>34, <1>35, <1>36, <1>37, <1>38, <1>39, <1>40,
     <1>41, <1>42,
     <1>43, <1>44, <1>45, <1>46, <1>47, <1>48
     DEF Next, User, LoadStep

(* A thread that has read has a preview.                                        *)
LEMMA LoadTypesStep ==
    ASSUME Types, Next  PROVE load' \in [Slot -> Loads]
<1> DEFINE G == load' \in [Slot -> Loads]
<1>0. FileTypes /\ mutation \in BOOLEAN /\ load \in [Slot -> Loads]
  BY DEF Types, UiTypes
<1>a. Idle \in Loads /\ [i \in Slot |-> Idle] \in [Slot -> Loads]
      /\ \A i \in Slot : [load EXCEPT ![i] = Idle] \in [Slot -> Loads]
  BY <1>0, ScreensTyped
<1>b. /\ \A S : Leave(load, S) \in [Slot -> Loads]
      /\ Overtaken(load) \in [Slot -> Loads] /\ Closing \in [Slot -> Loads]
      /\ \A screen \in {"Pull", "Preview", "ReviewPush"} : Begin(load, screen) \in [Slot -> Loads]
      /\ Begin(Closing, "Preview") \in [Slot -> Loads]
  <2>1. \A S : Leave(load, S) \in [Slot -> Loads]  BY <1>0, <1>a, LoadsTyped
  <2>2. Closing \in [Slot -> Loads]  BY <2>1 DEF Closing
  <2> QED  BY <1>0, <1>a, <2>1, <2>2, LoadsTyped
<1> SUFFICES G  OBVIOUS
<1>1. ASSUME Launch  PROVE G
  BY <1>0, <1>a, <1>b, <1>1 DEF Launch, NeedsSetup, Still, Unseen
<1>2. ASSUME Stop  PROVE G
  BY <1>0, <1>a, <1>b, <1>2 DEF Stop
<1>3. ASSUME Worker  PROVE G
  <2>1. UNCHANGED ui  BY <1>3, WorkerTyped
  <2> QED  BY <1>0, <2>1 DEF ui, G
<1>4. ASSUME Others  PROVE G
  BY <1>0, <1>4 DEF Others, ui, G
<1>5. ASSUME OperationEnds  PROVE G
  BY <1>0, <1>a, <1>b, <1>5 DEF OperationEnds
<1>6. ASSUME NEW i \in Slot, LoadReads(i)  PROVE G
  <2> DEFINE ld == IF load[i].for = "ReviewPush" THEN Overtaken(load) ELSE load
  <2>1. Snapshot \in Snapshots /\ ld \in [Slot -> Loads]  BY <1>0, <1>b, SnapshotTyped
  <2>2. load' = [ld EXCEPT ![i].phase = "set", ![i].got = Snapshot]  BY <1>6 DEF LoadReads
  <2> HIDE DEF ld
  <2>3. [[ld[i] EXCEPT !.phase = "set"] EXCEPT !.got = Snapshot] \in Loads  BY <2>1 DEF Loads
  <2> QED  BY <2>1, <2>2, <2>3
<1>7. ASSUME NEW i \in Slot, LoadSets(i)  PROVE G
  <2> DEFINE ld == IF load[i].for # "Pull" THEN Overtaken(load) ELSE load
             l  == IF load[i].live THEN [load[i] EXCEPT !.phase = "got", !.latest = TRUE] ELSE Idle
  <2>1. ld \in [Slot -> Loads]  BY <1>0, <1>b
  <2>2. l \in Loads  BY <1>0, <1>a, <1>7 DEF LoadSets, Loads
  <2>3. load' = [ld EXCEPT ![i] = l]  BY <1>7 DEF LoadSets
  <2> HIDE DEF ld, l
  <2> QED  BY <2>1, <2>2, <2>3
<1>8. ASSUME NEW i \in Slot, LoadArrives(i)  PROVE G
  BY <1>0, <1>a, <1>b, <1>8 DEF LoadArrives, Still
<1>9. ASSUME NEW i \in Slot, LoadFails(i)  PROVE G
  BY <1>0, <1>a, <1>b, <1>9 DEF LoadFails, Still
<1>10. ASSUME CloseBusy  PROVE G
  BY <1>0, <1>a, <1>b, <1>10 DEF CloseBusy, Still
<1>11. ASSUME DismissReview  PROVE G
  BY <1>0, <1>a, <1>b, <1>11 DEF DismissReview
<1>12. ASSUME Dismiss  PROVE G
  BY <1>0, <1>a, <1>b, <1>12 DEF Dismiss, Reported
<1>13. ASSUME OpenPull  PROVE G
  BY <1>0, <1>a, <1>b, <1>13 DEF OpenPull, Enter, Entered, Unmoved, Still, Steady
<1>14. ASSUME OpenPreview  PROVE G
  BY <1>0, <1>a, <1>b, <1>14 DEF OpenPreview, Enter, Entered, Still
<1>15. ASSUME RefreshPull  PROVE G
  BY <1>0, <1>a, <1>b, <1>15 DEF RefreshPull, Still
<1>16. ASSUME RefreshPreview  PROVE G
  BY <1>0, <1>a, <1>b, <1>16 DEF RefreshPreview, Still
<1>17. ASSUME RunPull  PROVE G
  BY <1>0, <1>a, <1>b, <1>17 DEF RunPull, StartPull, OnlyBegins
<1>18. ASSUME RunPush  PROVE G
  BY <1>0, <1>a, <1>b, <1>18 DEF RunPush, StartPush, OnlyBegins
<1>19. ASSUME ClosePull  PROVE G
  BY <1>0, <1>a, <1>b, <1>19 DEF ClosePull, Still
<1>20. ASSUME ClosePreview  PROVE G
  BY <1>0, <1>a, <1>b, <1>20 DEF ClosePreview, Still
<1>21. ASSUME PullNext  PROVE G
  BY <1>0, <1>a, <1>b, <1>21 DEF PullNext, LeaveCollect, DetourFromPull, Continue, Still
<1>22. ASSUME ResumePull  PROVE G
  BY <1>0, <1>a, <1>b, <1>22 DEF ResumePull, Still
<1>23. ASSUME OpenAddWords  PROVE G
  BY <1>0, <1>a, <1>b, <1>23 DEF OpenAddWords, Enter, Entered, Still
<1>24. ASSUME NEW w \in Word, SaveWord(w)  PROVE G
  BY <1>0, <1>a, <1>b, <1>24 DEF SaveWord
<1>25. ASSUME CloseAddWords  PROVE G
  BY <1>0, <1>a, <1>b, <1>25 DEF CloseAddWords, Still
<1>26. ASSUME AddWordsNext  PROVE G
  BY <1>0, <1>a, <1>b, <1>26 DEF AddWordsNext, Continue, Still
<1>27. ASSUME RefreshDashboard  PROVE G
  BY <1>0, <1>a, <1>b, <1>27 DEF RefreshDashboard, Still
<1>28. ASSUME OpenReview  PROVE G
  BY <1>0, <1>a, <1>b, <1>28 DEF OpenReview, Enter, Entered, Unmoved, Still, Steady
<1>29. ASSUME StartReview  PROVE G
  BY <1>0, <1>a, <1>b, <1>29 DEF StartReview, Unmoved, Still, Steady
<1>30. ASSUME LeaveReview  PROVE G
  BY <1>0, <1>a, <1>b, <1>30 DEF LeaveReview, Unmoved, Still, Steady
<1>31. ASSUME ReviewRunPull  PROVE G
  BY <1>0, <1>a, <1>b, <1>31 DEF ReviewRunPull, StartPull, OnlyBegins
<1>32. ASSUME SkipCollect  PROVE G
  BY <1>0, <1>a, <1>b, <1>32 DEF SkipCollect, LeaveCollect, DetourFromPull, Continue, Still
<1>33. ASSUME ReviewUpdate  PROVE G
  BY <1>0, <1>a, <1>b, <1>33 DEF ReviewUpdate, Still
<1>34. ASSUME ReviewRunPush  PROVE G
  BY <1>0, <1>a, <1>b, <1>34 DEF ReviewRunPush, ReviewUpdatable, StartPush, OnlyBegins
<1>35. ASSUME CloseReviewPush  PROVE G
  BY <1>0, <1>a, <1>b, <1>35 DEF CloseReviewPush, Still
<1>36. ASSUME FinishReview  PROVE G
  BY <1>0, <1>a, <1>b, <1>36 DEF FinishReview, CanFinish, Unmoved, Still, Steady
<1>37. ASSUME EndReview  PROVE G
  BY <1>0, <1>a, <1>b, <1>37 DEF EndReview, Homewards, Still
<1>38. ASSUME ReportHome  PROVE G
  BY <1>0, <1>a, <1>b, <1>38 DEF ReportHome, LeaveReport, Homewards
<1>39. ASSUME ReportNext  PROVE G
  BY <1>0, <1>a, <1>b, <1>39 DEF ReportNext, Continue, Still
<1>40. ASSUME ReportRebuild  PROVE G
  BY <1>0, <1>a, <1>b, <1>40 DEF ReportRebuild, RebuildOffered, LeaveReport, Homewards
<1>41. ASSUME InspectRecovery  PROVE G
  BY <1>0, <1>a, <1>b, <1>41 DEF InspectRecovery, Still
<1>42. ASSUME RunRecovery  PROVE G
  BY <1>0, <1>a, <1>b, <1>42 DEF RunRecovery, Pressed, Offered, StartRecovery, OnlyBegins
<1>43. ASSUME CloseRecovery  PROVE G
  BY <1>0, <1>a, <1>b, <1>43 DEF CloseRecovery, Still
<1>44. ASSUME SetupScreens  PROVE G
  BY <1>0, <1>a, <1>b, <1>44 DEF SetupScreens, BeginSetup, ChooseFolder, ChooseApps,
       ReviewSetup, BackInSetup, Unseen
<1>45. ASSUME CreateProject  PROVE G
  BY <1>0, <1>a, <1>b, <1>45 DEF CreateProject
<1>46. ASSUME OpenExisting  PROVE G
  BY <1>0, <1>a, <1>b, <1>46 DEF OpenExisting, Homewards
<1>47. ASSUME SettingsScreens  PROVE G
  BY <1>0, <1>a, <1>b, <1>47 DEF SettingsScreens, OpenApplications, ChooseApplications,
       ReviewApplications, BackInApplications, Unseen
<1>48. ASSUME SaveSettings  PROVE G
  BY <1>0, <1>a, <1>b, <1>48 DEF SaveSettings
<1> QED
  BY <1>1, <1>2, <1>3, <1>4, <1>5, <1>6, <1>7, <1>8, <1>9, <1>10, <1>11, <1>12, <1>13, <1>14,
     <1>15, <1>16, <1>17, <1>18, <1>19, <1>20, <1>21, <1>22, <1>23, <1>24, <1>25, <1>26,
     <1>27, <1>28,
     <1>29, <1>30, <1>31, <1>32, <1>33, <1>34, <1>35, <1>36, <1>37, <1>38, <1>39, <1>40,
     <1>41, <1>42,
     <1>43, <1>44, <1>45, <1>46, <1>47, <1>48
     DEF Next, User, LoadStep

(* Recovery, the dashboard and the offer keep their types.                      *)
LEMMA ShownTypesStep ==
    ASSUME Types, Next
    PROVE  rec' \in {Nothing} \cup Previews /\ dash' \in Dashes /\ offer' \in BOOLEAN
<1> DEFINE G == rec' \in {Nothing} \cup Previews /\ dash' \in Dashes /\ offer' \in BOOLEAN
<1>0. /\ rec \in {Nothing} \cup Previews /\ dash \in Dashes /\ offer \in BOOLEAN
      /\ FileTypes /\ mutation \in BOOLEAN
  BY DEF Types, UiTypes
<1>a. /\ DashboardNow \in Dashes /\ DashboardFailed \in Dashes /\ NoDash \in Dashes
      /\ RecoveryNow \in Previews
  BY <1>0, ScreensTyped
<1> SUFFICES G  OBVIOUS
<1>1. ASSUME Launch  PROVE G
  BY <1>0, <1>a, <1>1 DEF Launch, NeedsSetup, Still, Unseen
<1>2. ASSUME Stop  PROVE G
  BY <1>0, <1>a, <1>2 DEF Stop
<1>3. ASSUME Worker  PROVE G
  <2>1. UNCHANGED ui  BY <1>3, WorkerTyped
  <2> QED  BY <1>0, <2>1 DEF ui, G
<1>4. ASSUME Others  PROVE G
  BY <1>0, <1>4 DEF Others, ui, G
<1>5. ASSUME OperationEnds  PROVE G
  BY <1>0, <1>a, <1>5 DEF OperationEnds
<1>6. ASSUME NEW i \in Slot, LoadReads(i)  PROVE G
  BY <1>0, <1>a, <1>6 DEF LoadReads, Still
<1>7. ASSUME NEW i \in Slot, LoadSets(i)  PROVE G
  BY <1>0, <1>a, <1>7 DEF LoadSets, Still
<1>8. ASSUME NEW i \in Slot, LoadArrives(i)  PROVE G
  BY <1>0, <1>a, <1>8 DEF LoadArrives, Still
<1>9. ASSUME NEW i \in Slot, LoadFails(i)  PROVE G
  BY <1>0, <1>a, <1>9 DEF LoadFails, Still
<1>10. ASSUME CloseBusy  PROVE G
  BY <1>0, <1>a, <1>10 DEF CloseBusy, Still
<1>11. ASSUME DismissReview  PROVE G
  BY <1>0, <1>a, <1>11 DEF DismissReview
<1>12. ASSUME Dismiss  PROVE G
  BY <1>0, <1>a, <1>12 DEF Dismiss, Reported
<1>13. ASSUME OpenPull  PROVE G
  BY <1>0, <1>a, <1>13 DEF OpenPull, Enter, Entered, Unmoved, Still, Steady
<1>14. ASSUME OpenPreview  PROVE G
  BY <1>0, <1>a, <1>14 DEF OpenPreview, Enter, Entered, Still
<1>15. ASSUME RefreshPull  PROVE G
  BY <1>0, <1>a, <1>15 DEF RefreshPull, Still
<1>16. ASSUME RefreshPreview  PROVE G
  BY <1>0, <1>a, <1>16 DEF RefreshPreview, Still
<1>17. ASSUME RunPull  PROVE G
  BY <1>0, <1>a, <1>17 DEF RunPull, StartPull, OnlyBegins
<1>18. ASSUME RunPush  PROVE G
  BY <1>0, <1>a, <1>18 DEF RunPush, StartPush, OnlyBegins
<1>19. ASSUME ClosePull  PROVE G
  BY <1>0, <1>a, <1>19 DEF ClosePull, Still
<1>20. ASSUME ClosePreview  PROVE G
  BY <1>0, <1>a, <1>20 DEF ClosePreview, Still
<1>21. ASSUME PullNext  PROVE G
  BY <1>0, <1>a, <1>21 DEF PullNext, LeaveCollect, DetourFromPull, Continue, Still
<1>22. ASSUME ResumePull  PROVE G
  BY <1>0, <1>a, <1>22 DEF ResumePull, Still
<1>23. ASSUME OpenAddWords  PROVE G
  BY <1>0, <1>a, <1>23 DEF OpenAddWords, Enter, Entered, Still
<1>24. ASSUME NEW w \in Word, SaveWord(w)  PROVE G
  BY <1>0, <1>a, <1>24 DEF SaveWord
<1>25. ASSUME CloseAddWords  PROVE G
  BY <1>0, <1>a, <1>25 DEF CloseAddWords, Still
<1>26. ASSUME AddWordsNext  PROVE G
  BY <1>0, <1>a, <1>26 DEF AddWordsNext, Continue, Still
<1>27. ASSUME RefreshDashboard  PROVE G
  BY <1>0, <1>a, <1>27 DEF RefreshDashboard, Still
<1>28. ASSUME OpenReview  PROVE G
  BY <1>0, <1>a, <1>28 DEF OpenReview, Enter, Entered, Unmoved, Still, Steady
<1>29. ASSUME StartReview  PROVE G
  BY <1>0, <1>a, <1>29 DEF StartReview, Unmoved, Still, Steady
<1>30. ASSUME LeaveReview  PROVE G
  BY <1>0, <1>a, <1>30 DEF LeaveReview, Unmoved, Still, Steady
<1>31. ASSUME ReviewRunPull  PROVE G
  BY <1>0, <1>a, <1>31 DEF ReviewRunPull, StartPull, OnlyBegins
<1>32. ASSUME SkipCollect  PROVE G
  BY <1>0, <1>a, <1>32 DEF SkipCollect, LeaveCollect, DetourFromPull, Continue, Still
<1>33. ASSUME ReviewUpdate  PROVE G
  BY <1>0, <1>a, <1>33 DEF ReviewUpdate, Still
<1>34. ASSUME ReviewRunPush  PROVE G
  BY <1>0, <1>a, <1>34 DEF ReviewRunPush, ReviewUpdatable, StartPush, OnlyBegins
<1>35. ASSUME CloseReviewPush  PROVE G
  BY <1>0, <1>a, <1>35 DEF CloseReviewPush, Still
<1>36. ASSUME FinishReview  PROVE G
  BY <1>0, <1>a, <1>36 DEF FinishReview, CanFinish, Unmoved, Still, Steady
<1>37. ASSUME EndReview  PROVE G
  BY <1>0, <1>a, <1>37 DEF EndReview, Homewards, Still
<1>38. ASSUME ReportHome  PROVE G
  BY <1>0, <1>a, <1>38 DEF ReportHome, LeaveReport, Homewards
<1>39. ASSUME ReportNext  PROVE G
  BY <1>0, <1>a, <1>39 DEF ReportNext, Continue, Still
<1>40. ASSUME ReportRebuild  PROVE G
  BY <1>0, <1>a, <1>40 DEF ReportRebuild, RebuildOffered, LeaveReport, Homewards
<1>41. ASSUME InspectRecovery  PROVE G
  BY <1>0, <1>a, <1>41 DEF InspectRecovery, Still
<1>42. ASSUME RunRecovery  PROVE G
  BY <1>0, <1>a, <1>42 DEF RunRecovery, Pressed, Offered, StartRecovery, OnlyBegins
<1>43. ASSUME CloseRecovery  PROVE G
  BY <1>0, <1>a, <1>43 DEF CloseRecovery, Still
<1>44. ASSUME SetupScreens  PROVE G
  BY <1>0, <1>a, <1>44 DEF SetupScreens, BeginSetup, ChooseFolder, ChooseApps, ReviewSetup,
       BackInSetup, Unseen
<1>45. ASSUME CreateProject  PROVE G
  BY <1>0, <1>a, <1>45 DEF CreateProject
<1>46. ASSUME OpenExisting  PROVE G
  BY <1>0, <1>a, <1>46 DEF OpenExisting, Homewards
<1>47. ASSUME SettingsScreens  PROVE G
  BY <1>0, <1>a, <1>47 DEF SettingsScreens, OpenApplications, ChooseApplications,
       ReviewApplications, BackInApplications, Unseen
<1>48. ASSUME SaveSettings  PROVE G
  BY <1>0, <1>a, <1>48 DEF SaveSettings
<1> QED
  BY <1>1, <1>2, <1>3, <1>4, <1>5, <1>6, <1>7, <1>8, <1>9, <1>10, <1>11, <1>12, <1>13, <1>14,
     <1>15, <1>16, <1>17, <1>18, <1>19, <1>20, <1>21, <1>22, <1>23, <1>24, <1>25, <1>26,
     <1>27, <1>28,
     <1>29, <1>30, <1>31, <1>32, <1>33, <1>34, <1>35, <1>36, <1>37, <1>38, <1>39, <1>40,
     <1>41, <1>42,
     <1>43, <1>44, <1>45, <1>46, <1>47, <1>48
     DEF Next, User, LoadStep

(* The mark of a running operation keeps its type.                              *)
LEMMA MutationTypesStep ==
    ASSUME Types, Next  PROVE mutation' \in BOOLEAN
<1>0. mutation \in BOOLEAN  BY DEF Types, UiTypes
<1>1. CASE mutation' \in {mutation, TRUE, FALSE}  BY <1>0, <1>1
<1>2. CASE Rests  BY <1>1, <1>2 DEF Rests
<1>3. CASE Starts
  <2>1. PICK kind \in Kinds : \E plan \in PlansOf(kind) : Begins(kind, plan)  BY <1>3 DEF Starts
  <2>2. PICK plan \in PlansOf(kind) : Begins(kind, plan)  BY <2>1
  <2>3. mutation' = mutation \/ mutation' = TRUE  BY <2>2 DEF Begins
  <2> QED  BY <1>1, <2>3
<1>4. CASE Settles  BY <1>1, <1>4 DEF Settles
<1>5. CASE Leaves  BY <1>1, <1>5 DEF Leaves
<1>6. CASE Writes  BY <1>1, <1>6 DEF Writes, SaveWord
<1>7. CASE Worker  BY <1>1, <1>7, WorkerTyped DEF ui
<1>8. CASE Others  BY <1>1, <1>8 DEF Others, ui
<1>9. CASE OperationEnds  BY <1>1, <1>9 DEF OperationEnds
<1>10. CASE Stop  BY <1>1, <1>10 DEF Stop
<1> QED  BY <1>2, <1>3, <1>4, <1>5, <1>6, <1>7, <1>8, <1>9, <1>10, FolderMoves

-----------------------------------------------------------------------------
(* The invariant and what follows from it.                                    *)

(* The inductive invariant of the screens.                                      *)
TerminalInv == Types /\ RunInv

(* The invariant holds at the start.                                            *)
LEMMA InitHolds ==
    ASSUME Init  PROVE TerminalInv
<1>1. PICK p \in Begun : list = p.list /\ dict = p.dict /\ config = p.config /\ changes = p.changes
  BY DEF Init
<1>2. FileTypes
  <2>1. edits \in 0 .. MaxEdits  BY ProjectAssumption DEF Init
  <2> QED  BY <1>1, <2>1, BegunAssumption DEF Init, FileTypes, AllTexts, Journals
<1>3. op = NoOp /\ ~Unsettled  BY NoOpTyped DEF Init, Unsettled
<1>4. OpTypes  BY <1>3, NoOpTyped DEF OpTypes
<1>5. NoSetup \in Setups /\ NoSettings \in AllSettings
  BY DiscoveryTyped DEF NoSetup, Setups, NoSettings, AllSettings
<1>6. UiTypes
  <2>1. mutation = FALSE  BY DEF Init
  <2>2. load \in [Slot -> Loads]  BY <1>2, <2>1, ScreensTyped DEF Init
  <2>3. pull \in Pulls /\ push \in Pushes /\ session \in ReviewSessions /\ dash \in Dashes
    BY <1>2, <2>1, ScreensTyped DEF Init
  <2>4. <<>> \in Seq(AllScreens)  BY DEF AllScreens
  <2>5. stack \in Seq(AllScreens)  BY <2>4 DEF Init
  <2>6. rec \in {Nothing} \cup Previews /\ offer \in BOOLEAN  BY DEF Init
  <2> QED  BY <2>1, <2>2, <2>3, <2>5, <2>6 DEF UiTypes
<1>7. RunInv  BY <1>3 DEF Init, RunInv
<1> QED  BY <1>2, <1>4, <1>5, <1>6, <1>7 DEF Init, TerminalInv, Types

(* Every variable keeps its type.                                               *)
LEMMA TypesStep ==
    ASSUME Types, Next  PROVE Types'
<1>1. UiTypes'
  BY StackTypesStep, PullTypesStep, PushTypesStep, SessionTypesStep, LoadTypesStep,
     ShownTypesStep, MutationTypesStep DEF UiTypes
<1> QED  BY <1>1, FileTypesStep, OpTypesStep, SetupTypesStep, SettingsTypesStep DEF Types

(* A step that changes nothing keeps the invariant.                             *)
LEMMA StutterStep ==
    ASSUME TerminalInv, UNCHANGED vars  PROVE TerminalInv'
<1>1. UNCHANGED <<list, dict, config, whitelist, journal, op, slipped, changes, edits, setup, settings>>
  BY DEF vars, folder, files
<1>2. UNCHANGED <<stack, mutation, pull, push, session, load, rec, dash, offer>>  BY DEF vars, ui
<1>3. FileTypes' /\ OpTypes'  BY <1>1 DEF TerminalInv, Types, FileTypes, OpTypes, Unsettled
<1>4. UiTypes'  BY <1>2 DEF TerminalInv, Types, UiTypes
<1>5. RunInv'  BY <1>1, <1>2 DEF TerminalInv, RunInv, Unsettled, Covered
<1> QED  BY <1>1, <1>3, <1>4, <1>5 DEF TerminalInv, Types

(* The types, and one running operation with its screen on top, always hold.    *)
THEOREM TerminalHolds == Spec => []TerminalInv
<1>1. Init => TerminalInv  BY InitHolds
<1>2. TerminalInv /\ [Next]_vars => TerminalInv'
  <2>1. ASSUME TerminalInv, Next  PROVE TerminalInv'
    BY <2>1, TypesStep, RunStep DEF TerminalInv
  <2> QED  BY <2>1, StutterStep
<1> QED  BY <1>1, <1>2, PTL DEF Spec

(* The files, the sessions and the screens always have the shape the code expects, *)
(* and the mark of a running operation is set exactly while one runs.           *)
THEOREM TypeCorrect == Spec => []TypeOK
<1>1. TerminalInv => TypeOK
  <2> SUFFICES ASSUME TerminalInv  PROVE TypeOK
    OBVIOUS
  <2>1. FileTypes /\ UiTypes /\ setup \in Setups /\ settings \in AllSettings /\ RunInv
    BY DEF TerminalInv, Types
  <2>2. /\ list \in Texts /\ dict \in [Dictionaries -> Texts] /\ config \in Configs
        /\ whitelist \in {"absent", "ours"} /\ slipped \subseteq Paths \cup {"dict"}
        /\ changes \in Nat /\ edits \in 0..MaxEdits
    BY <2>1 DEF FileTypes, AllTexts, Paths
  <2>3. /\ setup.sel \in Selections /\ setup.disc \in Discoveries
        /\ settings.sel \in Selections /\ settings.disc \in Discoveries
    BY <2>1 DEF Setups, AllSettings
  <2>4. /\ stack \in Seq(AllScreens) /\ offer \in BOOLEAN
        /\ dash \in [blocked : BOOLEAN, recovery : BOOLEAN]
        /\ session.on \in BOOLEAN /\ pull.refresh \in BOOLEAN /\ push.same \in BOOLEAN
    BY <2>1 DEF UiTypes, Dashes, ReviewSessions, Pulls, Pushes
  <2>5. \A i \in Slot : load[i].phase \in {"idle", "start", "set", "got"}
    BY <2>1 DEF UiTypes, Loads
  <2> QED  BY <2>1, <2>2, <2>3, <2>4, <2>5 DEF TypeOK, RunInv
<1> QED  BY <1>1, TerminalHolds, PTL

(* While an operation has not ended, none is started over it and it is not started *)
(* again, whatever is pressed wherever (on_mount of the operation screen).      *)
THEOREM OneAtATimeHolds == Spec => OneAtATime
<1> DEFINE A == Unsettled /\ stack' # <<>> =>
                    /\ op'.kind = op.kind /\ op'.plan = op.plan
                    /\ op'.phase = "start" => op.phase = "start"
<1>1. TerminalInv /\ [Next]_vars => [A]_vars
  BY OneAtATimeStep DEF TerminalInv
<1> HIDE DEF A
<1>2. Spec => [][A]_vars  BY <1>1, TerminalHolds, PTL DEF Spec
<1> QED  BY <1>2 DEF OneAtATime, A

-----------------------------------------------------------------------------
(* Setup and saving, one file after another under the edits of others.       *)

(* The path is one of the list.                                                 *)
Has(s, path) == \E i \in 1 .. Len(s) : s[i] = path

(* Before the first file: nothing was created.                                  *)
Fresh == op.created = <<>> /\ op.leftover = {}

(* What is left to create comes after what was created, and of it others alone have *)
(* made what is there; the list is there, or the first to be created.           *)
Creating ==
    /\ op.leftover = {} /\ Rising(op.created) /\ Rising(op.todo)
    /\ \A i \in 1 .. Len(op.created), j \in 1 .. Len(op.todo) : Rank(op.created[i]) < Rank(op.todo[j])
    /\ \A i \in 1 .. Len(op.todo) : Present(op.todo[i]) => op.todo[i] \in slipped
    /\ Has(op.todo, "list") \/ Present("list") \/ slipped # {}

(* What was created is gone, changed by others, left over or still to be removed, and *)
(* the list is the last to go.                                                  *)
Undoing ==
    /\ Falling(op.todo)
    /\ \A i \in 1 .. Len(op.created) : Present(op.created[i]) =>
           op.created[i] \in slipped \cup op.leftover \/ Has(op.todo, op.created[i])
    /\ Has(op.todo, "config") => Present("list") \/ slipped # {}

(* A failed setup has left nothing, and no configuration stands without its list. *)
Done ==
    /\ op.outcome = "failed" =>
           \A i \in 1 .. Len(op.created) : Present(op.created[i]) => op.created[i] \in slipped
    /\ Has(op.created, "config") /\ Present("config") =>
           Present("list") \/ slipped # {} \/ "config" \in op.leftover

(* What is known at each step of a setup.                                       *)
SetupInv ==
    /\ op.kind = "setup" => op.phase \notin {"write", "verify"}
    /\ At("setup", "start") \/ At("setup", "lock") => Fresh
    /\ At("setup", "create") => Creating
    /\ At("setup", "undo")   => Undoing
    /\ At("setup", "ended")  => Done

(* What is known of the file that is replaced, and of the one that is checked.  *)
SaveInv ==
    /\ At("targets", "write")  => config = op.plan.hash \/ "config" \in slipped
    /\ At("targets", "verify") => config = op.plan.new \/ "config" \in slipped

(* The inductive invariant of setup and save.                                   *)
WriteInv == SetupInv /\ SaveInv

(* When a file is there.                                                        *)
LEMMA PresentIs ==
    /\ Present("list") <=> list.status # "missing"
    /\ Present("config") <=> config.status # "absent"
    /\ Present("whitelist") <=> whitelist # "absent"
    /\ Present("list")' <=> list'.status # "missing"
    /\ Present("config")' <=> config'.status # "absent"
    /\ Present("whitelist")' <=> whitelist' # "absent"
  BY DEF Present

(* Only the file that is written changes, to what is written.                   *)
LEMMA BecomesAt ==
    ASSUME NEW path \in Paths \cup {"none"}, NEW l, NEW c, NEW w, Becomes(path, l, c, w)
    PROVE  /\ \A q \in Paths \ {path} : Present(q)' <=> Present(q)
           /\ UNCHANGED <<slipped, edits>>
           /\ path = "list"      => list' = l
           /\ path = "config"    => config' = c
           /\ path = "whitelist" => whitelist' = w
           /\ path # "list"      => list' = list
           /\ path # "config"    => config' = config
           /\ path # "whitelist" => whitelist' = whitelist
  BY PresentIs DEF Becomes, Paths

(* The first path of a list, and the others.                                    *)
LEMMA HeadAndTail ==
    ASSUME NEW s \in Seq(Paths), s # <<>>
    PROVE  /\ Head(s) = s[1] /\ Head(s) \in Paths /\ Len(s) \in Nat \ {0} /\ Tail(s) \in Seq(Paths)
           /\ Len(Tail(s)) = Len(s) - 1
           /\ \A i \in 1 .. Len(s) - 1 : i + 1 \in 1 .. Len(s) /\ Tail(s)[i] = s[i + 1]
  OBVIOUS

(* While an operation runs, only its worker and other programs change a file.   *)
LEMMA Underway ==
    ASSUME TerminalInv, Next, Unsettled
    PROVE  \/ UNCHANGED folder
           \/ GoesOn /\ Worker
           \/ Others /\ UNCHANGED op
           \/ op'.phase \in {"none", "shown"}
<1>1. stack \in Seq(AllScreens)  BY DEF TerminalInv, Types, UiTypes
<1>2. ~Elsewhere /\ mutation  BY <1>1, CoveredNotElsewhere DEF TerminalInv, RunInv
<1>3. Types  BY DEF TerminalInv
<1>4. CASE Rests  BY <1>4 DEF Rests
<1>5. CASE Starts  BY <1>2, <1>5 DEF Starts, Begins, folder
<1>6. CASE Settles  BY <1>6 DEF Settles, Unsettled
<1>7. CASE Leaves  BY <1>2, <1>7 DEF Leaves
<1>8. CASE Writes  BY <1>2, <1>8 DEF Writes, SaveWord, On, Elsewhere
<1>9. CASE Worker  BY <1>3, <1>9, WorkerTyped
<1>10. CASE Others  BY <1>10 DEF Others, EditList, EditDict, EditConfig, Edits
<1>11. CASE OperationEnds  BY <1>3, <1>11 DEF OperationEnds, Types, OpTypes, Ops
<1>12. CASE Stop  BY <1>12, NoOpTyped DEF Stop
<1> QED  BY <1>3, <1>4, <1>5, <1>6, <1>7, <1>8, <1>9, <1>10, <1>11, <1>12, FolderMoves

(* An operation begins with nothing created.                                    *)
LEMMA BeginsFresh ==
    ASSUME TerminalInv, Next, ~Unsettled
    PROVE  \/ op'.phase \in {"none", "shown"}
           \/ op'.phase = "start" /\ Fresh'
<1>1. Types /\ op.phase \in {"none", "shown"}  BY DEF TerminalInv, Types, Unsettled
<1>2. CASE UNCHANGED op  BY <1>1, <1>2
<1>3. CASE Rests  BY <1>2, <1>3 DEF Rests, folder
<1>4. CASE Starts
  <2>1. PICK kind \in Kinds : \E plan \in PlansOf(kind) : Begins(kind, plan)  BY <1>4 DEF Starts
  <2>2. PICK plan \in PlansOf(kind) : Begins(kind, plan)  BY <2>1
  <2>3. CASE op' = Start(kind, plan)
    <3>1. Start(kind, plan).leftover = {} /\ Start(kind, plan).created = <<>>
      BY DEF Start, NoOp
    <3> QED  BY <2>3, <3>1, NoOpTyped DEF Fresh
  <2> QED  BY <1>2, <2>2, <2>3 DEF Begins
<1>5. CASE Settles
  <2>1. [NoOp EXCEPT !.kind = op.kind, !.phase = "shown", !.outcome = op.outcome].phase = "shown"
    BY DEF NoOp
  <2> QED  BY <1>5, <2>1, NoOpTyped DEF Settles
<1>6. CASE Leaves \/ Stop  BY <1>6, NoOpTyped DEF Leaves, Stop
<1>7. CASE Writes  BY <1>2, <1>7 DEF Writes, SaveWord
<1>8. CASE Worker  BY <1>1, <1>8, WorkerTyped DEF GoesOn
<1>9. CASE Others  BY <1>2, <1>9 DEF Others, EditList, EditDict, EditConfig, Edits
<1>10. CASE OperationEnds  BY <1>1, <1>10 DEF OperationEnds
<1> QED  BY <1>1, <1>3, <1>4, <1>5, <1>6, <1>7, <1>8, <1>9, <1>10, FolderMoves

(* What others change under a setup or a save is noted.                         *)
LEMMA OthersSlip ==
    ASSUME TerminalInv, Others, Unsettled, op.kind \in {"setup", "targets"}
    PROVE  /\ slipped \subseteq slipped' /\ slipped' # {} /\ UNCHANGED op
           /\ \A path \in Paths : (Present(path)' <=> Present(path)) \/ path \in slipped'
           /\ config' = config \/ "config" \in slipped'
<1>1. UNCHANGED <<op, whitelist>>  BY DEF Others, EditList, EditDict, EditConfig, Edits
<1>2. CASE EditList
  <2>1. slipped' = slipped \cup {"list"} /\ config' = config  BY <1>2 DEF EditList, Slips
  <2> QED  BY <1>1, <2>1, PresentIs DEF Paths
<1>3. CASE EditDict
  <2>1. slipped' = slipped \cup {"dict"} /\ config' = config /\ list' = list  BY <1>3 DEF EditDict, Slips
  <2> QED  BY <1>1, <2>1, PresentIs DEF Paths
<1>4. CASE EditConfig
  <2>1. slipped' = slipped \cup {"config"} /\ list' = list  BY <1>4 DEF EditConfig, Slips
  <2> QED  BY <1>1, <2>1, PresentIs DEF Paths
<1> QED  BY <1>2, <1>3, <1>4 DEF Others

(* Other programs break nothing that is known of a setup.                       *)
LEMMA SetupOthers ==
    ASSUME TerminalInv, SetupInv, Others, Unsettled, op.kind = "setup"  PROVE SetupInv'
<1>1. op.todo \in Seq(Paths) /\ op.created \in Seq(Paths)  BY DEF TerminalInv, Types, OpTypes, Ops
<1>2. /\ slipped \subseteq slipped' /\ slipped' # {} /\ UNCHANGED op
      /\ \A path \in Paths : (Present(path)' <=> Present(path)) \/ path \in slipped'
  BY OthersSlip
<1>3. Fresh => Fresh'  BY <1>2 DEF Fresh
<1>4. Creating => Creating'
  <2>1. ASSUME Creating, NEW i \in 1 .. Len(op.todo), Present(op.todo[i])'  PROVE op.todo[i] \in slipped'
    <3>1. op.todo[i] \in Paths  BY <1>1
    <3> QED  BY <1>2, <2>1, <3>1 DEF Creating
  <2> QED  BY <1>2, <2>1 DEF Creating
<1>5. Undoing => Undoing'
  <2>1. ASSUME Undoing, NEW i \in 1 .. Len(op.created), Present(op.created[i])'
        PROVE  op.created[i] \in slipped' \cup op.leftover \/ Has(op.todo, op.created[i])
    <3>1. op.created[i] \in Paths  BY <1>1
    <3> QED  BY <1>2, <2>1, <3>1 DEF Undoing
  <2> QED  BY <1>2, <2>1 DEF Undoing
<1>6. Done => Done'
  <2>1. ASSUME Done, op.outcome = "failed", NEW i \in 1 .. Len(op.created), Present(op.created[i])'
        PROVE  op.created[i] \in slipped'
    <3>1. op.created[i] \in Paths  BY <1>1
    <3> QED  BY <1>2, <2>1, <3>1 DEF Done
  <2> QED  BY <1>2, <2>1 DEF Done
<1> QED  BY <1>2, <1>3, <1>4, <1>5, <1>6 DEF SetupInv, At

(* Under the lock nothing of what is to be created is there, and the list is there *)
(* or to be created.                                                            *)
LEMMA LocksStep ==
    ASSUME TerminalInv, SetupInv, SetupLocks  PROVE SetupInv'
<1>1. /\ op \in Ops /\ changes \in Nat /\ op.kind = "setup" /\ op.phase = "lock" /\ Fresh
      /\ op.plan \in SetupPlans
  BY DEF TerminalInv, Types, OpTypes, FileTypes, SetupLocks, SetupInv, At, Unsettled, PlansOf
<1>2. ASSUME NEW result \in Outcomes, End(result)  PROVE SetupInv'
  <2>1. op'.phase = "ended" /\ op'.kind = "setup" /\ op'.created = <<>>
    BY <1>1, <1>2, EndTyped DEF Fresh
  <2>2. Len(<<>>) = 0  OBVIOUS
  <2> QED  BY <2>1, <2>2 DEF SetupInv, At, Done, Has
<1>3. ASSUME Preflight(op.plan), slipped' = {},
             op' = [op EXCEPT !.phase = "create", !.todo = op.plan.create]
      PROVE  SetupInv'
  <2>1. UNCHANGED <<list, config, whitelist>>  BY DEF SetupLocks, files
  <2>2. /\ op'.phase = "create" /\ op'.kind = "setup" /\ op'.created = <<>> /\ op'.leftover = {}
        /\ op'.todo = op.plan.create
    BY <1>1, <1>3 DEF Ops, Fresh
  <2>3. op.plan.create \in Seq(Paths) /\ Rising(op.plan.create)  BY <1>1 DEF SetupPlans
  <2>4. \A i \in 1 .. Len(op'.todo) : ~Present(op'.todo[i])
    BY <1>3, <2>2, <2>3 DEF Preflight
  <2>5. \A path : Present(path)' <=> Present(path)  BY <2>1 DEF Present
  <2>6. Has(op.plan.create, "list") \/ Present("list")
    <3>1. CASE "list" \in op.plan.keep
      BY <1>1, <1>3, <3>1, PresentIs DEF Preflight, Keeps, SetupPlans
    <3>2. CASE "list" \notin op.plan.keep
      BY <1>1, <3>2 DEF SetupPlans, Has
    <3> QED  BY <3>1, <3>2
  <2>7. Rising(<<>>) /\ Len(<<>>) = 0  BY DEF Rising
  <2>8. Creating'
    BY <1>3, <2>2, <2>3, <2>4, <2>5, <2>6, <2>7 DEF Creating
  <2> QED  BY <2>2, <2>8 DEF SetupInv, At
<1> QED  BY <1>2, <1>3 DEF SetupLocks, Outcomes

(* Creating a file keeps the order, and the list comes before the configuration. *)
LEMMA CreatesStep ==
    ASSUME TerminalInv, SetupInv, SetupCreates  PROVE SetupInv'
<1> DEFINE path == Head(op.todo)
<1>1. op \in Ops /\ op.todo \in Seq(Paths) /\ op.created \in Seq(Paths) /\ op.todo # <<>>
      /\ op.kind = "setup" /\ op.phase = "create" /\ Creating
  BY DEF TerminalInv, Types, OpTypes, Ops, SetupCreates, SetupInv, At
<1>2. /\ path = op.todo[1] /\ path \in Paths /\ Len(op.todo) \in Nat \ {0} /\ Tail(op.todo) \in Seq(Paths)
      /\ Len(Tail(op.todo)) = Len(op.todo) - 1
      /\ \A i \in 1 .. Len(op.todo) - 1 : i + 1 \in 1 .. Len(op.todo) /\ Tail(op.todo)[i] = op.todo[i + 1]
  BY <1>1, HeadAndTail
<1>3. Becomes(path, Text({}), op.plan.new, "ours")
      /\ op' = [op EXCEPT !.todo = Tail(@), !.created = Append(@, path)]
  BY DEF SetupCreates
<1> HIDE DEF path
<1>4. /\ op'.kind = "setup" /\ op'.phase = "create" /\ op'.leftover = op.leftover
      /\ op'.todo = Tail(op.todo) /\ op'.created = Append(op.created, path)
  BY <1>1, <1>3 DEF Ops
<1>5. /\ \A q \in Paths \ {path} : Present(q)' <=> Present(q)
      /\ slipped' = slipped /\ (path = "list" => list' = Text({}))
  BY <1>2, <1>3, BecomesAt
<1>6. /\ Len(op'.created) = Len(op.created) + 1 /\ Len(op.created) \in Nat
      /\ \A i \in 1 .. Len(op.created) : op'.created[i] = op.created[i]
      /\ op'.created[Len(op.created) + 1] = path
  BY <1>1, <1>2, <1>4
<1>7. \A i \in 1 .. Len(op.created) + 1 : i \in 1 .. Len(op.created) \/ i = Len(op.created) + 1
  BY <1>6
<1>8. \A i \in 1 .. Len(op.todo) - 1 : Rank(path) < Rank(op.todo[i + 1])
  BY <1>1, <1>2 DEF Creating, Rising
<1>9. Rising(op'.created)
  <2> SUFFICES ASSUME NEW i \in 1 .. Len(op'.created), NEW j \in 1 .. Len(op'.created), i < j
               PROVE  Rank(op'.created[i]) < Rank(op'.created[j])
    BY DEF Rising
  <2>1. i \in 1 .. Len(op.created)  BY <1>6
  <2>2. CASE j \in 1 .. Len(op.created)  BY <1>1, <1>6, <2>1, <2>2 DEF Creating, Rising
  <2>3. CASE j = Len(op.created) + 1  BY <1>1, <1>2, <1>6, <2>1, <2>3 DEF Creating
  <2> QED  BY <1>6, <1>7, <2>2, <2>3
<1>10. Rising(op'.todo)  BY <1>1, <1>2, <1>4 DEF Creating, Rising
<1>11. \A i \in 1 .. Len(op'.created), j \in 1 .. Len(op'.todo) : Rank(op'.created[i]) < Rank(op'.todo[j])
  <2> TAKE i \in 1 .. Len(op'.created), j \in 1 .. Len(op'.todo)
  <2>1. j \in 1 .. Len(op.todo) - 1 /\ op'.todo[j] = op.todo[j + 1]  BY <1>2, <1>4
  <2>2. CASE i \in 1 .. Len(op.created)  BY <1>1, <1>2, <1>6, <2>1, <2>2 DEF Creating
  <2>3. CASE i = Len(op.created) + 1  BY <1>6, <1>8, <2>1, <2>3
  <2> QED  BY <1>6, <1>7, <2>2, <2>3
<1>12. \A i \in 1 .. Len(op'.todo) : Present(op.todo[i])' => op'.todo[i] \in slipped'
  <2> TAKE i \in 1 .. Len(op'.todo)
  <2>1. i \in 1 .. Len(op.todo) - 1 /\ op'.todo[i] = op.todo[i + 1]  BY <1>2, <1>4
  <2>0. PICK q : q = op.todo[i + 1]  OBVIOUS
  <2>2. q \in Paths /\ (Present(q) => q \in slipped)  BY <1>1, <1>2, <2>0, <2>1 DEF Creating
  <2>3. Rank(path) < Rank(q)  BY <1>8, <2>0, <2>1
  <2>4. q # path  BY <1>2, <2>3 DEF Rank, Paths
  <2>5. op'.todo[i] = q  BY <2>0, <2>1
  <2>6. Present(q)' => q \in slipped'  BY <1>5, <2>2, <2>4
  <2>7. Present(op.todo[i])' <=> Present(q)'  BY <2>5 DEF Present
  <2> QED  BY <2>5, <2>6, <2>7
<1>13. Has(op'.todo, "list") \/ Present("list")' \/ slipped' # {}
  <2>1. CASE path = "list"
    <3>1. Text({}).status = "empty"  BY DEF Text
    <3> QED  BY <1>5, <2>1, <3>1, PresentIs
  <2>2. CASE path # "list"
    <3>1. CASE Has(op.todo, "list")
      <4>1. PICK i \in 1 .. Len(op.todo) : op.todo[i] = "list"  BY <3>1 DEF Has
      <4>2. i - 1 \in 1 .. Len(op.todo) - 1 /\ (i - 1) + 1 = i  BY <1>2, <2>2, <4>1
      <4>3. op'.todo[i - 1] = "list"  BY <1>2, <1>4, <4>1, <4>2
      <4> QED  BY <1>2, <1>4, <4>2, <4>3 DEF Has
    <3>2. CASE Present("list")  BY <1>5, <2>2, <3>2 DEF Paths
    <3> QED  BY <1>1, <1>5, <3>1, <3>2 DEF Creating
  <2> QED  BY <2>1, <2>2
<1>14. Creating'  BY <1>1, <1>4, <1>9, <1>10, <1>11, <1>12, <1>13 DEF Creating
<1> QED  BY <1>4, <1>14 DEF SetupInv, At

(* What was created is taken back from the last to the first.                   *)
LEMMA BreaksOffStep ==
    ASSUME TerminalInv, SetupInv, SetupBreaksOff  PROVE SetupInv'
<1>1. op \in Ops /\ op.created \in Seq(Paths) /\ op.kind = "setup" /\ op.phase = "create" /\ Creating
  BY DEF TerminalInv, Types, OpTypes, Ops, SetupBreaksOff, SetupInv, At
<1>2. UNCHANGED <<list, config, whitelist, slipped>>
      /\ op' = [op EXCEPT !.phase = "undo", !.todo = UndoOrder(op.created)]
  BY DEF SetupBreaksOff, files
<1>3. /\ op'.kind = "setup" /\ op'.phase = "undo" /\ op'.created = op.created
      /\ op'.leftover = op.leftover /\ op'.todo = UndoOrder(op.created)
  BY <1>1, <1>2 DEF Ops
<1>4. PICK n \in Nat : n = Len(op.created)  BY <1>1
<1>5. UndoOrder(op.created) = [i \in 1 .. n |-> op.created[n - i + 1]]
  BY <1>4 DEF UndoOrder, Reverse
<1>6. Len(op'.todo) = n /\ \A i \in 1 .. n : n - i + 1 \in 1 .. n /\ op'.todo[i] = op.created[n - i + 1]
  BY <1>3, <1>5
<1>7. Falling(op'.todo)
  <2> SUFFICES ASSUME NEW i \in 1 .. n, NEW j \in 1 .. n, i < j
               PROVE  Rank(op'.todo[j]) < Rank(op'.todo[i])
    BY <1>6 DEF Falling
  <2>1. PICK a, b \in 1 .. n : a = n - j + 1 /\ b = n - i + 1 /\ a < b  OBVIOUS
  <2>2. op'.todo[j] = op.created[a] /\ op'.todo[i] = op.created[b]  BY <1>6, <2>1
  <2>3. \A k, l \in 1 .. n : k < l => Rank(op.created[k]) < Rank(op.created[l])
    BY <1>1, <1>4 DEF Creating, Rising
  <2>4. Rank(op.created[a]) < Rank(op.created[b])  BY <2>1, <2>3
  <2> QED  BY <2>2, <2>4
<1>8. \A path : Has(op'.todo, path) <=> Has(op.created, path)
  <2> TAKE path
  <2>1. ASSUME NEW i \in 1 .. n, op.created[i] = path  PROVE Has(op'.todo, path)
    <3>1. n - i + 1 \in 1 .. n /\ n - (n - i + 1) + 1 = i  OBVIOUS
    <3>2. op'.todo[n - i + 1] = op.created[i]  BY <1>6, <3>1
    <3> QED  BY <1>6, <2>1, <3>1, <3>2 DEF Has
  <2>2. ASSUME NEW i \in 1 .. n, op'.todo[i] = path  PROVE Has(op.created, path)
    BY <1>4, <1>6, <2>2 DEF Has
  <2> QED  BY <1>4, <1>6, <2>1, <2>2 DEF Has
<1>9. \A i \in 1 .. Len(op.created) : Has(op'.todo, op.created[i])  BY <1>8 DEF Has
<1>10. Has(op.created, "config") => ~Has(op.todo, "list")
  <2>1. ~(Rank("config") < Rank("list"))  BY DEF Rank
  <2> QED  BY <1>1, <2>1 DEF Creating, Has
<1>11. Present("list")' <=> Present("list")  BY <1>2, PresentIs
<1>12. Undoing'
  <2>1. Has(op'.todo, "config") => Present("list")' \/ slipped' # {}
    BY <1>1, <1>2, <1>8, <1>10, <1>11 DEF Creating
  <2> QED  BY <1>3, <1>7, <1>9, <2>1 DEF Undoing
<1> QED  BY <1>3, <1>12 DEF SetupInv, At

(* A file that is taken back is gone or noted as left over, the configuration before *)
(* the list.                                                                    *)
LEMMA UndoesStep ==
    ASSUME TerminalInv, SetupInv, SetupUndoes  PROVE SetupInv'
<1> DEFINE rest == [op EXCEPT !.todo = Tail(op.todo)]
<1>0. PICK path : path = Head(op.todo)  OBVIOUS
<1>1. op \in Ops /\ op.todo \in Seq(Paths) /\ op.created \in Seq(Paths) /\ op.todo # <<>>
      /\ op.kind = "setup" /\ op.phase = "undo" /\ Undoing
  BY DEF TerminalInv, Types, OpTypes, Ops, SetupUndoes, SetupInv, At
<1>2. /\ path = op.todo[1] /\ path \in Paths /\ Len(op.todo) \in Nat \ {0} /\ Tail(op.todo) \in Seq(Paths)
      /\ Len(Tail(op.todo)) = Len(op.todo) - 1
      /\ \A i \in 1 .. Len(op.todo) - 1 : i + 1 \in 1 .. Len(op.todo) /\ Tail(op.todo)[i] = op.todo[i + 1]
  BY <1>0, <1>1, HeadAndTail
<1>3. \/ Becomes(path, Missing, NoConfig("absent"), "absent") /\ op' = rest
      \/ /\ Present(path) /\ op' = [rest EXCEPT !.leftover = @ \cup {path}]
         /\ Becomes("none", list, config, whitelist)
  BY <1>0 DEF SetupUndoes
<1>4. /\ op'.kind = "setup" /\ op'.phase = "undo" /\ op'.created = op.created
      /\ op'.todo = Tail(op.todo)
      /\ op'.leftover = op.leftover \/ op'.leftover = op.leftover \cup {path}
  BY <1>1, <1>3 DEF Ops
<1>5. /\ \A q \in Paths \ {path} : Present(q)' <=> Present(q)
      /\ slipped' = slipped
  <2>1. CASE Becomes(path, Missing, NoConfig("absent"), "absent")
    BY <1>2, <2>1, BecomesAt
  <2>2. CASE Becomes("none", list, config, whitelist)
    BY <2>2, BecomesAt DEF Paths
  <2> QED  BY <1>3, <2>1, <2>2
<1>6. Present(path)' => path \in op'.leftover
  <2>1. CASE Becomes(path, Missing, NoConfig("absent"), "absent")
    <3>1. Missing.status = "missing" /\ NoConfig("absent").status = "absent"
      BY DEF Missing, NoText, NoConfig
    <3>2. ~Present(path)'  BY <1>2, <2>1, <3>1, BecomesAt, PresentIs DEF Paths
    <3> QED  BY <3>2
  <2>2. CASE op' = [rest EXCEPT !.leftover = @ \cup {path}]
    BY <1>1, <2>2 DEF Ops
  <2> QED  BY <1>3, <2>1, <2>2
<1>7. \A q : Has(op.todo, q) => q = path \/ Has(op'.todo, q)
  <2> SUFFICES ASSUME NEW q, NEW i \in 1 .. Len(op.todo), op.todo[i] = q, q # path
               PROVE  Has(op'.todo, q)
    BY DEF Has
  <2>1. i - 1 \in 1 .. Len(op.todo) - 1 /\ (i - 1) + 1 = i  BY <1>2
  <2>2. op'.todo[i - 1] = q  BY <1>2, <1>4, <2>1
  <2> QED  BY <1>2, <1>4, <2>1, <2>2 DEF Has
<1>8. \A q : Has(op'.todo, q) => Has(op.todo, q) /\ Rank(q) < Rank(path)
  <2> SUFFICES ASSUME NEW q, NEW i \in 1 .. Len(op.todo) - 1, op.todo[i + 1] = q
               PROVE  Has(op.todo, q) /\ Rank(q) < Rank(path)
    BY <1>2, <1>4 DEF Has
  <2> QED  BY <1>1, <1>2 DEF Has, Undoing, Falling
<1>9. Falling(op'.todo)
  <2> SUFFICES ASSUME NEW i \in 1 .. Len(op.todo) - 1, NEW j \in 1 .. Len(op.todo) - 1, i < j
               PROVE  Rank(op.todo[j + 1]) < Rank(op.todo[i + 1])
    BY <1>2, <1>4 DEF Falling
  <2> QED  BY <1>1, <1>2 DEF Undoing, Falling
<1>10. ASSUME NEW i \in 1 .. Len(op.created), Present(op.created[i])'
       PROVE  op.created[i] \in slipped' \cup op'.leftover \/ Has(op'.todo, op.created[i])
  <2>1. PICK q \in Paths : q = op.created[i]  BY <1>1
  <2>2. Present(q)'
    <3>1. op'.created[i] = q  BY <1>4, <2>1
    <3> QED  BY <1>10, <3>1 DEF Present
  <2>3. CASE q = path  BY <1>6, <2>1, <2>2, <2>3
  <2>4. CASE q # path  BY <1>1, <1>4, <1>5, <1>7, <2>1, <2>2, <2>4 DEF Undoing
  <2> QED  BY <2>3, <2>4
<1>11. Has(op'.todo, "config") => Present("list")' \/ slipped' # {}
  <2>1. ~(Rank("config") < Rank("list"))  BY DEF Rank
  <2>2. CASE path = "list"  BY <1>8, <2>1, <2>2
  <2>3. CASE path # "list"
    <3>1. Present("list")' <=> Present("list")  BY <1>5, <2>3 DEF Paths
    <3> QED  BY <1>1, <1>5, <1>8, <3>1 DEF Undoing
  <2> QED  BY <2>2, <2>3
<1>12. Undoing'  BY <1>4, <1>9, <1>10, <1>11 DEF Undoing
<1> QED  BY <1>4, <1>12 DEF SetupInv, At

(* At the end of a setup only what others made, or could not be removed, is left. *)
LEMMA EndsStep ==
    ASSUME TerminalInv, SetupInv, SetupChecks \/ SetupEnds \/ SetupIsUndone  PROVE SetupInv'
<1>1. op \in Ops /\ changes \in Nat /\ op.kind = "setup"
  BY DEF TerminalInv, Types, OpTypes, FileTypes, SetupChecks, SetupEnds, SetupIsUndone, At
<1>2. UNCHANGED <<list, config, whitelist, slipped>>
  BY DEF SetupChecks, SetupEnds, SetupIsUndone, files
<1>3. \A path : Present(path)' <=> Present(path)  BY <1>2 DEF Present
<1>4. CASE SetupChecks
  <2>1. Fresh  BY <1>4 DEF SetupChecks, SetupInv, At
  <2>2. op'.kind = "setup" /\ op'.created = <<>> /\ op'.leftover = {} /\ op'.phase \in {"lock", "ended"}
        /\ op'.outcome \in {op.outcome, "stopped"}
    <3>1. CASE Go("lock")  BY <1>1, <2>1, <3>1, GoTyped DEF Fresh, Phases
    <3>2. CASE End("stopped")  BY <1>1, <2>1, <3>2, EndTyped DEF Fresh, Outcomes
    <3> QED  BY <1>4, <3>1, <3>2 DEF SetupChecks
  <2>3. Len(<<>>) = 0  OBVIOUS
  <2>4. Fresh' /\ Done'  BY <2>2, <2>3 DEF Fresh, Done, Has
  <2> QED  BY <2>2, <2>4 DEF SetupInv, At
<1>5. CASE SetupEnds
  <2>1. Creating /\ op.todo = <<>>  BY <1>5 DEF SetupEnds, SetupInv, At
  <2>2. /\ op'.kind = "setup" /\ op'.created = op.created /\ op'.leftover = op.leftover
        /\ op'.phase = "ended" /\ op'.outcome = "completed"
    BY <1>1, <1>5, EndTyped DEF SetupEnds, Outcomes
  <2>3. ~Has(op.todo, "list")  BY <2>1 DEF Has
  <2>4. Done'  BY <1>2, <1>3, <2>1, <2>2, <2>3 DEF Done, Creating
  <2> QED  BY <2>2, <2>4 DEF SetupInv, At
<1>6. CASE SetupIsUndone
  <2>1. Undoing /\ op.todo = <<>>  BY <1>6 DEF SetupIsUndone, SetupInv, At
  <2>2. PICK outcome \in {"failed", "incomplete"} :
            End(outcome) /\ (outcome = "failed" => op.leftover = {})
    BY <1>6 DEF SetupIsUndone
  <2>3. /\ op'.kind = "setup" /\ op'.created = op.created /\ op'.leftover = op.leftover
        /\ op'.phase = "ended" /\ op'.outcome = outcome
    BY <1>1, <2>2, EndTyped DEF Outcomes
  <2>4. \A path : ~Has(op.todo, path)  BY <2>1 DEF Has
  <2>5. \A i \in 1 .. Len(op.created) : Present(op.created[i]) => op.created[i] \in slipped \cup op.leftover
    BY <2>1, <2>4 DEF Undoing
  <2>6. \A i \in 1 .. Len(op.created) : Present(op.created[i])' <=> Present(op.created[i])
    BY <1>2, <2>3 DEF Present
  <2>7. Has(op.created, "config") /\ Present("config") => "config" \in slipped \cup op.leftover
    BY <2>5 DEF Has
  <2>8. Done'  BY <1>2, <1>3, <2>2, <2>3, <2>5, <2>6, <2>7 DEF Done
  <2> QED  BY <2>3, <2>8 DEF SetupInv, At
<1> QED  BY <1>4, <1>5, <1>6

(* The file that is replaced is the one of the review, and what is checked is what *)
(* was written, unless others changed it.                                       *)
LEMMA SaveInvStep ==
    ASSUME TerminalInv, SaveInv, SaveStep  PROVE SaveInv'
<1>1. op \in Ops /\ changes \in Nat /\ op.kind = "targets"
  BY DEF TerminalInv, Types, OpTypes, FileTypes, SaveStep, SaveChecks, SaveLocks, SaveWrites,
       SaveVerifies, At
<1>2. ASSUME NEW result \in Outcomes, End(result)  PROVE SaveInv'
  <2>1. op'.phase = "ended"  BY <1>1, <1>2, EndTyped
  <2> QED  BY <2>1 DEF SaveInv, At
<1>3. ASSUME NEW phase \in {"lock", "write", "verify"}, Go(phase)
      PROVE  op'.phase = phase /\ op'.plan = op.plan
  BY <1>1, <1>3, GoTyped DEF Phases
<1>4. CASE SaveChecks
  <2>1. CASE Go("lock")  BY <1>3, <2>1 DEF SaveInv, At
  <2> QED  BY <1>2, <1>4, <2>1 DEF SaveChecks, Outcomes
<1>5. CASE SaveLocks
  <2>1. CASE Go("write") /\ config = op.plan.hash
    BY <1>3, <1>5, <2>1 DEF SaveLocks, files, SaveInv, At
  <2> QED  BY <1>2, <1>5, <2>1 DEF SaveLocks, Outcomes
<1>6. CASE SaveWrites
  <2>1. CASE config' = op.plan.new /\ Go("verify")
    BY <1>3, <2>1 DEF SaveInv, At
  <2> QED  BY <1>2, <1>6, <2>1 DEF SaveWrites, Outcomes
<1>7. CASE SaveVerifies  BY <1>2, <1>7 DEF SaveVerifies, Outcomes
<1> QED  BY <1>4, <1>5, <1>6, <1>7 DEF SaveStep

(* Every step keeps what is known of setup and save.                            *)
LEMMA WriteStep ==
    ASSUME TerminalInv, WriteInv, Next  PROVE WriteInv'
<1>1. CASE op'.phase \in {"none", "shown"}  BY <1>1 DEF WriteInv, SetupInv, SaveInv, At
<1>2. CASE ~Unsettled
  <2>1. CASE op'.phase = "start" /\ Fresh'  BY <2>1 DEF WriteInv, SetupInv, SaveInv, At
  <2> QED  BY <1>1, <1>2, <2>1, BeginsFresh
<1>3. CASE UNCHANGED folder
  BY <1>3 DEF folder, files, WriteInv, SetupInv, SaveInv, At, Fresh, Creating, Undoing, Done,
       Present
<1>4. CASE Unsettled /\ GoesOn /\ Worker
  <2>1. CASE op.kind = "setup"
    <3>1. SetupStep
      BY <1>4, <2>1 DEF Worker, WorkPull, WorkPush, WorkRecover, WorkDiscard, SaveStep,
           SaveChecks,
                        SaveLocks, SaveWrites, SaveVerifies, At
    <3>2. SetupInv'
      BY <3>1, LocksStep, CreatesStep, BreaksOffStep, UndoesStep, EndsStep DEF WriteInv,
           SetupStep
    <3> QED  BY <1>4, <2>1, <3>2 DEF GoesOn, WriteInv, SaveInv, At
  <2>2. CASE op.kind = "targets"
    <3>1. SaveStep
      BY <1>4, <2>2 DEF Worker, WorkPull, WorkPush, WorkRecover, WorkDiscard, SetupStep,
           SetupChecks,
                        SetupLocks, SetupCreates, SetupBreaksOff, SetupEnds, SetupUndoes,
                        SetupIsUndone, At
    <3> QED  BY <1>4, <2>2, <3>1, SaveInvStep DEF GoesOn, WriteInv, SetupInv, At
  <2> QED  BY <1>4, <2>1, <2>2 DEF GoesOn, WriteInv, SetupInv, SaveInv, At
<1>5. CASE Unsettled /\ Others /\ UNCHANGED op
  <2>1. CASE op.kind = "setup"
    BY <1>5, <2>1, SetupOthers DEF WriteInv, SaveInv, At
  <2>2. CASE op.kind = "targets"
    BY <1>5, <2>2, OthersSlip DEF WriteInv, SetupInv, SaveInv, At
  <2> QED  BY <1>5, <2>1, <2>2 DEF WriteInv, SetupInv, SaveInv, At
<1> QED  BY <1>1, <1>2, <1>3, <1>4, <1>5, Underway

(* What is known of setup and save at each of their steps always holds.         *)
THEOREM WritesHold == Spec => [](TerminalInv /\ WriteInv)
<1>1. Init => WriteInv  BY NoOpTyped DEF Init, WriteInv, SetupInv, SaveInv, At
<1>2. TerminalInv /\ WriteInv /\ [Next]_vars => WriteInv'
  <2>1. CASE UNCHANGED vars
    BY <2>1 DEF vars, folder, files, WriteInv, SetupInv, SaveInv, At, Fresh, Creating,
         Undoing, Done,
                Present
  <2> QED  BY <2>1, WriteStep
<1> QED  BY <1>1, <1>2, TerminalHolds, PTL DEF Spec

(* The paths of a list.                                                         *)
LEMMA RangeHas ==
    ASSUME NEW s \in Seq(Paths), NEW path  PROVE path \in Range(s) <=> Has(s, path)
  BY DEF Range, Has

(* A setup that reports failure, and not that it is incomplete, has left nothing of *)
(* what it created (_rollback_created).                                         *)
THEOREM FailedMeansUntouchedHolds == Spec => []FailedMeansUntouched
<1>1. TerminalInv /\ WriteInv => FailedMeansUntouched
  <2> SUFFICES ASSUME TerminalInv, WriteInv, At("setup", "ended"), op.outcome = "failed"
               PROVE  \A i \in DOMAIN op.created : Present(op.created[i]) => op.created[i] \in slipped
    BY DEF FailedMeansUntouched
  <2>1. op.created \in Seq(Paths)  BY DEF TerminalInv, Types, OpTypes, Ops
  <2> QED  BY <2>1 DEF WriteInv, SetupInv, Done
<1> QED  BY <1>1, WritesHold, PTL

(* Wherever a setup is killed, it leaves no configuration without a word list, others' changes and files that could not be removed apart. *)
THEOREM ResumableSetupHolds == Spec => []ResumableSetup
<1>1. TerminalInv /\ WriteInv => ResumableSetup
  <2> SUFFICES ASSUME TerminalInv, WriteInv, op.kind = "setup", Unsettled,
                      "config" \in Range(op.created), Present("config")
               PROVE  Present("list") \/ slipped # {} \/ "config" \in op.leftover
    BY DEF ResumableSetup
  <2>1. op.created \in Seq(Paths) /\ op.phase \in Phases  BY DEF TerminalInv, Types, OpTypes, Ops
  <2>2. Has(op.created, "config")  BY <2>1, RangeHas
  <2>3. CASE At("setup", "start") \/ At("setup", "lock")  BY <2>2, <2>3 DEF WriteInv, SetupInv, Fresh, Has
  <2>4. CASE At("setup", "create")
    <3>1. ~(Rank("config") < Rank("list"))  BY DEF Rank
    <3> QED  BY <2>2, <2>4, <3>1 DEF WriteInv, SetupInv, Creating, Has
  <2>5. CASE At("setup", "undo")
    <3>1. Undoing  BY <2>5 DEF WriteInv, SetupInv
    <3>2. "config" \in slipped \cup op.leftover \/ Has(op.todo, "config")
      BY <2>2, <3>1 DEF Undoing, Has
    <3> QED  BY <3>1, <3>2 DEF Undoing
  <2>6. CASE At("setup", "ended")  BY <2>2, <2>6 DEF WriteInv, SetupInv, Done
  <2>7. op.phase \in {"start", "lock", "create", "undo", "ended"}
    BY <2>1 DEF Phases, Unsettled, WriteInv, SetupInv
  <2> QED  BY <2>3, <2>4, <2>5, <2>6, <2>7 DEF At
<1> QED  BY <1>1, WritesHold, PTL

(* While a setup creates files, nothing else changes them, and what it writes was not *)
(* there, or others have made it since it looked.                               *)
LEMMA OnlyCreates ==
    ASSUME TerminalInv, WriteInv, [Next]_vars, At("setup", "create"), edits' = edits, stack' # <<>>
    PROVE  \/ UNCHANGED <<list, config, whitelist>>
           \/ SetupCreates /\ (Present(Head(op.todo)) => Head(op.todo) \in slipped)
<1>1. CASE UNCHANGED vars  BY <1>1 DEF vars, folder, files
<1>2. CASE Next
  <2>1. Unsettled  BY DEF At, Unsettled
  <2>2. CASE UNCHANGED folder  BY <2>2 DEF folder, files
  <2>3. CASE Worker
    <3>1. SetupStep
      BY <2>3 DEF Worker, WorkPull, WorkPush, WorkRecover, WorkDiscard, SaveStep, SaveChecks,
                  SaveLocks, SaveWrites, SaveVerifies, At
    <3>2. SetupCreates \/ SetupBreaksOff \/ SetupEnds
      BY <3>1 DEF SetupStep, SetupChecks, SetupLocks, SetupUndoes, SetupIsUndone, At
    <3>3. CASE SetupBreaksOff \/ SetupEnds  BY <3>3 DEF SetupBreaksOff, SetupEnds, files
    <3>4. CASE SetupCreates
      <4>1. op.todo \in Seq(Paths) /\ op.todo # <<>>
        BY <3>4 DEF TerminalInv, Types, OpTypes, Ops, SetupCreates
      <4>2. Head(op.todo) = op.todo[1] /\ 1 \in 1 .. Len(op.todo)  BY <4>1
      <4> QED  BY <3>4, <4>2 DEF WriteInv, SetupInv, Creating
    <3> QED  BY <3>2, <3>3, <3>4
  <2>4. CASE Others
    <3>1. edits' = edits + 1  BY <2>4 DEF Others, EditList, EditDict, EditConfig, Edits
    <3>2. edits \in Nat  BY ProjectAssumption DEF TerminalInv, Types, FileTypes
    <3> QED  BY <3>1, <3>2
  <2>5. CASE op'.phase \in {"none", "shown"}
    <3>1. Types  BY DEF TerminalInv
    <3>2. CASE Rests  BY <3>2 DEF Rests, folder, files
    <3>3. CASE Starts  BY <3>3 DEF Starts, files
    <3>4. CASE Settles  BY <3>4 DEF Settles, files
    <3>5. CASE Leaves  BY <3>5 DEF Leaves, files
    <3>6. CASE Writes  BY <2>1, <2>5, <3>6 DEF Writes, SaveWord, Unsettled
    <3>7. CASE OperationEnds  BY <3>7 DEF OperationEnds, files
    <3>8. CASE Stop  BY <3>8 DEF Stop
    <3> QED  BY <1>2, <2>3, <2>4, <3>1, <3>2, <3>3, <3>4, <3>5, <3>6, <3>7, <3>8, FolderMoves
  <2> QED  BY <1>2, <2>1, <2>2, <2>3, <2>4, <2>5, Underway
<1> QED  BY <1>1, <1>2

(* A setup never replaces a file that was there when it looked under the lock.  *)
THEOREM SetupKeepsOthersFilesHolds == Spec => SetupKeepsOthersFiles
<1> DEFINE A == At("setup", "create") /\ edits' = edits /\ stack' # <<>> =>
                    /\ Present("list") /\ "list" \notin slipped => list' = list
                    /\ Present("config") /\ "config" \notin slipped /\ "config" \notin Range(op.created)
                          => config' = config
                    /\ Present("whitelist") => whitelist' = whitelist
<1>1. TerminalInv /\ WriteInv /\ [Next]_vars => [A]_vars
  <2> SUFFICES ASSUME TerminalInv, WriteInv, [Next]_vars,
                      At("setup", "create"), edits' = edits, stack' # <<>>
               PROVE  /\ Present("list") /\ "list" \notin slipped => list' = list
                      /\ Present("config") /\ "config" \notin slipped => config' = config
                      /\ Present("whitelist") => whitelist' = whitelist
    OBVIOUS
  <2>1. CASE UNCHANGED <<list, config, whitelist>>  BY <2>1
  <2>2. CASE SetupCreates /\ (Present(Head(op.todo)) => Head(op.todo) \in slipped)
    <3>1. PICK path : path = Head(op.todo)  OBVIOUS
    <3>2. op.todo \in Seq(Paths) /\ op.todo # <<>>
      BY <2>2 DEF TerminalInv, Types, OpTypes, Ops, SetupCreates
    <3>3. path \in Paths  BY <3>1, <3>2, HeadAndTail
    <3>4. Becomes(path, Text({}), op.plan.new, "ours")  BY <2>2, <3>1 DEF SetupCreates
    <3>5. "whitelist" \notin slipped  BY DEF TerminalInv, Types, FileTypes
    <3>6. /\ path # "list"      => list' = list
          /\ path # "config"    => config' = config
          /\ path # "whitelist" => whitelist' = whitelist
      BY <3>3, <3>4, BecomesAt
    <3> QED  BY <2>2, <3>1, <3>5, <3>6
  <2> QED  BY <2>1, <2>2, OnlyCreates
<1> HIDE DEF A
<1>2. Spec => [][A]_vars  BY <1>1, WritesHold, PTL DEF Spec
<1> QED  BY <1>2 DEF SetupKeepsOthersFiles, A

(* A save replaces the configuration the review was made from, never a newer one that *)
(* was there when the save looked under the lock.                               *)
THEOREM NewerConfigKeptHolds == Spec => NewerConfigKept
<1> DEFINE A == At("targets", "write") /\ config' # config /\ edits' = edits =>
                    \/ config = op.plan.read
                    \/ "config" \in slipped
                    \/ op.plan.read # op.plan.hash
<1>1. TerminalInv /\ WriteInv /\ [Next]_vars => [A]_vars
  BY DEF WriteInv, SaveInv
<1> HIDE DEF A
<1>2. Spec => [][A]_vars  BY <1>1, WritesHold, PTL DEF Spec
<1> QED  BY <1>2 DEF NewerConfigKept, A

(* A save that reports success has written what the review showed.              *)
THEOREM CompletedMeansSavedHolds == Spec => CompletedMeansSaved
<1> DEFINE A == At("targets", "verify") /\ op'.phase = "ended" /\ op'.outcome = "completed"
                    => config = op.plan.new \/ "config" \in slipped
<1>1. TerminalInv /\ WriteInv /\ [Next]_vars => [A]_vars
  BY DEF WriteInv, SaveInv
<1> HIDE DEF A
<1>2. Spec => [][A]_vars  BY <1>1, WritesHold, PTL DEF Spec
<1> QED  BY <1>2 DEF CompletedMeansSaved, A
=============================================================================

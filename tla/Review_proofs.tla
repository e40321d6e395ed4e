--------------------------- MODULE Review_proofs ------------------------------
(***************************************************************************)
(* What the terminal interface promises across several screens, for any    *)
(* files, words, dictionaries and edits: a Review session ends with its    *)
(* screens, saving Applications switches nothing the user did not, what is *)
(* confirmed was worked out after the last change, and the report of a     *)
(* Review session says that the lists match only when they do.             *)
(*                                                                         *)
(* ScreenInv says which screen may stand on which, that a Review session,  *)
(* Applications and Start here keep to their own screens, and where the    *)
(* screen of an operation may be.  SettingsInv says what the session of    *)
(* Applications keeps of the configuration it was opened on, whatever is   *)
(* edited meanwhile.  FreshInv says that what collect and update           *)
(* show, or wait for, was made after the last change of this terminal.     *)
(* ReportInv says what the report of a Review session rests on: what its   *)
(* threads have read, and what a completed update has left.                *)
(***************************************************************************)
EXTENDS Terminal_proofs

(* The screen y may stand on the screen x.                                      *)
Upon(x, y) ==
    \/ x = "Dashboard" /\ y \in {"Pull", "Preview", "AddWords", "Recovery", "ReviewStart",
                                 "ReviewPull", "FirstWin", "Settings"}
    \/ x = "FirstWin" /\ y \in {"AddWords", "ReviewStart", "ReviewPull", "Preview"}
    \/ x = "Pull" /\ y \in {"Operation", "AddWords", "Preview"}
    \/ x = "Preview" /\ y = "Operation"
    \/ x = "Recovery" /\ y = "Operation"
    \/ x = "Operation" /\ y \in {"Busy", "Report"}
    \/ x = "Report" /\ y = "Preview"
    \/ x = "ReviewPull" /\ y \in {"Operation", "AddWords", "ReviewPush", "ReviewPullComplete",
                                  "SessionReport"}
    \/ x = "ReviewPullComplete" /\ y = "ReviewPush"
    \/ x = "ReviewPush" /\ y \in {"Operation", "SessionReport"}
    \/ x = "SetupWelcome" /\ y = "SetupWordlist"
    \/ x = "SetupWordlist" /\ y = "SetupTargets"
    \/ x = "SetupTargets" /\ y = "SetupPreview"
    \/ x = "SetupPreview" /\ y = "Operation"
    \/ x = "Settings" /\ y = "SettingsReview"
    \/ x = "SettingsReview" /\ y = "Operation"

(* A Review session, Applications and Start here each keep to their own screens,  *)
(* above the one they begin with.                                               *)
Roots == {"ReviewPull", "Settings", "SetupWelcome"}
ScreensOf(root) ==
    CASE root = "ReviewPull"   -> {"ReviewPull", "ReviewPullComplete", "ReviewPush", "SessionReport",
                                   "AddWords", "Operation"}
      [] root = "Settings"     -> {"Settings", "SettingsReview", "Operation", "Report"}
      [] root = "SetupWelcome" -> {"SetupWelcome", "SetupWordlist", "SetupTargets", "SetupPreview",
                                   "Operation", "Busy", "Report"}

Stands(s, root) == \E k \in 1 .. Len(s) : s[k] = root
Apart(s)        == \A root \in Roots : \A k \in 1 .. Len(s) : s[k] = root =>
                       \A i \in k .. Len(s) : s[i] \in ScreensOf(root)
Chain(s) == /\ s # <<>> => s[1] \in {"Dashboard", "SetupWelcome"}
            /\ \A k \in 1 .. Len(s) - 1 : Upon(s[k], s[k + 1])
            /\ Apart(s)

(* The session lasts as long as its first screen; the screen of an operation is  *)
(* there until its report, on the screens of its kind.                          *)
ScreenInv ==
    /\ Chain(stack)
    /\ session.on <=> Stands(stack, "ReviewPull")
    /\ op.plan # Nothing => Covered
    /\ On("Operation") \/ On("Busy") => op.plan # Nothing
    /\ op.plan # Nothing /\ op.kind = "setup" => Stands(stack, "SetupWelcome")
    /\ op.plan # Nothing /\ op.kind = "targets" => Stands(stack, "Settings")
    /\ op.plan # Nothing /\ op.kind \notin {"setup", "targets"} =>
          ~Stands(stack, "SetupWelcome") /\ ~Stands(stack, "Settings")
    /\ On("Report") /\ offer => ~Stands(stack, "SetupWelcome") /\ ~Stands(stack, "Settings")

(* The screen on top, and the one under it.                                     *)
LEMMA OnTop ==
    ASSUME stack \in Seq(AllScreens), Chain(stack), NEW x, On(x)
    PROVE  /\ stack # <<>> /\ Len(stack) \in Nat \ {0} /\ stack[Len(stack)] = x /\ Last(stack) = x
           /\ \A root \in Roots : Stands(stack, root) => x \in ScreensOf(root)
           /\ x \notin {"Dashboard", "SetupWelcome"} => Len(stack) > 1 /\ Upon(stack[Len(stack) - 1], x)
<1>1. stack # <<>> /\ Len(stack) \in Nat \ {0} /\ stack[Len(stack)] = x /\ Last(stack) = x
  BY DEF On, Last
<1>2. ASSUME NEW root \in Roots, Stands(stack, root)  PROVE x \in ScreensOf(root)
  <2>1. PICK k \in 1 .. Len(stack) : stack[k] = root  BY <1>2 DEF Stands
  <2>2. Len(stack) \in k .. Len(stack)  BY <1>1, <2>1
  <2> QED  BY <1>1, <2>1, <2>2 DEF Chain, Apart
<1>3. ASSUME x \notin {"Dashboard", "SetupWelcome"}  PROVE Len(stack) > 1 /\ Upon(stack[Len(stack) - 1], x)
  <2>1. Len(stack) > 1  BY <1>1, <1>3 DEF Chain
  <2>2. Len(stack) - 1 \in 1 .. Len(stack) - 1 /\ (Len(stack) - 1) + 1 = Len(stack)  BY <1>1, <2>1
  <2> QED  BY <1>1, <2>1, <2>2 DEF Chain
<1> QED  BY <1>1, <1>2, <1>3

(* Screens of one kind are not on the screens of another.                       *)
LEMMA RootsApart ==
    ASSUME NEW s \in Seq(AllScreens), Chain(s), NEW p \in Roots, NEW q \in Roots, p # q, Stands(s, p)
    PROVE  ~Stands(s, q)
<1>1. SUFFICES ASSUME Stands(s, q)  PROVE FALSE
  OBVIOUS
<1>2. PICK j \in 1 .. Len(s) : s[j] = p  BY DEF Stands
<1>3. PICK k \in 1 .. Len(s) : s[k] = q  BY <1>1 DEF Stands
<1>4. j \in Nat /\ k \in Nat /\ Len(s) \in Nat  BY <1>2, <1>3
<1>5. k \in j .. Len(s) \/ j \in k .. Len(s)  BY <1>2, <1>3, <1>4
<1>6. q \in ScreensOf(p) \/ p \in ScreensOf(q)  BY <1>2, <1>3, <1>5 DEF Chain, Apart
<1> QED  BY <1>6 DEF Roots, ScreensOf

(* Screens closed and one opened on what is left.                               *)
LEMMA Laid ==
    ASSUME NEW s \in Seq(AllScreens), NEW t \in Seq(AllScreens), Chain(s), NEW n \in 0 .. Len(s),
           Len(t) = n + 1, \A i \in 1 .. n : t[i] = s[i],
           n = 0 => t[1] \in {"Dashboard", "SetupWelcome"},
           n > 0 => Upon(s[n], t[n + 1]),
           \A root \in Roots : Stands(s, root) => t[n + 1] \in ScreensOf(root)
    PROVE  Chain(t)
<1>0. n \in Nat /\ Len(s) \in Nat /\ n <= Len(s)  OBVIOUS
<1>1. t[1] \in {"Dashboard", "SetupWelcome"}
  <2>1. CASE n = 0  BY <2>1
  <2>2. CASE n > 0
    <3>1. s # <<>> /\ 1 \in 1 .. n  BY <1>0, <2>2
    <3> QED  BY <3>1 DEF Chain
  <2> QED  BY <1>0, <2>1, <2>2
<1>2. ASSUME NEW k \in 1 .. Len(t) - 1  PROVE Upon(t[k], t[k + 1])
  <2>1. k \in 1 .. n  BY <1>0, <1>2
  <2>2. CASE k = n  BY <1>0, <2>1, <2>2
  <2>3. CASE k # n
    <3>1. k + 1 \in 1 .. n /\ k \in 1 .. Len(s) - 1  BY <1>0, <2>1, <2>3
    <3> QED  BY <2>1, <3>1 DEF Chain
  <2> QED  BY <2>2, <2>3
<1>3. ASSUME NEW root \in Roots, NEW k \in 1 .. Len(t), t[k] = root, NEW i \in k .. Len(t)
      PROVE  t[i] \in ScreensOf(root)
  <2>1. CASE k = n + 1
    <3>1. i = n + 1  BY <1>0, <2>1
    <3> QED  BY <1>3, <2>1, <3>1 DEF Roots, ScreensOf
  <2>2. CASE k # n + 1
    <3>1. k \in 1 .. n /\ k \in 1 .. Len(s) /\ s[k] = root  BY <1>0, <1>3, <2>2
    <3>2. CASE i = n + 1  BY <3>1, <3>2 DEF Stands
    <3>3. CASE i # n + 1
      <4>1. i \in 1 .. n /\ i \in k .. Len(s)  BY <1>0, <3>1, <3>3
      <4> QED  BY <3>1, <4>1 DEF Chain, Apart
    <3> QED  BY <3>2, <3>3
  <2> QED  BY <2>1, <2>2
<1> QED  BY <1>1, <1>2, <1>3 DEF Chain, Apart

(* Screens closed.                                                              *)
LEMMA Cut ==
    ASSUME NEW s \in Seq(AllScreens), NEW t \in Seq(AllScreens), Chain(s),
           Len(t) <= Len(s), \A i \in 1 .. Len(t) : t[i] = s[i]
    PROVE  Chain(t)
<1>0. Len(s) \in Nat /\ Len(t) \in Nat  OBVIOUS
<1>1. t # <<>> => t[1] \in {"Dashboard", "SetupWelcome"}
  <2> HAVE t # <<>>
  <2>1. 1 \in 1 .. Len(t) /\ s # <<>>  BY <1>0
  <2> QED  BY <2>1 DEF Chain
<1>2. ASSUME NEW k \in 1 .. Len(t) - 1  PROVE Upon(t[k], t[k + 1])
  <2>1. k \in 1 .. Len(t) /\ k + 1 \in 1 .. Len(t) /\ k \in 1 .. Len(s) - 1  BY <1>0, <1>2
  <2> QED  BY <2>1 DEF Chain
<1>3. ASSUME NEW root \in Roots, NEW k \in 1 .. Len(t), t[k] = root, NEW i \in k .. Len(t)
      PROVE  t[i] \in ScreensOf(root)
  <2>1. k \in 1 .. Len(s) /\ s[k] = root /\ i \in k .. Len(s) /\ i \in 1 .. Len(t)  BY <1>0, <1>3
  <2> QED  BY <2>1 DEF Chain, Apart
<1> QED  BY <1>1, <1>2, <1>3 DEF Chain, Apart

(* What a step does to the screens.                                             *)
Fits(y) == \A root \in Roots : Stands(stack, root) => y \in ScreensOf(root)

Sits == /\ UNCHANGED stack /\ session'.on = session.on
        /\ op'.kind = op.kind /\ op'.plan = op.plan /\ (UNCHANGED offer \/ ~On("Report"))
OpensOn(x, y) == On(x) /\ stack' = Opened(y) /\ session'.on = session.on /\ UNCHANGED op
Opens == \E x, y \in AllScreens :
    /\ OpensOn(x, y) /\ Upon(x, y) /\ Fits(y)
    /\ y \notin {"Operation", "Busy", "Report", "ReviewPull", "SetupWelcome"}
SwapsOn(x, y) == /\ On(x) /\ stack' = Append(Closed, y) /\ op' \in {op, NoOp}
                 /\ session'.on = IF y = "ReviewPull" THEN TRUE ELSE session.on
Swaps == \E x, y \in AllScreens :
    /\ SwapsOn(x, y) /\ Len(stack) > 1 /\ Upon(stack[Len(stack) - 1], y) /\ Fits(y)
    /\ x \notin Roots \cup {"Busy"} /\ (x = "Operation" => op' = NoOp)
    /\ y \notin {"Operation", "Busy", "Report", "Settings", "SetupWelcome"}
Closes == \E x \in AllScreens \ {"Operation", "SetupWelcome", "Dashboard", "Report"} :
    /\ On(x) /\ stack' = Closed /\ UNCHANGED op /\ offer' \in {offer, FALSE}
    /\ session'.on = IF x = "ReviewPull" THEN FALSE ELSE session.on
Suits(kind) == /\ kind = "setup"   => Stands(stack, "SetupWelcome")
               /\ kind = "targets" => Stands(stack, "Settings")
               /\ kind \notin {"setup", "targets"} =>
                     ~Stands(stack, "SetupWelcome") /\ ~Stands(stack, "Settings")
Runs(x, kind) == /\ On(x) /\ session'.on = session.on /\ Suits(kind)
                 /\ Upon(x, "Operation") \/ (x = "Operation" /\ kind = "setup" /\ mutation)
BeginsOn == \E x \in AllScreens : \E kind \in Kinds : \E plan \in PlansOf(kind) :
                Begins(kind, plan) /\ Runs(x, kind)
Tells == /\ On("Operation") /\ stack' = Opened("Report") /\ op'.plan = Nothing
         /\ session'.on = session.on /\ Fits("Report") /\ (offer' => op.kind = "pull")
Homes == /\ \/ stack' \in {<<>>, <<"SetupWelcome">>} /\ (stack = <<>> \/ Calm')
            \/ stack' \in {<<"Dashboard">>, <<"Dashboard", "FirstWin">>, <<"Dashboard", "Preview">>}
         /\ session'.on = FALSE /\ op'.plan = Nothing

(* One screen goes on another of the same kind.                                  *)
Over(x, y) == Upon(x, y) /\ \A root \in Roots : x \in ScreensOf(root) => y \in ScreensOf(root)

(* A screen fits on the one that opens it.                                      *)
LEMMA FitsOn ==
    ASSUME stack \in Seq(AllScreens), Chain(stack), NEW x, NEW y, On(x), Over(x, y)
    PROVE  Upon(x, y) /\ Fits(y)
  BY OnTop DEF Over, Fits

(* Home with a screen on it, and without.                                       *)
LEMMA HomeIs ==
    /\ Home \o <<>> = <<"Dashboard">> /\ Home \o <<"FirstWin">> = <<"Dashboard", "FirstWin">>
    /\ Home \o <<"Preview">> = <<"Dashboard", "Preview">>
<1>1. Home \o <<>> = <<"Dashboard">>
  <2>1. Home \in Seq(AllScreens)  BY DEF Home, AllScreens
  <2> QED  BY <2>1, EmptySeq DEF Home
<1>2. Home \o <<"FirstWin">> = <<"Dashboard", "FirstWin">>
  <2>1. Home \in Seq(AllScreens) /\ <<"FirstWin">> \in Seq(AllScreens) /\ Len(Home) = 1 /\ Home[1] = "Dashboard"
    BY DEF Home, AllScreens
  <2> DEFINE t == Home \o <<"FirstWin">>
  <2>2. t \in Seq(AllScreens) /\ Len(t) = 2 /\ t[1] = "Dashboard" /\ t[2] = "FirstWin"
    BY <2>1, ConcatProperties
  <2> HIDE DEF t
  <2>3. t = <<"Dashboard", "FirstWin">>  BY <2>2
  <2> QED  BY <2>3 DEF t
<1>3. Home \o <<"Preview">> = <<"Dashboard", "Preview">>
  <2>1. Home \in Seq(AllScreens) /\ <<"Preview">> \in Seq(AllScreens) /\ Len(Home) = 1 /\ Home[1] = "Dashboard"
    BY DEF Home, AllScreens
  <2> DEFINE t == Home \o <<"Preview">>
  <2>2. t \in Seq(AllScreens) /\ Len(t) = 2 /\ t[1] = "Dashboard" /\ t[2] = "Preview"
    BY <2>1, ConcatProperties
  <2> HIDE DEF t
  <2>3. t = <<"Dashboard", "Preview">>  BY <2>2
  <2> QED  BY <2>3 DEF t
<1> QED  BY <1>1, <1>2, <1>3

(* The screen under the one on top belongs to the same root, unless the top is it. *)
LEMMA UnderOf ==
    ASSUME stack \in Seq(AllScreens), Chain(stack), NEW x, On(x), Len(stack) > 1,
           NEW root \in Roots, Stands(stack, root), x # root
    PROVE  stack[Len(stack) - 1] \in ScreensOf(root)
<1>1. stack[Len(stack)] = x /\ Len(stack) \in Nat  BY OnTop
<1>2. PICK k \in 1 .. Len(stack) : stack[k] = root  BY DEF Stands
<1>3. k # Len(stack)  BY <1>1, <1>2
<1>4. Len(stack) - 1 \in k .. Len(stack)  BY <1>1, <1>2, <1>3
<1> QED  BY <1>2, <1>4 DEF Chain, Apart

(* The screens of a Review session stand on its first one.                       *)
LEMMA ReviewFits ==
    ASSUME stack \in Seq(AllScreens), Chain(stack), On("Operation"), Len(stack) > 1,
           stack[Len(stack) - 1] \in {"ReviewPull", "ReviewPush"}
    PROVE  \A y \in {"ReviewPullComplete", "SessionReport"} : Fits(y)
<1>1. \A root \in Roots : Stands(stack, root) => stack[Len(stack) - 1] \in ScreensOf(root)
  BY UnderOf DEF Roots
<1>2. ~Stands(stack, "Settings") /\ ~Stands(stack, "SetupWelcome")  BY <1>1 DEF Roots, ScreensOf
<1> QED  BY <1>2 DEF Fits, Roots, ScreensOf

(* Only Start here has its last two screens, and every one before them.          *)
LEMMA SetupOnly ==
    ASSUME stack \in Seq(AllScreens), Chain(stack), On("SetupPreview")
    PROVE  Stands(stack, "SetupWelcome")
<1>1. stack[Len(stack)] = "SetupPreview" /\ Len(stack) \in Nat /\ Len(stack) > 1  BY OnTop
<1>2. PICK n \in Nat : n = Len(stack)  BY <1>1
<1>3. \A k \in 1 .. n - 1 : Upon(stack[k], stack[k + 1])  BY <1>2 DEF Chain
<1>4. stack[1] \in {"Dashboard", "SetupWelcome"}  BY <1>1 DEF Chain
<1>5. n - 1 \in 1 .. n - 1 /\ (n - 1) + 1 = n  BY <1>1, <1>2
<1>6. stack[n - 1] = "SetupTargets"  BY <1>1, <1>2, <1>3, <1>5 DEF Upon
<1>7. n - 1 # 1  BY <1>4, <1>6
<1>8. n - 2 \in 1 .. n - 1 /\ (n - 2) + 1 = n - 1  BY <1>1, <1>2, <1>7
<1>9. stack[n - 2] = "SetupWordlist"  BY <1>3, <1>6, <1>8 DEF Upon
<1>10. n - 2 # 1  BY <1>4, <1>9
<1>11. n - 3 \in 1 .. n - 1 /\ (n - 3) + 1 = n - 2  BY <1>1, <1>2, <1>7, <1>10
<1>12. stack[n - 3] = "SetupWelcome"  BY <1>3, <1>9, <1>11 DEF Upon
<1> QED  BY <1>2, <1>11, <1>12 DEF Stands

(* Every step does one of these to the screens.                                  *)
LEMMA ScreenMoves ==
    ASSUME Types, RunInv, ScreenInv, Next
    PROVE  Sits \/ Opens \/ Swaps \/ Closes \/ BeginsOn \/ Tells \/ Homes
<1> DEFINE G == Sits \/ Opens \/ Swaps \/ Closes \/ BeginsOn \/ Tells \/ Homes
<1>s. stack \in Seq(AllScreens) /\ Chain(stack) /\ session.on \in BOOLEAN /\ mutation \in BOOLEAN
      /\ (mutation <=> Unsettled)
  BY DEF Types, UiTypes, ReviewSessions, ScreenInv, RunInv
<1>e. Elsewhere => op.plan = Nothing
  BY <1>s, CoveredNotElsewhere DEF ScreenInv
<1>r. session.on <=> Stands(stack, "ReviewPull")  BY DEF ScreenInv
<1>h. /\ Home \o <<>> = <<"Dashboard">> /\ Home \o <<"FirstWin">> = <<"Dashboard", "FirstWin">>
      /\ Home \o <<"Preview">> = <<"Dashboard", "Preview">>
  BY HomeIs
<1>n. NoSession.on = FALSE /\ NoOp.plan = Nothing  BY DEF NoSession, NoOp
<1> SUFFICES G  OBVIOUS
<1> HIDE DEF G
<1>1. ASSUME Launch  PROVE G
  <2>1. Elsewhere /\ ~Stands(stack, "ReviewPull")  BY <1>s, <1>1 DEF Launch, Elsewhere, Stands
  <2> QED  BY <1>e, <1>r, <1>h, <2>1, <1>1 DEF Launch, NeedsSetup, Still, Unseen, folder, Home, Homes, G
<1>2. ASSUME Stop  PROVE G
  BY <1>n, <1>2 DEF Stop, Calm, Homes, G
<1>3. ASSUME Worker  PROVE G
  <2>1. GoesOn /\ UNCHANGED ui  BY <1>3, WorkerTyped
  <2> QED  BY <2>1 DEF GoesOn, ui, Sits, G
<1>4. ASSUME Others  PROVE G
  BY <1>4 DEF Others, EditList, EditDict, EditConfig, Edits, ui, Sits, G
<1>5. ASSUME OperationEnds  PROVE G
  BY <1>5 DEF OperationEnds, Types, OpTypes, Ops, Sits, G
<1>6. ASSUME NEW i \in Slot, LoadReads(i)  PROVE G
  BY <1>6 DEF LoadReads, Still, folder, Sits, G, On, ReviewSessions
<1>7. ASSUME NEW i \in Slot, LoadSets(i)  PROVE G
  BY <1>7 DEF LoadSets, Still, folder, Sits, G, On, ReviewSessions
<1>8. ASSUME NEW i \in Slot, LoadArrives(i)  PROVE G
  BY <1>8 DEF LoadArrives, Still, folder, Sits, G, On, ReviewSessions
<1>9. ASSUME NEW i \in Slot, LoadFails(i)  PROVE G
  BY <1>9 DEF LoadFails, Still, folder, Sits, G, On, ReviewSessions
<1>10. ASSUME CloseBusy  PROVE G
  BY <1>s, <1>10 DEF CloseBusy, Still, folder, Closes, G, AllScreens
<1>11. ASSUME DismissReview  PROVE G
  <2>1. On("Operation") /\ op' = NoOp /\ "Operation" \notin Roots /\ Len(stack) > 1
    BY <1>s, <1>11, OnTop DEF DismissReview, Roots
  <2>2. CASE Under("ReviewPull")
    <3>1. PICK y \in {"ReviewPullComplete", "SessionReport"} : stack' = Append(Closed, y)
      BY <1>11, <2>2 DEF DismissReview, Under
    <3>2. session'.on = session.on  BY <1>11 DEF DismissReview, Reports, Record, ReviewSessions, Types, UiTypes
    <3>3. SwapsOn("Operation", y) /\ Upon(stack[Len(stack) - 1], y)
      BY <2>1, <2>2, <3>1, <3>2, <1>s DEF SwapsOn, Upon, Under
    <3>4. Fits(y)  BY <1>s, <2>1, <2>2, ReviewFits DEF Under
    <3> QED  BY <2>1, <3>3, <3>4 DEF Swaps, G, AllScreens
  <2>3. CASE Under("ReviewPush")
    <3>1. stack' = Append(Closed, "SessionReport")
      BY <1>11, <2>3 DEF DismissReview, Under
    <3>2. session'.on = session.on  BY <1>11 DEF DismissReview, Reports, Record, ReviewSessions, Types, UiTypes
    <3>3. SwapsOn("Operation", "SessionReport") /\ Upon(stack[Len(stack) - 1], "SessionReport")
      BY <2>1, <2>3, <3>1, <3>2, <1>s DEF SwapsOn, Upon, Under
    <3>4. Fits("SessionReport")  BY <1>s, <2>1, <2>3, ReviewFits DEF Under
    <3> QED  BY <2>1, <3>3, <3>4 DEF Swaps, G, AllScreens
  <2> QED  BY <1>11, <2>2, <2>3 DEF DismissReview
<1>12. ASSUME Dismiss  PROVE G
  <2>1. On("Operation") /\ stack' = Opened("Report") /\ op'.plan = Nothing
        /\ session' = session /\ (offer' => op.kind = "pull")
    BY <1>12 DEF Dismiss, Reported, NoOp
  <2>2. ~Stands(stack, "ReviewPull")
    <3>1. Len(stack) > 1 /\ Upon(stack[Len(stack) - 1], "Operation")  BY <1>s, <2>1, OnTop
    <3>2. stack[Len(stack) - 1] \notin {"ReviewPull", "ReviewPush"}  BY <1>12, <3>1 DEF Dismiss, Under
    <3> QED  BY <1>s, <2>1, <3>1, <3>2, UnderOf DEF Upon, ScreensOf, Roots
  <2>3. Fits("Report")  BY <2>2 DEF Fits, Roots, ScreensOf
  <2> QED  BY <2>1, <2>3 DEF Tells, G
<1>13. ASSUME OpenPull  PROVE G
  <2>1. OpensOn("Dashboard", "Pull")  BY <1>13 DEF OpensOn, OpenPull, Enter, Entered, Unmoved, Still, Steady, folder
  <2>2. Over("Dashboard", "Pull")  BY DEF Over, Upon, Roots, ScreensOf
  <2>3. Upon("Dashboard", "Pull") /\ Fits("Pull")  BY <1>s, <2>1, <2>2, FitsOn DEF OpensOn
  <2> QED  BY <2>1, <2>3 DEF G, Opens, AllScreens
<1>14. ASSUME OpenPreview  PROVE G
  <2>1. OpensOn("Dashboard", "Preview")  BY <1>14 DEF OpensOn, OpenPreview, Enter, Entered, Still, folder
  <2>2. Over("Dashboard", "Preview")  BY DEF Over, Upon, Roots, ScreensOf
  <2>3. Upon("Dashboard", "Preview") /\ Fits("Preview")  BY <1>s, <2>1, <2>2, FitsOn DEF OpensOn
  <2> QED  BY <2>1, <2>3 DEF G, Opens, AllScreens
<1>15. ASSUME RefreshPull  PROVE G
  BY <1>15 DEF RefreshPull, Still, folder, Sits, G, On, ReviewSessions
<1>16. ASSUME RefreshPreview  PROVE G
  BY <1>16 DEF RefreshPreview, Still, folder, Sits, G, On, ReviewSessions
<1>17. ASSUME RunPull  PROVE G
  <2>1. On("Pull") /\ Begins("pull", pull.shown) /\ UNCHANGED session
    BY <1>17 DEF RunPull, StartPull, OnlyBegins
  <2>2. pull.shown \in PlansOf("pull") /\ "pull" \in Kinds
    BY <1>17 DEF RunPull, Collectable, Collecting, Types, UiTypes, Pulls, Pushes, PlansOf, Kinds
  <2>3. Upon("Pull", "Operation") /\ "Pull" \in AllScreens  BY DEF Upon, AllScreens
  <2>4. Suits("pull")  BY <1>s, <2>1, OnTop DEF Suits, Roots, ScreensOf
  <2> QED  BY <2>1, <2>2, <2>3, <2>4 DEF Runs, BeginsOn, G
<1>18. ASSUME RunPush  PROVE G
  <2>1. On("Preview") /\ Begins("push", push.shown) /\ UNCHANGED session
    BY <1>18 DEF RunPush, StartPush, OnlyBegins
  <2>2. push.shown \in PlansOf("push") /\ "push" \in Kinds
    BY <1>18 DEF RunPush, ReviewUpdatable, Updatable, Types, UiTypes, Pulls, Pushes, PlansOf, Kinds
  <2>3. Upon("Preview", "Operation") /\ "Preview" \in AllScreens  BY DEF Upon, AllScreens
  <2>4. Suits("push")  BY <1>s, <2>1, OnTop DEF Suits, Roots, ScreensOf
  <2> QED  BY <2>1, <2>2, <2>3, <2>4 DEF Runs, BeginsOn, G
<1>19. ASSUME ClosePull  PROVE G
  BY <1>s, <1>19 DEF ClosePull, Still, folder, Closes, G, AllScreens
<1>20. ASSUME ClosePreview  PROVE G
  BY <1>s, <1>20 DEF ClosePreview, Still, folder, Closes, G, AllScreens
<1>21. ASSUME PullNext  PROVE G
  <2>1. On("Pull")  BY <1>21 DEF PullNext
  <2>2. ~session.on  BY <1>s, <1>r, <2>1, OnTop DEF Roots, ScreensOf
  <2>3. CASE DetourFromPull
    <3>1. OpensOn("Pull", "AddWords")  BY <1>21, <2>3 DEF PullNext, DetourFromPull, Still, folder, OpensOn
    <3>2. Over("Pull", "AddWords")  BY DEF Over, Upon, Roots, ScreensOf
    <3>3. Upon("Pull", "AddWords") /\ Fits("AddWords")  BY <1>s, <2>1, <3>2, FitsOn
    <3> QED  BY <3>1, <3>3 DEF G, Opens, AllScreens
  <2>4. CASE Continue(stack)
    <3>1. OpensOn("Pull", "Preview")
      BY <1>21, <2>1, <2>2, <2>4 DEF PullNext, Continue, Record, Still, folder, OpensOn, Opened, ReviewSessions, Types, UiTypes
    <3>2. Over("Pull", "Preview")  BY DEF Over, Upon, Roots, ScreensOf
    <3>3. Upon("Pull", "Preview") /\ Fits("Preview")  BY <1>s, <2>1, <3>2, FitsOn
    <3> QED  BY <3>1, <3>3 DEF G, Opens, AllScreens
  <2> QED  BY <1>21, <2>3, <2>4 DEF PullNext, LeaveCollect
<1>22. ASSUME ResumePull  PROVE G
  BY <1>22 DEF ResumePull, Still, folder, Sits, G, On, ReviewSessions
<1>23. ASSUME OpenAddWords  PROVE G
  <2>1. CASE On("Dashboard")
    <3>1. OpensOn("Dashboard", "AddWords")  BY <1>23, <2>1 DEF OpensOn, OpenAddWords, Enter, Entered, Still, On, folder
    <3>2. Over("Dashboard", "AddWords")  BY DEF Over, Upon, Roots, ScreensOf
    <3>3. Upon("Dashboard", "AddWords") /\ Fits("AddWords")  BY <1>s, <3>1, <3>2, FitsOn DEF OpensOn
    <3> QED  BY <3>1, <3>3 DEF G, Opens, AllScreens
  <2>2. CASE On("FirstWin")
    <3>1. OpensOn("FirstWin", "AddWords")  BY <1>23, <2>2 DEF OpensOn, OpenAddWords, Enter, Entered, Still, On, folder
    <3>2. Over("FirstWin", "AddWords")  BY DEF Over, Upon, Roots, ScreensOf
    <3>3. Upon("FirstWin", "AddWords") /\ Fits("AddWords")  BY <1>s, <3>1, <3>2, FitsOn DEF OpensOn
    <3> QED  BY <3>1, <3>3 DEF G, Opens, AllScreens
  <2> QED  BY <1>23, <2>1, <2>2 DEF OpenAddWords, Enter, Entered
<1>24. ASSUME NEW w \in Word, SaveWord(w)  PROVE G
  BY <1>24 DEF SaveWord, folder, Sits, G, On, ReviewSessions
<1>25. ASSUME CloseAddWords  PROVE G
  <2>1. stack' = Closed /\ UNCHANGED <<op, session>> /\ offer' = FALSE  BY <1>25 DEF CloseAddWords, Still, folder
  <2>2. CASE On("AddWords")  BY <1>s, <2>1, <2>2 DEF Closes, G, AllScreens
  <2>3. CASE On("FirstWin")  BY <1>s, <2>1, <2>3 DEF Closes, G, AllScreens
  <2> QED  BY <1>25, <2>2, <2>3 DEF CloseAddWords
<1>26. ASSUME AddWordsNext  PROVE G
  <2>1. On("AddWords") /\ Len(stack) > 1 /\ Upon(stack[Len(stack) - 1], "AddWords")
    BY <1>s, <1>26, OnTop DEF AddWordsNext
  <2>2. CASE session.on
    <3>1. SwapsOn("AddWords", "ReviewPush")  BY <1>26, <2>2 DEF AddWordsNext, Continue, Still, Record, SwapsOn, folder, ReviewSessions, Types, UiTypes
    <3>2. stack[Len(stack) - 1] \in ScreensOf("ReviewPull")  BY <1>s, <1>r, <2>1, <2>2, UnderOf DEF Roots
    <3>3. Upon(stack[Len(stack) - 1], "ReviewPush")  BY <2>1, <3>2 DEF Upon, ScreensOf
    <3>4. Fits("ReviewPush")  BY <1>s, <1>r, <2>2, RootsApart DEF Fits, Roots, ScreensOf
    <3> QED  BY <2>1, <3>1, <3>3, <3>4 DEF Swaps, G, AllScreens, Roots
  <2>3. CASE ~session.on
    <3>0. stack' = Append(Closed, "Preview") /\ UNCHANGED <<session, op>>  BY <1>26, <2>3 DEF AddWordsNext, Continue, Still, Record, folder
    <3>1. SwapsOn("AddWords", "Preview")  BY <1>s, <2>1, <2>3, <3>0 DEF SwapsOn
    <3>2. ~Stands(stack, "Settings") /\ ~Stands(stack, "SetupWelcome")  BY <1>s, <2>1, OnTop DEF Roots, ScreensOf
    <3>3. Upon(stack[Len(stack) - 1], "Preview") /\ Fits("Preview")
      <4>1. stack[Len(stack) - 1] # "ReviewPull"
        BY <1>s, <1>r, <2>1, <2>3 DEF Stands
      <4> QED  BY <1>r, <2>1, <2>3, <3>2, <4>1 DEF Upon, Fits, Roots
    <3> QED  BY <2>1, <3>1, <3>3 DEF Swaps, G, AllScreens, Roots
  <2> QED  BY <1>s, <2>2, <2>3
<1>27. ASSUME RefreshDashboard  PROVE G
  BY <1>27 DEF RefreshDashboard, Still, folder, Sits, G, On, ReviewSessions
<1>28. ASSUME OpenReview  PROVE G
  <2>1. CASE On("Dashboard")
    <3>1. OpensOn("Dashboard", "ReviewStart")  BY <1>28, <2>1 DEF OpensOn, OpenReview, Enter, Entered, Unmoved, Still, Steady, On, folder
    <3>2. Over("Dashboard", "ReviewStart")  BY DEF Over, Upon, Roots, ScreensOf
    <3>3. Upon("Dashboard", "ReviewStart") /\ Fits("ReviewStart")  BY <1>s, <3>1, <3>2, FitsOn DEF OpensOn
    <3> QED  BY <3>1, <3>3 DEF G, Opens, AllScreens
  <2>2. CASE On("FirstWin")
    <3>1. OpensOn("FirstWin", "ReviewStart")  BY <1>28, <2>2 DEF OpensOn, OpenReview, Enter, Entered, Unmoved, Still, Steady, On, folder
    <3>2. Over("FirstWin", "ReviewStart")  BY DEF Over, Upon, Roots, ScreensOf
    <3>3. Upon("FirstWin", "ReviewStart") /\ Fits("ReviewStart")  BY <1>s, <3>1, <3>2, FitsOn DEF OpensOn
    <3> QED  BY <3>1, <3>3 DEF G, Opens, AllScreens
  <2> QED  BY <1>28, <2>1, <2>2 DEF OpenReview, Enter, Entered
<1>29. ASSUME StartReview  PROVE G
  <2>1. On("ReviewStart") /\ stack' = Append(Closed, "ReviewPull") /\ session'.on = TRUE /\ op' = op
    BY <1>29 DEF StartReview, Unmoved, Still, Steady, folder, NoSession
  <2>2. Len(stack) > 1 /\ Upon(stack[Len(stack) - 1], "ReviewStart") /\ \A root \in Roots : ~Stands(stack, root)
    BY <1>s, <2>1, OnTop DEF Roots, ScreensOf
  <2>3. Upon(stack[Len(stack) - 1], "ReviewPull") /\ Fits("ReviewPull")  BY <2>2 DEF Upon, Fits
  <2> QED  BY <2>1, <2>2, <2>3 DEF SwapsOn, Swaps, G, AllScreens, Roots
<1>30. ASSUME LeaveReview  PROVE G
  <2>1. CASE On("ReviewStart")
    <3>1. session.on = FALSE  BY <1>s, <1>r, <2>1, OnTop DEF Roots, ScreensOf
    <3> QED  BY <1>n, <1>30, <2>1, <3>1 DEF LeaveReview, Unmoved, Still, Steady, folder, Closes, G, AllScreens
  <2>2. CASE On("ReviewPull")
    BY <1>n, <1>30, <2>2 DEF LeaveReview, Unmoved, Still, Steady, folder, Closes, G, AllScreens
  <2> QED  BY <1>30, <2>1, <2>2 DEF LeaveReview
<1>31. ASSUME ReviewRunPull  PROVE G
  <2>1. On("ReviewPull") /\ Begins("pull", pull.shown) /\ UNCHANGED session
    BY <1>31 DEF ReviewRunPull, StartPull, OnlyBegins
  <2>2. pull.shown \in PlansOf("pull") /\ "pull" \in Kinds
    BY <1>31 DEF ReviewRunPull, Collectable, Collecting, Types, UiTypes, Pulls, Pushes, PlansOf, Kinds
  <2>3. Upon("ReviewPull", "Operation") /\ "ReviewPull" \in AllScreens  BY DEF Upon, AllScreens
  <2>4. Suits("pull")  BY <1>s, <2>1, OnTop DEF Suits, Roots, ScreensOf
  <2> QED  BY <2>1, <2>2, <2>3, <2>4 DEF Runs, BeginsOn, G
<1>32. ASSUME SkipCollect  PROVE G
  <2>1. On("ReviewPull")  BY <1>32 DEF SkipCollect
  <2>2. session.on  BY <1>s, <1>r, <2>1, OnTop DEF Stands
  <2>3. CASE DetourFromPull
    <3>1. OpensOn("ReviewPull", "AddWords")  BY <1>32, <2>3 DEF SkipCollect, DetourFromPull, Still, folder, OpensOn
    <3>2. Over("ReviewPull", "AddWords")  BY DEF Over, Upon, Roots, ScreensOf
    <3>3. Upon("ReviewPull", "AddWords") /\ Fits("AddWords")  BY <1>s, <2>1, <3>2, FitsOn
    <3> QED  BY <3>1, <3>3 DEF G, Opens, AllScreens
  <2>4. CASE Continue(stack)
    <3>1. OpensOn("ReviewPull", "ReviewPush")
      BY <1>32, <2>1, <2>2, <2>4 DEF SkipCollect, Continue, Record, Still, folder, OpensOn, Opened, ReviewSessions, Types, UiTypes
    <3>2. Over("ReviewPull", "ReviewPush")  BY DEF Over, Upon, Roots, ScreensOf
    <3>3. Upon("ReviewPull", "ReviewPush") /\ Fits("ReviewPush")  BY <1>s, <2>1, <3>2, FitsOn
    <3> QED  BY <3>1, <3>3 DEF G, Opens, AllScreens
  <2> QED  BY <1>32, <2>3, <2>4 DEF SkipCollect, LeaveCollect
<1>33. ASSUME ReviewUpdate  PROVE G
  <2>1. OpensOn("ReviewPullComplete", "ReviewPush")  BY <1>33 DEF OpensOn, ReviewUpdate, Still, folder
  <2>2. Over("ReviewPullComplete", "ReviewPush")  BY DEF Over, Upon, Roots, ScreensOf
  <2>3. Upon("ReviewPullComplete", "ReviewPush") /\ Fits("ReviewPush")  BY <1>s, <2>1, <2>2, FitsOn DEF OpensOn
  <2> QED  BY <2>1, <2>3 DEF G, Opens, AllScreens
<1>34. ASSUME ReviewRunPush  PROVE G
  <2>1. On("ReviewPush") /\ Begins("push", push.shown) /\ UNCHANGED session
    BY <1>34 DEF ReviewRunPush, ReviewUpdatable, StartPush, OnlyBegins
  <2>2. push.shown \in PlansOf("push") /\ "push" \in Kinds
    BY <1>34 DEF ReviewRunPush, ReviewUpdatable, Updatable, Types, UiTypes, Pulls, Pushes, PlansOf, Kinds
  <2>3. Upon("ReviewPush", "Operation") /\ "ReviewPush" \in AllScreens  BY DEF Upon, AllScreens
  <2>4. Suits("push")  BY <1>s, <2>1, OnTop DEF Suits, Roots, ScreensOf
  <2> QED  BY <2>1, <2>2, <2>3, <2>4 DEF Runs, BeginsOn, G
<1>35. ASSUME CloseReviewPush  PROVE G
  BY <1>s, <1>35 DEF CloseReviewPush, Still, folder, Closes, G, AllScreens
<1>36. ASSUME FinishReview  PROVE G
  <2>1. OpensOn("ReviewPush", "SessionReport")  BY <1>36 DEF OpensOn, FinishReview, CanFinish, Reports, Record, Unmoved, Still, Steady, folder
  <2>2. Over("ReviewPush", "SessionReport")  BY DEF Over, Upon, Roots, ScreensOf
  <2>3. Upon("ReviewPush", "SessionReport") /\ Fits("SessionReport")  BY <1>s, <2>1, <2>2, FitsOn DEF OpensOn
  <2> QED  BY <2>1, <2>3 DEF G, Opens, AllScreens
<1>37. ASSUME EndReview  PROVE G
  <2>1. Elsewhere  BY <1>37 DEF EndReview, On, Elsewhere
  <2> QED  BY <1>e, <1>h, <1>n, <1>37, <2>1 DEF EndReview, Homewards, Still, folder, Homes, G
<1>38. ASSUME ReportHome  PROVE G
  <2>1. session.on = FALSE
    BY <1>s, <1>r, <1>38, OnTop DEF ReportHome, RebuildOffered, Roots, ScreensOf
  <2> QED  BY <1>h, <1>n, <1>38, <2>1 DEF ReportHome, LeaveReport, Homewards, Homes, G
<1>39. ASSUME ReportNext  PROVE G
  <2>1. On("Report") /\ offer /\ ~session.on
    BY <1>s, <1>r, <1>39, OnTop DEF ReportNext, Roots, ScreensOf
  <2>2. OpensOn("Report", "Preview")  BY <1>39, <2>1 DEF ReportNext, Continue, Still, Record, OpensOn, Opened, folder
  <2>3. Fits("Preview")  BY <1>r, <2>1 DEF ScreenInv, Fits, Roots
  <2> QED  BY <2>2, <2>3 DEF Opens, Upon, G, AllScreens
<1>40. ASSUME ReportRebuild  PROVE G
  <2>1. session.on = FALSE
    BY <1>s, <1>r, <1>40, OnTop DEF ReportRebuild, RebuildOffered, Roots, ScreensOf
  <2> QED  BY <1>h, <1>n, <1>40, <2>1 DEF ReportRebuild, LeaveReport, Homewards, Homes, G
<1>41. ASSUME InspectRecovery  PROVE G
  <2>1. CASE On("Dashboard") /\ stack' = Opened("Recovery")
    <3>1. OpensOn("Dashboard", "Recovery")  BY <1>41, <2>1 DEF OpensOn, InspectRecovery, Still, folder
    <3>2. Over("Dashboard", "Recovery")  BY DEF Over, Upon, Roots, ScreensOf
    <3>3. Upon("Dashboard", "Recovery") /\ Fits("Recovery")  BY <1>s, <3>1, <3>2, FitsOn DEF OpensOn
    <3> QED  BY <3>1, <3>3 DEF G, Opens, AllScreens
  <2>2. CASE UNCHANGED stack
    BY <1>41, <2>2 DEF InspectRecovery, Still, folder, Sits, G
  <2> QED  BY <1>41, <2>1, <2>2 DEF InspectRecovery
<1>42. ASSUME RunRecovery  PROVE G
  <2>1. PICK kind \in {"recover", "discard"} : On("Recovery") /\ rec # Nothing /\ Begins(kind, rec) /\ UNCHANGED session
    BY <1>42 DEF RunRecovery, Pressed, Offered, StartRecovery, OnlyBegins
  <2>2. rec \in PlansOf(kind) /\ kind \in Kinds  BY <2>1 DEF Types, UiTypes, PlansOf, Kinds
  <2>3. Upon("Recovery", "Operation") /\ "Recovery" \in AllScreens  BY DEF Upon, AllScreens
  <2>4. Suits(kind)  BY <1>s, <2>1, OnTop DEF Suits, Roots, ScreensOf
  <2> QED  BY <2>1, <2>2, <2>3, <2>4 DEF Runs, BeginsOn, G
<1>43. ASSUME CloseRecovery  PROVE G
  BY <1>s, <1>43 DEF CloseRecovery, Still, folder, Closes, G, AllScreens
<1>44. ASSUME SetupScreens  PROVE G
  <2>0. UNCHANGED <<op, session, offer>>  BY <1>44 DEF SetupScreens, Unseen, folder
  <2>1. CASE BeginSetup
    <3>1. OpensOn("SetupWelcome", "SetupWordlist")  BY <2>0, <2>1 DEF OpensOn, BeginSetup
    <3>2. Over("SetupWelcome", "SetupWordlist")  BY DEF Over, Upon, Roots, ScreensOf
    <3>3. Upon("SetupWelcome", "SetupWordlist") /\ Fits("SetupWordlist")  BY <1>s, <3>1, <3>2, FitsOn DEF OpensOn
    <3> QED  BY <3>1, <3>3 DEF G, Opens, AllScreens
  <2>2. CASE ChooseFolder
    <3>1. OpensOn("SetupWordlist", "SetupTargets")  BY <2>0, <2>2 DEF OpensOn, ChooseFolder
    <3>2. Over("SetupWordlist", "SetupTargets")  BY DEF Over, Upon, Roots, ScreensOf
    <3>3. Upon("SetupWordlist", "SetupTargets") /\ Fits("SetupTargets")  BY <1>s, <3>1, <3>2, FitsOn DEF OpensOn
    <3> QED  BY <3>1, <3>3 DEF G, Opens, AllScreens
  <2>3. CASE ReviewSetup
    <3>1. OpensOn("SetupTargets", "SetupPreview")  BY <2>0, <2>3 DEF OpensOn, ReviewSetup
    <3>2. Over("SetupTargets", "SetupPreview")  BY DEF Over, Upon, Roots, ScreensOf
    <3>3. Upon("SetupTargets", "SetupPreview") /\ Fits("SetupPreview")  BY <1>s, <3>1, <3>2, FitsOn DEF OpensOn
    <3> QED  BY <3>1, <3>3 DEF G, Opens, AllScreens
  <2>4. CASE ChooseApps  BY <2>0, <2>4 DEF ChooseApps, Sits, G
  <2>5. CASE BackInSetup  BY <1>s, <2>0, <2>5 DEF BackInSetup, Closes, G, AllScreens
  <2> QED  BY <1>44, <2>1, <2>2, <2>3, <2>4, <2>5 DEF SetupScreens
<1>45. ASSUME CreateProject  PROVE G
  <2>1. CASE On("SetupPreview") /\ CanCreate /\ MayStart /\ Begins("setup", setup.plan)
    <3>1. setup.plan \in PlansOf("setup")  BY <2>1 DEF CanCreate, Types, Setups, PlansOf
    <3>2. Stands(stack, "SetupWelcome")  BY <1>s, <2>1, SetupOnly DEF ScreensOf
    <3>3. Upon("SetupPreview", "Operation") /\ "SetupPreview" \in AllScreens  BY DEF Upon, AllScreens
    <3> QED  BY <1>45, <2>1, <3>1, <3>2, <3>3 DEF CreateProject, Suits, Runs, BeginsOn, G, Kinds
  <2>2. CASE On("Operation") /\ At("setup", "create") /\ Begins("setup", op.plan)
    <3>1. Unsettled /\ op.plan \in PlansOf("setup") /\ op.kind = "setup"
      BY <2>2 DEF At, Unsettled, Types, OpTypes
    <3>2. op.plan # Nothing  BY <2>2 DEF ScreenInv
    <3>3. Stands(stack, "SetupWelcome")  BY <3>1, <3>2 DEF ScreenInv
    <3> QED  BY <1>s, <1>45, <2>2, <3>1, <3>3 DEF CreateProject, Suits, Runs, BeginsOn, G, Kinds, AllScreens
  <2> QED  BY <1>45, <2>1, <2>2 DEF CreateProject
<1>46. ASSUME OpenExisting  PROVE G
  <2>1. Elsewhere /\ session.on = FALSE
    BY <1>s, <1>r, <1>46, OnTop DEF OpenExisting, On, Elsewhere, Roots, ScreensOf
  <2> QED  BY <1>e, <1>h, <1>46, <2>1 DEF OpenExisting, Homewards, folder, Homes, G
<1>47. ASSUME SettingsScreens  PROVE G
  <2>0. UNCHANGED <<op, session, offer>>  BY <1>47 DEF SettingsScreens, Unseen, folder
  <2>1. CASE OpenApplications
    <3>1. OpensOn("Dashboard", "Settings")  BY <2>0, <2>1 DEF OpensOn, OpenApplications
    <3>2. Over("Dashboard", "Settings")  BY DEF Over, Upon, Roots, ScreensOf
    <3>3. Upon("Dashboard", "Settings") /\ Fits("Settings")  BY <1>s, <3>1, <3>2, FitsOn DEF OpensOn
    <3> QED  BY <3>1, <3>3 DEF G, Opens, AllScreens
  <2>2. CASE ReviewApplications
    <3>1. OpensOn("Settings", "SettingsReview")  BY <2>0, <2>2 DEF OpensOn, ReviewApplications
    <3>2. Over("Settings", "SettingsReview")  BY DEF Over, Upon, Roots, ScreensOf
    <3>3. Upon("Settings", "SettingsReview") /\ Fits("SettingsReview")  BY <1>s, <3>1, <3>2, FitsOn DEF OpensOn
    <3> QED  BY <3>1, <3>3 DEF G, Opens, AllScreens
  <2>3. CASE ChooseApplications \/ (HashConfig /\ UNCHANGED stack)
    BY <2>0, <2>3 DEF ChooseApplications, Sits, G
  <2>4. CASE BackInApplications  BY <1>s, <2>0, <2>4 DEF BackInApplications, Closes, G, AllScreens
  <2> QED  BY <1>47, <2>1, <2>2, <2>3, <2>4 DEF SettingsScreens
<1>48. ASSUME SaveSettings  PROVE G
  <2>1. On("SettingsReview") /\ Begins("targets", settings.plan) /\ UNCHANGED session
    BY <1>48 DEF SaveSettings
  <2>2. settings.plan \in PlansOf("targets")
    BY <1>48 DEF SaveSettings, CanSave, Reviewed, Types, AllSettings, PlansOf
  <2>3. Upon("SettingsReview", "Operation") /\ "SettingsReview" \in AllScreens  BY DEF Upon, AllScreens
  <2>4. Stands(stack, "Settings")
    <3>1. Len(stack) > 1 /\ Upon(stack[Len(stack) - 1], "SettingsReview")  BY <1>s, <2>1, OnTop
    <3>2. stack[Len(stack) - 1] = "Settings"  BY <3>1 DEF Upon
    <3> QED  BY <1>s, <3>1, <3>2 DEF Stands
  <2> QED  BY <2>1, <2>2, <2>3, <2>4 DEF Suits, Runs, BeginsOn, G, Kinds
<1> QED
  BY <1>1, <1>2, <1>3, <1>4, <1>5, <1>6, <1>7, <1>8, <1>9, <1>10, <1>11, <1>12, <1>13, <1>14,
     <1>15, <1>16, <1>17, <1>18, <1>19, <1>20, <1>21, <1>22, <1>23, <1>24, <1>25, <1>26, <1>27, <1>28,
     <1>29, <1>30, <1>31, <1>32, <1>33, <1>34, <1>35, <1>36, <1>37, <1>38, <1>39, <1>40, <1>41, <1>42,
     <1>43, <1>44, <1>45, <1>46, <1>47, <1>48
     DEF Next, User, LoadStep

(* The roots under a screen that is opened, and under what is left of closed ones. *)
LEMMA LaidStands ==
    ASSUME NEW s \in Seq(AllScreens), NEW t \in Seq(AllScreens), NEW n \in 0 .. Len(s), NEW root,
           Len(t) = n + 1, \A i \in 1 .. n : t[i] = s[i],
           n = Len(s) \/ (n = Len(s) - 1 /\ s[Len(s)] # root)
    PROVE  Stands(t, root) <=> Stands(s, root) \/ t[n + 1] = root
<1>0. n \in Nat /\ Len(s) \in Nat  OBVIOUS
<1>1. ASSUME NEW k \in 1 .. Len(t), t[k] = root  PROVE Stands(s, root) \/ t[n + 1] = root
  <2>1. CASE k = n + 1  BY <1>1, <2>1
  <2>2. CASE k # n + 1
    <3>1. k \in 1 .. n /\ k \in 1 .. Len(s)  BY <1>0, <2>2
    <3> QED  BY <1>1, <3>1 DEF Stands
  <2> QED  BY <2>1, <2>2
<1>2. ASSUME NEW k \in 1 .. Len(s), s[k] = root  PROVE Stands(t, root)
  <2>1. k \in 1 .. n /\ k \in 1 .. Len(t)  BY <1>0, <1>2
  <2> QED  BY <1>2, <2>1 DEF Stands
<1>3. ASSUME t[n + 1] = root  PROVE Stands(t, root)
  <2>1. n + 1 \in 1 .. Len(t)  BY <1>0
  <2> QED  BY <1>3, <2>1 DEF Stands
<1> QED  BY <1>1, <1>2, <1>3 DEF Stands

(* Closing the screen on top takes no other root away.                           *)
LEMMA CutStands ==
    ASSUME NEW s \in Seq(AllScreens), NEW t \in Seq(AllScreens), NEW root, s # <<>>,
           Len(t) = Len(s) - 1, \A i \in 1 .. Len(t) : t[i] = s[i]
    PROVE  /\ Stands(t, root) => Stands(s, root)
           /\ s[Len(s)] # root => (Stands(s, root) <=> Stands(t, root))
<1>0. Len(t) \in Nat /\ Len(s) \in Nat \ {0}  OBVIOUS
<1>1. ASSUME NEW k \in 1 .. Len(t), t[k] = root  PROVE Stands(s, root)
  <2>1. k \in 1 .. Len(s)  BY <1>0
  <2> QED  BY <1>1, <2>1 DEF Stands
<1>2. ASSUME s[Len(s)] # root, NEW k \in 1 .. Len(s), s[k] = root  PROVE Stands(t, root)
  <2>1. k \in 1 .. Len(t)  BY <1>0, <1>2
  <2> QED  BY <1>2, <2>1 DEF Stands
<1> QED  BY <1>1, <1>2 DEF Stands

(* The stacks that are begun with.                                              *)
LEMMA HomeChain ==
    ASSUME NEW s \in {<<>>, <<"SetupWelcome">>, <<"Dashboard">>, <<"Dashboard", "FirstWin">>,
                      <<"Dashboard", "Preview">>}
    PROVE  /\ Chain(s) /\ ~Stands(s, "ReviewPull")
           /\ s # <<>> => s[Len(s)] \notin {"Operation", "Busy", "Report"}
<1>1. CASE s = <<>>  BY <1>1 DEF Chain, Apart, Stands
<1>2. CASE s = <<"SetupWelcome">>
  BY <1>2 DEF Chain, Apart, Stands, Upon, Roots, ScreensOf
<1>3. CASE s = <<"Dashboard">>
  BY <1>3 DEF Chain, Apart, Stands, Upon, Roots, ScreensOf
<1>4. CASE s = <<"Dashboard", "FirstWin">> \/ s = <<"Dashboard", "Preview">>
  <2>1. /\ s \in Seq(AllScreens) /\ Len(s) = 2 /\ s[1] = "Dashboard" /\ s[2] \in {"FirstWin", "Preview"}
        /\ \A k \in 1 .. 2 : k = 1 \/ k = 2
    <3>1. CASE s = <<"Dashboard", "FirstWin">>  BY <3>1 DEF AllScreens
    <3>2. CASE s = <<"Dashboard", "Preview">>  BY <3>2 DEF AllScreens
    <3> QED  BY <1>4, <3>1, <3>2
  <2>2. \A k \in 1 .. Len(s) : s[k] \notin Roots  BY <2>1 DEF Roots
  <2>3. \A k \in 1 .. Len(s) - 1 : Upon(s[k], s[k + 1])
    <3> SUFFICES ASSUME NEW k \in 1 .. Len(s) - 1  PROVE Upon(s[k], s[k + 1])
      OBVIOUS
    <3>1. k = 1  BY <2>1
    <3> QED  BY <2>1, <3>1 DEF Upon
  <2> QED  BY <2>1, <2>2, <2>3 DEF Chain, Apart, Stands, Roots
<1> QED  BY <1>1, <1>2, <1>3, <1>4

(* No plan is none.                                                             *)
LEMMA PlanIsThere ==
    ASSUME NEW kind \in Kinds, NEW plan \in PlansOf(kind)  PROVE plan # Nothing
<1>1. DOMAIN Nothing = {"none"}  BY DEF Nothing
<1>2. ASSUME plan \in Snapshots  PROVE plan # Nothing
  <2>1. "list" \in DOMAIN plan  BY <1>2 DEF Snapshots
  <2> QED  BY <1>1, <2>1
<1>3. ASSUME plan \in Previews  PROVE plan # Nothing
  <2>1. "journal" \in DOMAIN plan  BY <1>3 DEF Previews
  <2> QED  BY <1>1, <2>1
<1>4. ASSUME plan \in SetupPlans  PROVE plan # Nothing
  <2>1. "create" \in DOMAIN plan  BY <1>4 DEF SetupPlans
  <2> QED  BY <1>1, <2>1
<1>5. ASSUME plan \in SavePlans  PROVE plan # Nothing
  <2>1. "read" \in DOMAIN plan  BY <1>5 DEF SavePlans
  <2> QED  BY <1>1, <2>1
<1> QED  BY <1>2, <1>3, <1>4, <1>5 DEF Kinds, PlansOf

(* A screen in place of the one on top.                                         *)
LEMMA InPlace ==
    ASSUME stack \in Seq(AllScreens), stack # <<>>, NEW y \in AllScreens
    PROVE  /\ Append(Closed, y) \in Seq(AllScreens) /\ Len(Append(Closed, y)) = Len(stack)
           /\ Append(Closed, y)[Len(stack)] = y
           /\ \A i \in 1 .. Len(stack) - 1 : Append(Closed, y)[i] = stack[i]
<1>1. Closed \in Seq(AllScreens) /\ Len(Closed) = Len(stack) - 1
      /\ \A i \in 1 .. Len(stack) - 1 : Closed[i] = stack[i]
  BY StackTyped
<1>2. PICK c \in Seq(AllScreens) : c = Closed  BY <1>1
<1>3. Append(c, y) \in Seq(AllScreens) /\ Len(Append(c, y)) = Len(c) + 1 /\ Append(c, y)[Len(c) + 1] = y
      /\ \A i \in 1 .. Len(c) : Append(c, y)[i] = c[i]
  BY AppendProperties
<1> QED  BY <1>1, <1>2, <1>3

(* The screens stay in their order.                                              *)
LEMMA ScreenStep ==
    ASSUME Types, RunInv, ScreenInv, Next  PROVE ScreenInv'
<1>1. /\ stack \in Seq(AllScreens) /\ stack' \in Seq(AllScreens) /\ Chain(stack)
      /\ Len(stack) \in Nat /\ Len(stack') \in Nat
  BY StackTypesStep DEF Types, UiTypes, ScreenInv
<1>2. session.on \in BOOLEAN /\ mutation \in BOOLEAN /\ (mutation <=> Unsettled)
      /\ (session.on <=> Stands(stack, "ReviewPull"))
  BY DEF Types, UiTypes, ReviewSessions, ScreenInv, RunInv
<1>3. Elsewhere => op.plan = Nothing
  BY <1>1, CoveredNotElsewhere DEF ScreenInv
<1>4. NoOp.plan = Nothing  BY DEF NoOp
<1>5. ASSUME stack' # <<>>, NEW y, stack'[Len(stack')] = y
      PROVE  \A x : On(x)' => x = y
  BY <1>5 DEF On, Last
<1>6. CASE Sits
  <2>1. UNCHANGED stack /\ session'.on = session.on /\ op'.kind = op.kind /\ op'.plan = op.plan
    BY <1>6 DEF Sits
  <2>2. On("Report")' /\ offer' => On("Report") /\ offer  BY <1>6 DEF Sits, On
  <2> QED  BY <2>1, <2>2 DEF ScreenInv, Covered, On
<1>7. CASE Opens
  <2>1. PICK x, y \in AllScreens :
          /\ OpensOn(x, y) /\ Upon(x, y) /\ Fits(y)
          /\ y \notin {"Operation", "Busy", "Report", "ReviewPull", "SetupWelcome"}
    BY <1>7 DEF Opens
  <2>2. On(x) /\ stack' = Opened(y) /\ session'.on = session.on /\ op' = op  BY <2>1 DEF OpensOn
  <2>3. /\ Len(stack') = Len(stack) + 1 /\ stack'[Len(stack) + 1] = y
        /\ \A i \in 1 .. Len(stack) : stack'[i] = stack[i]
    BY <1>1, <2>2, StackTyped
  <2>4. stack # <<>> /\ stack[Len(stack)] = x /\ Last(stack) = x /\ Len(stack) > 0
    BY <1>1, <2>2, OnTop
  <2>5. Chain(stack')  BY <1>1, <2>1, <2>3, <2>4, Laid DEF Fits
  <2>6. Stands(stack', "ReviewPull") <=> Stands(stack, "ReviewPull")
    BY <1>1, <2>1, <2>3, LaidStands
  <2>7. op'.plan = Nothing  BY <1>3, <2>1, <2>2, <2>4 DEF Elsewhere, Upon
  <2>8. \A z : On(z)' => z = y  BY <1>1, <1>5, <2>3
  <2> QED  BY <1>2, <2>1, <2>2, <2>5, <2>6, <2>7, <2>8 DEF ScreenInv
<1>8. CASE Swaps
  <2>1. PICK x, y \in AllScreens :
          /\ SwapsOn(x, y) /\ Len(stack) > 1 /\ Upon(stack[Len(stack) - 1], y) /\ Fits(y)
          /\ x \notin Roots \cup {"Busy"} /\ (x = "Operation" => op' = NoOp)
          /\ y \notin {"Operation", "Busy", "Report", "Settings", "SetupWelcome"}
    BY <1>8 DEF Swaps
  <2>2. /\ On(x) /\ stack' = Append(Closed, y) /\ op' \in {op, NoOp}
        /\ session'.on = IF y = "ReviewPull" THEN TRUE ELSE session.on
    BY <2>1 DEF SwapsOn
  <2>3. stack # <<>> /\ stack[Len(stack)] = x /\ Last(stack) = x  BY <1>1, <2>2, OnTop
  <2>4. /\ Len(stack') = Len(stack) /\ stack'[Len(stack)] = y
        /\ \A i \in 1 .. Len(stack) - 1 : stack'[i] = stack[i]
    BY <1>1, <2>2, <2>3, InPlace
  <2>5. PICK n \in 0 .. Len(stack) : n = Len(stack) - 1 /\ n > 0 /\ n + 1 = Len(stack)  BY <1>1, <2>1
  <2>6. Len(stack') = n + 1 /\ stack'[n + 1] = y /\ \A i \in 1 .. n : stack'[i] = stack[i]
    BY <2>4, <2>5
  <2>7. Chain(stack')  BY <1>1, <2>1, <2>5, <2>6, Laid DEF Fits
  <2>8. Stands(stack', "ReviewPull") <=> Stands(stack, "ReviewPull") \/ y = "ReviewPull"
    BY <1>1, <2>1, <2>3, <2>5, <2>6, LaidStands DEF Roots
  <2>9. op'.plan = Nothing  BY <1>3, <1>4, <2>1, <2>2, <2>3 DEF Elsewhere
  <2>10. \A z : On(z)' => z = y  BY <1>1, <1>5, <2>5, <2>6
  <2>11. session'.on <=> Stands(stack', "ReviewPull")  BY <1>2, <2>2, <2>8
  <2> QED  BY <2>1, <2>7, <2>9, <2>10, <2>11 DEF ScreenInv
<1>9. CASE Closes
  <2>1. PICK x \in AllScreens \ {"Operation", "SetupWelcome", "Dashboard", "Report"} :
          /\ On(x) /\ stack' = Closed /\ UNCHANGED op /\ offer' \in {offer, FALSE}
          /\ session'.on = IF x = "ReviewPull" THEN FALSE ELSE session.on
    BY <1>9 DEF Closes
  <2>2. /\ stack # <<>> /\ stack[Len(stack)] = x /\ Last(stack) = x /\ Len(stack) > 1
        /\ Upon(stack[Len(stack) - 1], x)
        /\ \A root \in Roots : Stands(stack, root) => x \in ScreensOf(root)
    BY <1>1, <2>1, OnTop
  <2>3. Len(stack') = Len(stack) - 1 /\ \A i \in 1 .. Len(stack') : stack'[i] = stack[i]
    BY <1>1, <2>1, <2>2, StackTyped
  <2>4. Chain(stack')  BY <1>1, <2>3, Cut
  <2>5. PICK z : z = stack[Len(stack) - 1] /\ z = stack'[Len(stack')] /\ stack' # <<>>
    <3>1. Len(stack') \in 1 .. Len(stack')  BY <1>1, <2>2, <2>3
    <3> QED  BY <1>1, <2>2, <2>3, <3>1
  <2>6. \A w : On(w)' => w = z  BY <1>5, <2>5
  <2>7. \A root \in Roots : Stands(stack', root) => Stands(stack, root)
    BY <1>1, <2>2, <2>3, CutStands
  <2>8. \A root \in Roots : x # root => (Stands(stack, root) <=> Stands(stack', root))
    BY <1>1, <2>2, <2>3, CutStands
  <2>9. session'.on <=> Stands(stack', "ReviewPull")
    <3>1. CASE x # "ReviewPull"  BY <1>2, <2>1, <2>8, <3>1 DEF Roots
    <3>2. CASE x = "ReviewPull"
      <4>1. SUFFICES ASSUME Stands(stack', "ReviewPull")  PROVE FALSE
        BY <2>1, <3>2
      <4>2. PICK k \in 1 .. Len(stack') : stack'[k] = "ReviewPull"  BY <4>1 DEF Stands
      <4>3. Len(stack') \in k .. Len(stack')  BY <1>1, <4>2
      <4>4. z \in ScreensOf("ReviewPull")  BY <2>4, <2>5, <4>2, <4>3 DEF Chain, Apart, Roots
      <4> QED  BY <2>2, <2>5, <3>2, <4>4 DEF Upon, ScreensOf
    <3> QED  BY <3>1, <3>2
  <2>10. On("Report")' /\ offer' => ~Stands(stack', "SetupWelcome") /\ ~Stands(stack', "Settings")
    <3>1. CASE z = "Report"
      <4>1. x = "Preview"  BY <2>2, <2>5, <3>1 DEF Upon
      <4> QED  BY <2>2, <2>7, <4>1 DEF Roots, ScreensOf
    <3> QED  BY <2>6, <3>1
  <2>11. CASE x # "Busy"
    <3>1. op'.plan = Nothing  BY <1>3, <2>1, <2>2, <2>11 DEF Elsewhere
    <3>2. z \notin {"Operation", "Busy"}  BY <2>1, <2>2, <2>5, <2>11 DEF Upon
    <3> QED  BY <2>4, <2>6, <2>9, <2>10, <3>1, <3>2 DEF ScreenInv
  <2>12. CASE x = "Busy"
    <3>1. op.plan # Nothing /\ op'.plan = op.plan /\ op'.kind = op.kind  BY <2>1, <2>12 DEF ScreenInv
    <3>2. PICK k \in 1 .. Len(stack) : /\ stack[k] = "Operation"
                                       /\ \A i \in k + 1 .. Len(stack) : stack[i] = "Busy"
      BY <3>1 DEF ScreenInv, Covered
    <3>3. k # Len(stack)  BY <2>2, <2>12, <3>2
    <3>4. k \in 1 .. Len(stack') /\ stack'[k] = "Operation"
          /\ \A i \in k + 1 .. Len(stack') : stack'[i] = "Busy"
      BY <1>1, <2>3, <3>2, <3>3
    <3>5. Covered'  BY <3>4 DEF Covered
    <3> QED  BY <2>4, <2>8, <2>9, <2>10, <2>12, <3>1, <3>5 DEF ScreenInv, Roots
  <2> QED  BY <2>11, <2>12
<1>10. CASE BeginsOn
  <2>1. PICK x \in AllScreens, kind \in Kinds : \E plan \in PlansOf(kind) : Begins(kind, plan) /\ Runs(x, kind)
    BY <1>10 DEF BeginsOn
  <2>2. PICK plan \in PlansOf(kind) : Begins(kind, plan) /\ Runs(x, kind)  BY <2>1
  <2>3. /\ On(x) /\ session'.on = session.on /\ Suits(kind)
        /\ Upon(x, "Operation") \/ (x = "Operation" /\ kind = "setup" /\ mutation)
    BY <2>2 DEF Runs
  <2>4. /\ stack # <<>> /\ stack[Len(stack)] = x /\ Last(stack) = x /\ Len(stack) > 0
        /\ \A root \in Roots : Stands(stack, root) => x \in ScreensOf(root)
    BY <1>1, <2>3, OnTop
  <2>5. CASE mutation
    <3>1. stack' = Opened("Busy") /\ op' = op  BY <2>2, <2>5 DEF Begins
    <3>2. x = "Operation" /\ kind = "setup"
      <4>1. ~Elsewhere  BY <1>1, <1>2, <2>5, CoveredNotElsewhere DEF RunInv
      <4> QED  BY <2>3, <2>4, <4>1 DEF Elsewhere, Upon
    <3>3. op.plan # Nothing  BY <2>3, <3>2 DEF ScreenInv
    <3>4. /\ Len(stack') = Len(stack) + 1 /\ stack'[Len(stack) + 1] = "Busy"
          /\ \A i \in 1 .. Len(stack) : stack'[i] = stack[i]
      BY <1>1, <3>1, StackTyped DEF AllScreens
    <3>5. ~Stands(stack, "ReviewPull") /\ ~Stands(stack, "Settings")
      BY <1>1, <2>3, <3>2, RootsApart DEF Suits, Roots
    <3>6. \A root \in Roots : Stands(stack, root) => "Busy" \in ScreensOf(root)
      BY <3>5 DEF Roots, ScreensOf
    <3>7. Chain(stack')  BY <1>1, <2>4, <3>2, <3>4, <3>6, Laid DEF Upon
    <3>8. \A root \in Roots : Stands(stack', root) <=> Stands(stack, root)
      BY <1>1, <3>4, LaidStands DEF Roots
    <3>9. PICK k \in 1 .. Len(stack) : /\ stack[k] = "Operation"
                                       /\ \A i \in k + 1 .. Len(stack) : stack[i] = "Busy"
      BY <3>3 DEF ScreenInv, Covered
    <3>10. k \in 1 .. Len(stack') /\ stack'[k] = "Operation"
           /\ \A i \in k + 1 .. Len(stack') : stack'[i] = "Busy"
      BY <1>1, <3>4, <3>9
    <3>11. Covered'  BY <3>10 DEF Covered
    <3>12. \A z : On(z)' => z = "Busy"  BY <1>1, <1>5, <3>4
    <3> QED  BY <1>2, <2>3, <3>1, <3>3, <3>7, <3>8, <3>11, <3>12 DEF ScreenInv, Roots
  <2>6. CASE ~mutation
    <3>1. stack' = Opened("Operation") /\ op' = Start(kind, plan)  BY <2>2, <2>6 DEF Begins
    <3>2. op'.plan = plan /\ op'.kind = kind /\ plan # Nothing
      BY <2>2, <3>1, PlanIsThere DEF Start, NoOp
    <3>3. /\ Len(stack') = Len(stack) + 1 /\ stack'[Len(stack) + 1] = "Operation"
          /\ \A i \in 1 .. Len(stack) : stack'[i] = stack[i]
      BY <1>1, <3>1, StackTyped DEF AllScreens
    <3>4. \A root \in Roots : "Operation" \in ScreensOf(root)  BY DEF Roots, ScreensOf
    <3>5. Chain(stack')  BY <1>1, <2>3, <2>4, <2>6, <3>3, <3>4, Laid
    <3>6. \A root \in Roots : Stands(stack', root) <=> Stands(stack, root)
      BY <1>1, <3>3, LaidStands DEF Roots
    <3>7. Covered'  BY <1>1, <3>3 DEF Covered
    <3>8. \A z : On(z)' => z = "Operation"  BY <1>1, <1>5, <3>3
    <3> QED  BY <1>2, <2>3, <3>2, <3>5, <3>6, <3>7, <3>8 DEF ScreenInv, Roots, Suits
  <2> QED  BY <1>2, <2>5, <2>6
<1>11. CASE Tells
  <2>1. /\ On("Operation") /\ stack' = Opened("Report") /\ op'.plan = Nothing
        /\ session'.on = session.on /\ Fits("Report") /\ (offer' => op.kind = "pull")
    BY <1>11 DEF Tells
  <2>2. stack # <<>> /\ stack[Len(stack)] = "Operation" /\ Len(stack) > 0  BY <1>1, <2>1, OnTop
  <2>3. /\ Len(stack') = Len(stack) + 1 /\ stack'[Len(stack) + 1] = "Report"
        /\ \A i \in 1 .. Len(stack) : stack'[i] = stack[i]
    BY <1>1, <2>1, StackTyped DEF AllScreens
  <2>4. Chain(stack')  BY <1>1, <2>1, <2>2, <2>3, Laid DEF Fits, Upon
  <2>5. \A root \in Roots : Stands(stack', root) <=> Stands(stack, root)
    BY <1>1, <2>3, LaidStands DEF Roots
  <2>6. \A z : On(z)' => z = "Report"  BY <1>1, <1>5, <2>3
  <2>7. offer' => ~Stands(stack', "SetupWelcome") /\ ~Stands(stack', "Settings")
    BY <2>1, <2>5 DEF ScreenInv, Roots
  <2> QED  BY <1>2, <2>1, <2>4, <2>5, <2>6, <2>7 DEF ScreenInv, Roots
<1>12. CASE Homes
  <2>1. /\ Chain(stack') /\ ~Stands(stack', "ReviewPull") /\ session'.on = FALSE /\ op'.plan = Nothing
        /\ stack' # <<>> => stack'[Len(stack')] \notin {"Operation", "Busy", "Report"}
    BY <1>12, HomeChain DEF Homes
  <2>2. \A z \in {"Operation", "Busy", "Report"} : ~On(z)'  BY <1>5, <2>1 DEF On
  <2> QED  BY <2>1, <2>2 DEF ScreenInv
<1> QED  BY <1>6, <1>7, <1>8, <1>9, <1>10, <1>11, <1>12, ScreenMoves

(* The screen on top after one is opened, put in place of another, or closed.     *)
LEMMA NewTop ==
    ASSUME stack \in Seq(AllScreens), Chain(stack)
    PROVE  /\ \A y \in AllScreens : stack' = Opened(y) => (\A z : On(z)' => z = y)
           /\ \A y \in AllScreens : stack # <<>> /\ stack' = Append(Closed, y) => (\A z : On(z)' => z = y)
           /\ \A x : On(x) /\ x \notin {"Dashboard", "SetupWelcome"} /\ stack' = Closed =>
                  (\A z : On(z)' => Upon(z, x))
<1>1. ASSUME NEW y \in AllScreens, stack' = Opened(y), NEW z, On(z)'  PROVE z = y
  BY <1>1, StackTyped DEF On, Last
<1>2. ASSUME NEW y \in AllScreens, stack # <<>>, stack' = Append(Closed, y), NEW z, On(z)'  PROVE z = y
  BY <1>2, InPlace DEF On, Last
<1>3. ASSUME NEW x, On(x), x \notin {"Dashboard", "SetupWelcome"}, stack' = Closed, NEW z, On(z)'
      PROVE  Upon(z, x)
  <2>1. stack # <<>> /\ Len(stack) > 1 /\ Upon(stack[Len(stack) - 1], x)  BY <1>3, OnTop
  <2>2. /\ Len(stack') = Len(stack) - 1 /\ \A i \in 1 .. Len(stack) - 1 : stack'[i] = stack[i]
        /\ Len(stack) - 1 \in 1 .. Len(stack) - 1
    BY <1>3, <2>1, StackTyped DEF AllScreens
  <2>3. stack'[Len(stack')] = stack[Len(stack) - 1]  BY <2>2
  <2>4. z = stack'[Len(stack')]  BY <1>3 DEF On, Last
  <2> QED  BY <2>1, <2>3, <2>4
<1> QED  BY <1>1, <1>2, <1>3

(* Where a step goes home, no other screen is on top.                            *)
LEMMA HomeTop ==
    ASSUME stack' \in {<<>>, <<"SetupWelcome">>, Home, Home \o <<>>, Home \o <<"FirstWin">>,
                        Home \o <<"Preview">>}
    PROVE  \A z : On(z)' => z \in {"Dashboard", "SetupWelcome", "FirstWin", "Preview"}
<1>1. stack' \in {<<>>, <<"SetupWelcome">>, <<"Dashboard">>, <<"Dashboard", "FirstWin">>,
                   <<"Dashboard", "Preview">>}
  BY HomeIs DEF Home
<1> SUFFICES ASSUME NEW z, On(z)'  PROVE z \in {"Dashboard", "SetupWelcome", "FirstWin", "Preview"}
  OBVIOUS
<1>2. stack' # <<>> /\ z = stack'[Len(stack')]  BY DEF On, Last
<1>3. CASE stack' \in {<<"SetupWelcome">>, <<"Dashboard">>}  BY <1>2, <1>3
<1>4. CASE stack' = <<"Dashboard", "FirstWin">>  BY <1>2, <1>4
<1>5. CASE stack' = <<"Dashboard", "Preview">>  BY <1>2, <1>5
<1> QED  BY <1>1, <1>2, <1>3, <1>4, <1>5

-----------------------------------------------------------------------------
(* Saving Applications.                                                      *)

AtSettings == On("Settings") \/ On("SettingsReview")
Saving     == op.kind = "targets" /\ Unsettled

(* What a review keeps of the setting of f: that of the file it read, but for what  *)
(* has come back since the screen was opened, or was changed in the file.           *)
Untouched(f) ==
    \/ f \in settings.plan.new.enabled <=> f \in settings.plan.read.enabled
    \/ f \in settings.returned
    \/ ~(f \in settings.before <=> f \in settings.plan.read.enabled)

(* What the session keeps agrees with the configuration it was opened with, but for *)
(* what the user has switched, whatever other programs do to the files.            *)
SettingsInv ==
    /\ AtSettings /\ ~settings.error => \A f \in Family \ settings.touched :
          f \in settings.sel.families <=> f \in settings.before \cap settings.disc.rows
    /\ (AtSettings \/ Saving) /\ settings.plan # Nothing =>
          \A f \in Family \ settings.touched : Untouched(f)
    /\ On("SettingsReview") => ~settings.error
    /\ Saving => settings.plan = op.plan /\ settings.plan # Nothing

(* Neither on the screens of Applications nor saving.                            *)
Away == ~AtSettings' /\ ~Saving'

(* Every step leaves the session alone, ends it, or is one of its own.           *)
LEMMA SettingsSteps ==
    ASSUME Types, RunInv, ScreenInv, Next
    PROVE  Away \/ UNCHANGED <<folder, settings, stack>> \/ Worker \/ Others \/ SettingsScreens \/ SaveSettings
<1> DEFINE G == Away \/ UNCHANGED <<folder, settings, stack>> \/ Worker \/ Others \/ SettingsScreens \/ SaveSettings
<1>s. stack \in Seq(AllScreens) /\ Chain(stack) /\ mutation \in BOOLEAN /\ (mutation <=> Unsettled)
  BY DEF Types, UiTypes, ScreenInv, RunInv
<1>e. Elsewhere => ~Unsettled  BY <1>s, CoveredNotElsewhere DEF RunInv
<1>n. ~Unsettled /\ op' = op => ~Saving'  BY DEF Unsettled, Saving
<1>k. op'.kind # "targets" \/ op'.phase \in {"none", "shown"} => ~Saving'  BY DEF Unsettled, Saving
<1>o. NoOp.phase = "none" /\ \A kind, plan : Start(kind, plan).kind = kind  BY DEF NoOp, Start
<1>t. ASSUME NEW y \in AllScreens \ {"Settings", "SettingsReview"}, \A z : On(z)' => z = y  PROVE ~AtSettings'
  BY <1>t DEF AtSettings
<1>c. ASSUME NEW x, \A z : On(z)' => Upon(z, x), x \notin {"Operation", "Settings", "SettingsReview"}
      PROVE  ~AtSettings'
  BY <1>c DEF AtSettings, Upon
<1>b. On("Busy") \/ (On("Operation") /\ At("setup", "create")) => op.kind # "targets"
  <2>1. ASSUME On("Busy"), op.kind = "targets"  PROVE FALSE
    BY <1>s, <2>1, OnTop DEF ScreenInv, Roots, ScreensOf
  <2> QED  BY <2>1 DEF At
<1> SUFFICES G  OBVIOUS
<1> HIDE DEF G
<1>1. ASSUME Launch  PROVE G
  <2>1. ~Unsettled /\ op' = op /\ (stack' = Home \/ stack' = <<"SetupWelcome">>)
    BY <1>e, <1>1 DEF Launch, NeedsSetup, Still, Unseen, folder, Elsewhere
  <2>2. ~AtSettings'  BY <2>1, HomeTop DEF AtSettings
  <2> QED  BY <1>n, <2>1, <2>2 DEF G, Away
<1>2. ASSUME Stop  PROVE G
  <2>1. stack' = <<>> /\ op' = NoOp  BY <1>2 DEF Stop
  <2>2. ~AtSettings'  BY <2>1, HomeTop DEF AtSettings
  <2> QED  BY <1>k, <1>o, <2>1, <2>2 DEF G, Away
<1>3. ASSUME Worker  PROVE G
  BY <1>3 DEF G
<1>4. ASSUME Others  PROVE G
  BY <1>4 DEF G
<1>5. ASSUME OperationEnds  PROVE G
  <2>1. Unsettled /\ op'.phase = "shown" /\ UNCHANGED stack
    BY <1>5 DEF OperationEnds, Unsettled, Types, OpTypes, Ops
  <2> QED  BY <1>e, <1>k, <2>1 DEF AtSettings, On, Elsewhere, G, Away
<1>6. ASSUME NEW i \in Slot, LoadReads(i)  PROVE G
  BY <1>6 DEF LoadReads, Still, folder, G
<1>7. ASSUME NEW i \in Slot, LoadSets(i)  PROVE G
  BY <1>7 DEF LoadSets, Still, folder, G
<1>8. ASSUME NEW i \in Slot, LoadArrives(i)  PROVE G
  BY <1>8 DEF LoadArrives, Still, folder, G
<1>9. ASSUME NEW i \in Slot, LoadFails(i)  PROVE G
  BY <1>9 DEF LoadFails, Still, folder, G
<1>10. ASSUME CloseBusy  PROVE G
  <2>1. On("Busy") /\ stack' = Closed /\ op' = op  BY <1>10 DEF CloseBusy, Still, folder
  <2>2. \A z : On(z)' => Upon(z, "Busy")  BY <1>s, <2>1, NewTop
  <2>3. ~AtSettings'  BY <1>c, <2>2
  <2>4. ~Saving'  BY <1>e, <1>n, <1>b, <1>k, <2>1 DEF On, Elsewhere
  <2> QED  BY <2>3, <2>4 DEF G, Away
<1>11. ASSUME DismissReview  PROVE G
  <2>1. stack # <<>> /\ op' = NoOp /\ stack' \in {Append(Closed, "ReviewPullComplete"), Append(Closed, "SessionReport")}
    BY <1>11 DEF DismissReview, On
  <2>2. ~AtSettings'  BY <1>s, <2>1, NewTop DEF AllScreens, AtSettings
  <2> QED  BY <1>k, <1>o, <2>1, <2>2 DEF G, Away
<1>12. ASSUME Dismiss  PROVE G
  <2>1. stack' = Opened("Report") /\ op'.phase = "shown"  BY <1>12 DEF Dismiss, Reported, NoOp
  <2>2. ~AtSettings'  BY <1>s, <2>1, NewTop DEF AllScreens, AtSettings
  <2> QED  BY <1>k, <2>1, <2>2 DEF G, Away
<1>13. ASSUME OpenPull  PROVE G
  <2>1. On("Dashboard") /\ stack' = Opened("Pull") /\ op' = op  BY <1>13 DEF OpenPull, Enter, Entered, Unmoved, Still, Steady, folder
  <2>2. \A z : On(z)' => z = "Pull"  BY <1>s, <2>1, NewTop DEF AllScreens
  <2>3. ~AtSettings'  BY <1>t, <2>2 DEF AllScreens
  <2>4. ~Saving'  BY <1>e, <1>n, <2>1 DEF On, Elsewhere
  <2> QED  BY <2>3, <2>4 DEF G, Away
<1>14. ASSUME OpenPreview  PROVE G
  <2>1. On("Dashboard") /\ stack' = Opened("Preview") /\ op' = op  BY <1>14 DEF OpenPreview, Enter, Entered, Still, folder
  <2>2. \A z : On(z)' => z = "Preview"  BY <1>s, <2>1, NewTop DEF AllScreens
  <2>3. ~AtSettings'  BY <1>t, <2>2 DEF AllScreens
  <2>4. ~Saving'  BY <1>e, <1>n, <2>1 DEF On, Elsewhere
  <2> QED  BY <2>3, <2>4 DEF G, Away
<1>15. ASSUME RefreshPull  PROVE G
  BY <1>15 DEF RefreshPull, Still, folder, G
<1>16. ASSUME RefreshPreview  PROVE G
  BY <1>16 DEF RefreshPreview, Still, folder, G
<1>17. ASSUME RunPull  PROVE G
  <2>1. On("Pull") /\ Begins("pull", pull.shown)  BY <1>17 DEF RunPull, StartPull, OnlyBegins
  <2>2. ~mutation  BY <1>s, <1>e, <2>1 DEF On, Elsewhere
  <2>3. op' = Start("pull", pull.shown) /\ stack' = Opened("Operation")  BY <2>1, <2>2 DEF Begins
  <2>4. \A z : On(z)' => z = "Operation"  BY <1>s, <2>3, NewTop DEF AllScreens
  <2>5. ~AtSettings'  BY <1>t, <2>4 DEF AllScreens
  <2> QED  BY <1>k, <1>o, <2>3, <2>5 DEF G, Away
<1>18. ASSUME RunPush  PROVE G
  <2>1. On("Preview") /\ Begins("push", push.shown)  BY <1>18 DEF RunPush, StartPush, OnlyBegins
  <2>2. ~mutation  BY <1>s, <1>e, <2>1 DEF On, Elsewhere
  <2>3. op' = Start("push", push.shown) /\ stack' = Opened("Operation")  BY <2>1, <2>2 DEF Begins
  <2>4. \A z : On(z)' => z = "Operation"  BY <1>s, <2>3, NewTop DEF AllScreens
  <2>5. ~AtSettings'  BY <1>t, <2>4 DEF AllScreens
  <2> QED  BY <1>k, <1>o, <2>3, <2>5 DEF G, Away
<1>19. ASSUME ClosePull  PROVE G
  <2>1. On("Pull") /\ stack' = Closed /\ op' = op  BY <1>19 DEF ClosePull, Still, folder
  <2>2. \A z : On(z)' => Upon(z, "Pull")  BY <1>s, <2>1, NewTop
  <2>3. ~AtSettings'  BY <1>c, <2>2
  <2>4. ~Saving'  BY <1>e, <1>n, <1>b, <1>k, <2>1 DEF On, Elsewhere
  <2> QED  BY <2>3, <2>4 DEF G, Away
<1>20. ASSUME ClosePreview  PROVE G
  <2>1. On("Preview") /\ stack' = Closed /\ op' = op  BY <1>20 DEF ClosePreview, Still, folder
  <2>2. \A z : On(z)' => Upon(z, "Preview")  BY <1>s, <2>1, NewTop
  <2>3. ~AtSettings'  BY <1>c, <2>2
  <2>4. ~Saving'  BY <1>e, <1>n, <1>b, <1>k, <2>1 DEF On, Elsewhere
  <2> QED  BY <2>3, <2>4 DEF G, Away
<1>21. ASSUME PullNext  PROVE G
  <2>1. CASE DetourFromPull
    <3>1. On("Pull") /\ stack' = Opened("AddWords") /\ op' = op  BY <1>21, <2>1 DEF PullNext, DetourFromPull, Still, folder
    <3>2. \A z : On(z)' => z = "AddWords"  BY <1>s, <3>1, NewTop DEF AllScreens
    <3>3. ~AtSettings'  BY <1>t, <3>2 DEF AllScreens
    <3>4. ~Saving'  BY <1>e, <1>n, <3>1 DEF On, Elsewhere
    <3> QED  BY <3>3, <3>4 DEF G, Away
  <2>2. CASE Continue(stack) /\ session.on
    <3>1. On("Pull") /\ stack' = Opened("ReviewPush") /\ op' = op  BY <1>21, <2>2 DEF PullNext, Continue, Opened, Still, folder
    <3>2. \A z : On(z)' => z = "ReviewPush"  BY <1>s, <3>1, NewTop DEF AllScreens
    <3>3. ~AtSettings'  BY <1>t, <3>2 DEF AllScreens
    <3>4. ~Saving'  BY <1>e, <1>n, <3>1 DEF On, Elsewhere
    <3> QED  BY <3>3, <3>4 DEF G, Away
  <2>3. CASE Continue(stack) /\ ~session.on
    <3>1. On("Pull") /\ stack' = Opened("Preview") /\ op' = op  BY <1>21, <2>3 DEF PullNext, Continue, Opened, Still, folder
    <3>2. \A z : On(z)' => z = "Preview"  BY <1>s, <3>1, NewTop DEF AllScreens
    <3>3. ~AtSettings'  BY <1>t, <3>2 DEF AllScreens
    <3>4. ~Saving'  BY <1>e, <1>n, <3>1 DEF On, Elsewhere
    <3> QED  BY <3>3, <3>4 DEF G, Away
  <2> QED  BY <1>21, <2>1, <2>2, <2>3 DEF PullNext, LeaveCollect
<1>22. ASSUME ResumePull  PROVE G
  BY <1>22 DEF ResumePull, Still, folder, G
<1>23. ASSUME OpenAddWords  PROVE G
  <2>1. CASE On("Dashboard")
    <3>1. On("Dashboard") /\ stack' = Opened("AddWords") /\ op' = op  BY <1>23, <2>1 DEF OpenAddWords, Enter, Entered, Still, folder, On
    <3>2. \A z : On(z)' => z = "AddWords"  BY <1>s, <3>1, NewTop DEF AllScreens
    <3>3. ~AtSettings'  BY <1>t, <3>2 DEF AllScreens
    <3>4. ~Saving'  BY <1>e, <1>n, <3>1 DEF On, Elsewhere
    <3> QED  BY <3>3, <3>4 DEF G, Away
  <2>2. CASE On("FirstWin")
    <3>1. On("FirstWin") /\ stack' = Opened("AddWords") /\ op' = op  BY <1>23, <2>2 DEF OpenAddWords, Enter, Entered, Still, folder, On
    <3>2. \A z : On(z)' => z = "AddWords"  BY <1>s, <3>1, NewTop DEF AllScreens
    <3>3. ~AtSettings'  BY <1>t, <3>2 DEF AllScreens
    <3>4. ~Saving'  BY <1>e, <1>n, <3>1 DEF On, Elsewhere
    <3> QED  BY <3>3, <3>4 DEF G, Away
  <2> QED  BY <1>23, <2>1, <2>2 DEF OpenAddWords, Enter, Entered
<1>24. ASSUME NEW w \in Word, SaveWord(w)  PROVE G
  BY <1>e, <1>n, <1>24 DEF SaveWord, On, Elsewhere, AtSettings, G, Away
<1>25. ASSUME CloseAddWords  PROVE G
  <2>1. CASE On("AddWords")
    <3>1. On("AddWords") /\ stack' = Closed /\ op' = op  BY <1>25, <2>1 DEF CloseAddWords, Still, folder
    <3>2. \A z : On(z)' => Upon(z, "AddWords")  BY <1>s, <3>1, NewTop
    <3>3. ~AtSettings'  BY <1>c, <3>2
    <3>4. ~Saving'  BY <1>e, <1>n, <1>b, <1>k, <3>1 DEF On, Elsewhere
    <3> QED  BY <3>3, <3>4 DEF G, Away
  <2>2. CASE On("FirstWin")
    <3>1. On("FirstWin") /\ stack' = Closed /\ op' = op  BY <1>25, <2>2 DEF CloseAddWords, Still, folder
    <3>2. \A z : On(z)' => Upon(z, "FirstWin")  BY <1>s, <3>1, NewTop
    <3>3. ~AtSettings'  BY <1>c, <3>2
    <3>4. ~Saving'  BY <1>e, <1>n, <1>b, <1>k, <3>1 DEF On, Elsewhere
    <3> QED  BY <3>3, <3>4 DEF G, Away
  <2> QED  BY <1>25, <2>1, <2>2 DEF CloseAddWords
<1>26. ASSUME AddWordsNext  PROVE G
  <2>1. CASE session.on
    <3>1. On("AddWords") /\ stack' = Append(Closed, "ReviewPush") /\ op' = op  BY <1>26, <2>1 DEF AddWordsNext, Continue, Still, folder
    <3>2. \A z : On(z)' => z = "ReviewPush"  BY <1>s, <3>1, NewTop DEF AllScreens, On
    <3>3. ~AtSettings'  BY <1>t, <3>2 DEF AllScreens
    <3>4. ~Saving'  BY <1>e, <1>n, <3>1 DEF On, Elsewhere
    <3> QED  BY <3>3, <3>4 DEF G, Away
  <2>2. CASE ~session.on
    <3>1. On("AddWords") /\ stack' = Append(Closed, "Preview") /\ op' = op  BY <1>26, <2>2 DEF AddWordsNext, Continue, Still, folder
    <3>2. \A z : On(z)' => z = "Preview"  BY <1>s, <3>1, NewTop DEF AllScreens, On
    <3>3. ~AtSettings'  BY <1>t, <3>2 DEF AllScreens
    <3>4. ~Saving'  BY <1>e, <1>n, <3>1 DEF On, Elsewhere
    <3> QED  BY <3>3, <3>4 DEF G, Away
  <2> QED  BY <1>26, <2>1, <2>2 DEF AddWordsNext
<1>27. ASSUME RefreshDashboard  PROVE G
  BY <1>27 DEF RefreshDashboard, Still, folder, G
<1>28. ASSUME OpenReview  PROVE G
  <2>1. CASE On("Dashboard")
    <3>1. On("Dashboard") /\ stack' = Opened("ReviewStart") /\ op' = op  BY <1>28, <2>1 DEF OpenReview, Enter, Entered, Unmoved, Still, Steady, folder, On
    <3>2. \A z : On(z)' => z = "ReviewStart"  BY <1>s, <3>1, NewTop DEF AllScreens
    <3>3. ~AtSettings'  BY <1>t, <3>2 DEF AllScreens
    <3>4. ~Saving'  BY <1>e, <1>n, <3>1 DEF On, Elsewhere
    <3> QED  BY <3>3, <3>4 DEF G, Away
  <2>2. CASE On("FirstWin")
    <3>1. On("FirstWin") /\ stack' = Opened("ReviewStart") /\ op' = op  BY <1>28, <2>2 DEF OpenReview, Enter, Entered, Unmoved, Still, Steady, folder, On
    <3>2. \A z : On(z)' => z = "ReviewStart"  BY <1>s, <3>1, NewTop DEF AllScreens
    <3>3. ~AtSettings'  BY <1>t, <3>2 DEF AllScreens
    <3>4. ~Saving'  BY <1>e, <1>n, <3>1 DEF On, Elsewhere
    <3> QED  BY <3>3, <3>4 DEF G, Away
  <2> QED  BY <1>28, <2>1, <2>2 DEF OpenReview, Enter, Entered
<1>29. ASSUME StartReview  PROVE G
  <2>1. On("ReviewStart") /\ stack' = Append(Closed, "ReviewPull") /\ op' = op  BY <1>29 DEF StartReview, Unmoved, Still, Steady, folder
  <2>2. \A z : On(z)' => z = "ReviewPull"  BY <1>s, <2>1, NewTop DEF AllScreens, On
  <2>3. ~AtSettings'  BY <1>t, <2>2 DEF AllScreens
  <2>4. ~Saving'  BY <1>e, <1>n, <2>1 DEF On, Elsewhere
  <2> QED  BY <2>3, <2>4 DEF G, Away
<1>30. ASSUME LeaveReview  PROVE G
  <2>1. CASE On("ReviewStart")
    <3>1. On("ReviewStart") /\ stack' = Closed /\ op' = op  BY <1>30, <2>1 DEF LeaveReview, Unmoved, Still, Steady, folder
    <3>2. \A z : On(z)' => Upon(z, "ReviewStart")  BY <1>s, <3>1, NewTop
    <3>3. ~AtSettings'  BY <1>c, <3>2
    <3>4. ~Saving'  BY <1>e, <1>n, <1>b, <1>k, <3>1 DEF On, Elsewhere
    <3> QED  BY <3>3, <3>4 DEF G, Away
  <2>2. CASE On("ReviewPull")
    <3>1. On("ReviewPull") /\ stack' = Closed /\ op' = op  BY <1>30, <2>2 DEF LeaveReview, Unmoved, Still, Steady, folder
    <3>2. \A z : On(z)' => Upon(z, "ReviewPull")  BY <1>s, <3>1, NewTop
    <3>3. ~AtSettings'  BY <1>c, <3>2
    <3>4. ~Saving'  BY <1>e, <1>n, <1>b, <1>k, <3>1 DEF On, Elsewhere
    <3> QED  BY <3>3, <3>4 DEF G, Away
  <2> QED  BY <1>30, <2>1, <2>2 DEF LeaveReview
<1>31. ASSUME ReviewRunPull  PROVE G
  <2>1. On("ReviewPull") /\ Begins("pull", pull.shown)  BY <1>31 DEF ReviewRunPull, StartPull, OnlyBegins
  <2>2. ~mutation  BY <1>s, <1>e, <2>1 DEF On, Elsewhere
  <2>3. op' = Start("pull", pull.shown) /\ stack' = Opened("Operation")  BY <2>1, <2>2 DEF Begins
  <2>4. \A z : On(z)' => z = "Operation"  BY <1>s, <2>3, NewTop DEF AllScreens
  <2>5. ~AtSettings'  BY <1>t, <2>4 DEF AllScreens
  <2> QED  BY <1>k, <1>o, <2>3, <2>5 DEF G, Away
<1>32. ASSUME SkipCollect  PROVE G
  <2>1. CASE DetourFromPull
    <3>1. On("ReviewPull") /\ stack' = Opened("AddWords") /\ op' = op  BY <1>32, <2>1 DEF SkipCollect, DetourFromPull, Still, folder
    <3>2. \A z : On(z)' => z = "AddWords"  BY <1>s, <3>1, NewTop DEF AllScreens
    <3>3. ~AtSettings'  BY <1>t, <3>2 DEF AllScreens
    <3>4. ~Saving'  BY <1>e, <1>n, <3>1 DEF On, Elsewhere
    <3> QED  BY <3>3, <3>4 DEF G, Away
  <2>2. CASE Continue(stack) /\ session.on
    <3>1. On("ReviewPull") /\ stack' = Opened("ReviewPush") /\ op' = op  BY <1>32, <2>2 DEF SkipCollect, Continue, Opened, Still, folder
    <3>2. \A z : On(z)' => z = "ReviewPush"  BY <1>s, <3>1, NewTop DEF AllScreens
    <3>3. ~AtSettings'  BY <1>t, <3>2 DEF AllScreens
    <3>4. ~Saving'  BY <1>e, <1>n, <3>1 DEF On, Elsewhere
    <3> QED  BY <3>3, <3>4 DEF G, Away
  <2>3. CASE Continue(stack) /\ ~session.on
    <3>1. On("ReviewPull") /\ stack' = Opened("Preview") /\ op' = op  BY <1>32, <2>3 DEF SkipCollect, Continue, Opened, Still, folder
    <3>2. \A z : On(z)' => z = "Preview"  BY <1>s, <3>1, NewTop DEF AllScreens
    <3>3. ~AtSettings'  BY <1>t, <3>2 DEF AllScreens
    <3>4. ~Saving'  BY <1>e, <1>n, <3>1 DEF On, Elsewhere
    <3> QED  BY <3>3, <3>4 DEF G, Away
  <2> QED  BY <1>32, <2>1, <2>2, <2>3 DEF SkipCollect, LeaveCollect
<1>33. ASSUME ReviewUpdate  PROVE G
  <2>1. On("ReviewPullComplete") /\ stack' = Opened("ReviewPush") /\ op' = op  BY <1>33 DEF ReviewUpdate, Still, folder
  <2>2. \A z : On(z)' => z = "ReviewPush"  BY <1>s, <2>1, NewTop DEF AllScreens
  <2>3. ~AtSettings'  BY <1>t, <2>2 DEF AllScreens
  <2>4. ~Saving'  BY <1>e, <1>n, <2>1 DEF On, Elsewhere
  <2> QED  BY <2>3, <2>4 DEF G, Away
<1>34. ASSUME ReviewRunPush  PROVE G
  <2>1. On("ReviewPush") /\ Begins("push", push.shown)  BY <1>34 DEF ReviewRunPush, ReviewUpdatable, StartPush, OnlyBegins
  <2>2. ~mutation  BY <1>s, <1>e, <2>1 DEF On, Elsewhere
  <2>3. op' = Start("push", push.shown) /\ stack' = Opened("Operation")  BY <2>1, <2>2 DEF Begins
  <2>4. \A z : On(z)' => z = "Operation"  BY <1>s, <2>3, NewTop DEF AllScreens
  <2>5. ~AtSettings'  BY <1>t, <2>4 DEF AllScreens
  <2> QED  BY <1>k, <1>o, <2>3, <2>5 DEF G, Away
<1>35. ASSUME CloseReviewPush  PROVE G
  <2>1. On("ReviewPush") /\ stack' = Closed /\ op' = op  BY <1>35 DEF CloseReviewPush, Still, folder
  <2>2. \A z : On(z)' => Upon(z, "ReviewPush")  BY <1>s, <2>1, NewTop
  <2>3. ~AtSettings'  BY <1>c, <2>2
  <2>4. ~Saving'  BY <1>e, <1>n, <1>b, <1>k, <2>1 DEF On, Elsewhere
  <2> QED  BY <2>3, <2>4 DEF G, Away
<1>36. ASSUME FinishReview  PROVE G
  <2>1. On("ReviewPush") /\ stack' = Opened("SessionReport") /\ op' = op  BY <1>36 DEF FinishReview, CanFinish, Reports, Record, Unmoved, Still, Steady, folder
  <2>2. \A z : On(z)' => z = "SessionReport"  BY <1>s, <2>1, NewTop DEF AllScreens
  <2>3. ~AtSettings'  BY <1>t, <2>2 DEF AllScreens
  <2>4. ~Saving'  BY <1>e, <1>n, <2>1 DEF On, Elsewhere
  <2> QED  BY <2>3, <2>4 DEF G, Away
<1>37. ASSUME EndReview  PROVE G
  <2>1. On("SessionReport") /\ op' \in {op, NoOp} /\ stack' \in {Home \o <<>>, Home \o <<"FirstWin">>, Home \o <<"Preview">>}
    BY <1>37 DEF EndReview, Homewards, Still, RebuildOffered, folder
  <2>2. ~AtSettings'  BY <2>1, HomeTop DEF AtSettings
  <2>3. ~Saving'  BY <1>e, <1>n, <1>k, <1>o, <2>1 DEF On, Elsewhere
  <2> QED  BY <2>2, <2>3 DEF G, Away
<1>38. ASSUME ReportHome  PROVE G
  <2>1. On("Report") /\ op' \in {op, NoOp} /\ stack' \in {Home \o <<>>, Home \o <<"FirstWin">>, Home \o <<"Preview">>}
    BY <1>38 DEF ReportHome, LeaveReport, Homewards, RebuildOffered, folder
  <2>2. ~AtSettings'  BY <2>1, HomeTop DEF AtSettings
  <2>3. ~Saving'  BY <1>e, <1>n, <1>k, <1>o, <2>1 DEF On, Elsewhere
  <2> QED  BY <2>2, <2>3 DEF G, Away
<1>39. ASSUME ReportNext  PROVE G
  <2>1. CASE session.on
    <3>1. On("Report") /\ stack' = Opened("ReviewPush") /\ op' = op  BY <1>39, <2>1 DEF ReportNext, Continue, Opened, Still, folder
    <3>2. \A z : On(z)' => z = "ReviewPush"  BY <1>s, <3>1, NewTop DEF AllScreens
    <3>3. ~AtSettings'  BY <1>t, <3>2 DEF AllScreens
    <3>4. ~Saving'  BY <1>e, <1>n, <3>1 DEF On, Elsewhere
    <3> QED  BY <3>3, <3>4 DEF G, Away
  <2>2. CASE ~session.on
    <3>1. On("Report") /\ stack' = Opened("Preview") /\ op' = op  BY <1>39, <2>2 DEF ReportNext, Continue, Opened, Still, folder
    <3>2. \A z : On(z)' => z = "Preview"  BY <1>s, <3>1, NewTop DEF AllScreens
    <3>3. ~AtSettings'  BY <1>t, <3>2 DEF AllScreens
    <3>4. ~Saving'  BY <1>e, <1>n, <3>1 DEF On, Elsewhere
    <3> QED  BY <3>3, <3>4 DEF G, Away
  <2> QED  BY <1>39, <2>1, <2>2 DEF ReportNext
<1>40. ASSUME ReportRebuild  PROVE G
  <2>1. On("Report") /\ op' \in {op, NoOp} /\ stack' \in {Home \o <<>>, Home \o <<"FirstWin">>, Home \o <<"Preview">>}
    BY <1>40 DEF ReportRebuild, RebuildOffered, LeaveReport, Homewards, folder
  <2>2. ~AtSettings'  BY <2>1, HomeTop DEF AtSettings
  <2>3. ~Saving'  BY <1>e, <1>n, <1>k, <1>o, <2>1 DEF On, Elsewhere
  <2> QED  BY <2>2, <2>3 DEF G, Away
<1>41. ASSUME InspectRecovery  PROVE G
  <2>1. CASE On("Dashboard") /\ stack' = Opened("Recovery")
    <3>1. On("Dashboard") /\ stack' = Opened("Recovery") /\ op' = op  BY <1>41, <2>1 DEF InspectRecovery, Still, folder
    <3>2. \A z : On(z)' => z = "Recovery"  BY <1>s, <3>1, NewTop DEF AllScreens
    <3>3. ~AtSettings'  BY <1>t, <3>2 DEF AllScreens
    <3>4. ~Saving'  BY <1>e, <1>n, <3>1 DEF On, Elsewhere
    <3> QED  BY <3>3, <3>4 DEF G, Away
  <2>2. CASE On("Recovery") /\ UNCHANGED stack
    BY <1>e, <1>n, <1>41, <2>2 DEF InspectRecovery, Still, folder, On, Elsewhere, AtSettings, G, Away
  <2> QED  BY <1>41, <2>1, <2>2 DEF InspectRecovery
<1>42. ASSUME RunRecovery  PROVE G
  <2>1. PICK kind \in {"recover", "discard"} : On("Recovery") /\ Begins(kind, rec)  BY <1>42 DEF RunRecovery, Pressed, Offered, StartRecovery, OnlyBegins
  <2>2. ~mutation  BY <1>s, <1>e, <2>1 DEF On, Elsewhere
  <2>3. op' = Start(kind, rec) /\ stack' = Opened("Operation")  BY <2>1, <2>2 DEF Begins
  <2>4. \A z : On(z)' => z = "Operation"  BY <1>s, <2>3, NewTop DEF AllScreens
  <2>5. ~AtSettings'  BY <1>t, <2>4 DEF AllScreens
  <2> QED  BY <1>k, <1>o, <2>3, <2>5 DEF G, Away
<1>43. ASSUME CloseRecovery  PROVE G
  <2>1. On("Recovery") /\ stack' = Closed /\ op' = op  BY <1>43 DEF CloseRecovery, Still, folder
  <2>2. \A z : On(z)' => Upon(z, "Recovery")  BY <1>s, <2>1, NewTop
  <2>3. ~AtSettings'  BY <1>c, <2>2
  <2>4. ~Saving'  BY <1>e, <1>n, <1>b, <1>k, <2>1 DEF On, Elsewhere
  <2> QED  BY <2>3, <2>4 DEF G, Away
<1>44. ASSUME SetupScreens  PROVE G
  <2>1. CASE BeginSetup
    <3>1. On("SetupWelcome") /\ stack' = Opened("SetupWordlist") /\ op' = op  BY <1>44, <2>1 DEF SetupScreens, BeginSetup, folder
    <3>2. \A z : On(z)' => z = "SetupWordlist"  BY <1>s, <3>1, NewTop DEF AllScreens
    <3>3. ~AtSettings'  BY <1>t, <3>2 DEF AllScreens
    <3>4. ~Saving'  BY <1>e, <1>n, <3>1 DEF On, Elsewhere
    <3> QED  BY <3>3, <3>4 DEF G, Away
  <2>2. CASE ChooseFolder
    <3>1. On("SetupWordlist") /\ stack' = Opened("SetupTargets") /\ op' = op  BY <1>44, <2>2 DEF SetupScreens, ChooseFolder, folder
    <3>2. \A z : On(z)' => z = "SetupTargets"  BY <1>s, <3>1, NewTop DEF AllScreens
    <3>3. ~AtSettings'  BY <1>t, <3>2 DEF AllScreens
    <3>4. ~Saving'  BY <1>e, <1>n, <3>1 DEF On, Elsewhere
    <3> QED  BY <3>3, <3>4 DEF G, Away
  <2>3. CASE ReviewSetup
    <3>1. On("SetupTargets") /\ stack' = Opened("SetupPreview") /\ op' = op  BY <1>44, <2>3 DEF SetupScreens, ReviewSetup, folder
    <3>2. \A z : On(z)' => z = "SetupPreview"  BY <1>s, <3>1, NewTop DEF AllScreens
    <3>3. ~AtSettings'  BY <1>t, <3>2 DEF AllScreens
    <3>4. ~Saving'  BY <1>e, <1>n, <3>1 DEF On, Elsewhere
    <3> QED  BY <3>3, <3>4 DEF G, Away
  <2>4. CASE ChooseApps
    BY <1>e, <1>n, <1>44, <2>4 DEF SetupScreens, ChooseApps, folder, On, Elsewhere, AtSettings, G, Away
  <2>5. CASE BackInSetup
    <3>1. PICK x \in {"SetupWordlist", "SetupTargets", "SetupPreview"} : On(x)  BY <2>5 DEF BackInSetup
    <3>2. stack' = Closed /\ op' = op  BY <1>44, <2>5 DEF SetupScreens, BackInSetup, folder
    <3>3. \A z : On(z)' => Upon(z, x)  BY <1>s, <3>1, <3>2, NewTop
    <3>4. ~AtSettings'  BY <1>c, <3>3
    <3>5. ~Saving'  BY <1>e, <1>n, <3>1, <3>2 DEF On, Elsewhere
    <3> QED  BY <3>4, <3>5 DEF G, Away
  <2> QED  BY <1>44, <2>1, <2>2, <2>3, <2>4, <2>5 DEF SetupScreens
<1>45. ASSUME CreateProject  PROVE G
  <2>1. CASE On("SetupPreview") /\ Begins("setup", setup.plan)
    <3>1. ~mutation  BY <1>s, <1>e, <2>1 DEF On, Elsewhere
    <3>2. op' = Start("setup", setup.plan) /\ stack' = Opened("Operation")  BY <2>1, <3>1 DEF Begins
    <3>3. \A z : On(z)' => z = "Operation"  BY <1>s, <3>2, NewTop DEF AllScreens
    <3>4. ~AtSettings'  BY <1>t, <3>3 DEF AllScreens
    <3> QED  BY <1>k, <1>o, <3>2, <3>4 DEF G, Away
  <2>2. CASE On("Operation") /\ At("setup", "create") /\ Begins("setup", op.plan)
    <3>1. mutation  BY <1>s, <2>2 DEF At, Unsettled
    <3>2. op' = op /\ stack' = Opened("Busy")  BY <2>2, <3>1 DEF Begins
    <3>3. \A z : On(z)' => z = "Busy"  BY <1>s, <3>2, NewTop DEF AllScreens
    <3>4. ~AtSettings'  BY <1>t, <3>3 DEF AllScreens
    <3> QED  BY <1>b, <1>k, <2>2, <3>2, <3>4 DEF G, Away
  <2> QED  BY <1>45, <2>1, <2>2 DEF CreateProject
<1>46. ASSUME OpenExisting  PROVE G
  <2>1. On("SetupPreview") /\ op' \in {op, NoOp} /\ stack' \in {Home \o <<>>, Home \o <<"FirstWin">>, Home \o <<"Preview">>}
    BY <1>46 DEF OpenExisting, Homewards, RebuildOffered, folder
  <2>2. ~AtSettings'  BY <2>1, HomeTop DEF AtSettings
  <2>3. ~Saving'  BY <1>e, <1>n, <1>k, <1>o, <2>1 DEF On, Elsewhere
  <2> QED  BY <2>2, <2>3 DEF G, Away
<1>47. ASSUME SettingsScreens  PROVE G
  BY <1>47 DEF G
<1>48. ASSUME SaveSettings  PROVE G
  BY <1>48 DEF G
<1> QED
  BY <1>1, <1>2, <1>3, <1>4, <1>5, <1>6, <1>7, <1>8, <1>9, <1>10, <1>11, <1>12, <1>13, <1>14,
     <1>15, <1>16, <1>17, <1>18, <1>19, <1>20, <1>21, <1>22, <1>23, <1>24, <1>25, <1>26, <1>27, <1>28,
     <1>29, <1>30, <1>31, <1>32, <1>33, <1>34, <1>35, <1>36, <1>37, <1>38, <1>39, <1>40, <1>41, <1>42,
     <1>43, <1>44, <1>45, <1>46, <1>47, <1>48
     DEF Next, User, LoadStep

(* A worker is no other program.                                                 *)
LEMMA WorkerEdits ==
    ASSUME Worker  PROVE edits' = edits
<1>1. CASE WorkPull
  BY <1>1 DEF WorkPull, Fails, PullStops, PullWrites, Stopped
<1>2. CASE WorkPush
  BY <1>2 DEF WorkPush, Fails, PushStops, PushConflicts, PushWrites, Stopped
<1>3. CASE WorkRecover \/ WorkDiscard
  BY <1>3 DEF WorkRecover, WorkDiscard, Fails, Stopped
<1>4. CASE SetupStep
  BY <1>4 DEF SetupStep, SetupChecks, SetupLocks, SetupCreates, SetupBreaksOff, SetupEnds,
              SetupUndoes, SetupIsUndone, Becomes
<1>5. CASE SaveStep
  BY <1>5 DEF SaveStep, SaveChecks, SaveLocks, SaveWrites, SaveVerifies, Stays
<1> QED  BY <1>1, <1>2, <1>3, <1>4, <1>5 DEF Worker

(* What can be switched has a row.                                               *)
LEMMA OpenHaveRows == Discovery.open \subseteq Discovery.rows
BY DEF Discovery, Discover, Best, Here, Seen

(* What the settings session keeps stays in agreement.                           *)
LEMMA SettingsStep ==
    ASSUME Types, RunInv, ScreenInv, SettingsInv, Next  PROVE SettingsInv'
<1>1. /\ stack \in Seq(AllScreens) /\ Chain(stack) /\ mutation \in BOOLEAN /\ (mutation <=> Unsettled)
      /\ settings \in AllSettings /\ config \in Configs
  BY ProjectAssumption DEF Types, UiTypes, FileTypes, ScreenInv, RunInv, AllSettings
<1>2. Elsewhere => ~Unsettled  BY <1>1, CoveredNotElsewhere DEF RunInv
<1>3. AtSettings => Elsewhere  BY DEF AtSettings, On, Elsewhere
<1>4. CASE Away  BY <1>4 DEF Away, AtSettings, SettingsInv
<1>5. CASE UNCHANGED <<folder, settings, stack>>
  BY <1>5 DEF SettingsInv, Untouched, folder, AtSettings, Saving, Unsettled, On
<1>6. CASE Worker
  <2>1. GoesOn /\ settings' = settings /\ stack' = stack /\ edits' = edits
    BY <1>6, WorkerTyped, WorkerEdits DEF Types, ui
  <2>2. Unsettled  BY <2>1 DEF GoesOn, Unsettled
  <2>3. ~AtSettings' /\ ~On("SettingsReview")'  BY <1>2, <1>3, <2>1, <2>2 DEF AtSettings, On
  <2>4. Saving' => Saving /\ op'.plan = op.plan  BY <2>1, <2>2 DEF GoesOn, Saving
  <2> QED  BY <2>1, <2>3, <2>4 DEF SettingsInv, Untouched
<1>7. CASE Others
  <2>1. UNCHANGED <<op, settings, stack>>
    BY <1>7 DEF Others, EditList, EditDict, EditConfig, Edits, ui
  <2>2. (AtSettings' <=> AtSettings) /\ (Saving' <=> Saving) /\ (On("SettingsReview")' <=> On("SettingsReview"))
    BY <2>1 DEF AtSettings, On, Saving, Unsettled
  <2> QED  BY <2>1, <2>2 DEF SettingsInv, Untouched
<1>8. CASE SaveSettings
  <2>1. On("SettingsReview") /\ settings.plan # Nothing /\ Begins("targets", settings.plan)
        /\ UNCHANGED settings
    BY <1>8 DEF SaveSettings, CanSave, Reviewed
  <2>2. AtSettings /\ ~mutation  BY <1>1, <1>2, <1>3, <2>1 DEF AtSettings
  <2>3. op' = Start("targets", settings.plan) /\ stack' = Opened("Operation")  BY <2>1, <2>2 DEF Begins
  <2>4. \A z : On(z)' => z = "Operation"  BY <1>1, <2>3, NewTop DEF AllScreens
  <2>5. ~AtSettings' /\ ~On("SettingsReview")'  BY <2>4 DEF AtSettings
  <2>6. op'.plan = settings.plan  BY <2>3 DEF Start, NoOp
  <2> QED  BY <2>1, <2>2, <2>5, <2>6 DEF SettingsInv, Untouched
<1>9. CASE SettingsScreens
  <2>0. UNCHANGED folder /\ UNCHANGED op  BY <1>9 DEF SettingsScreens, folder
  <2>1. CASE OpenApplications
    <3>1. On("Dashboard") /\ OpenSettings /\ stack' = Opened("Settings")  BY <2>1 DEF OpenApplications
    <3>2. \A z : On(z)' => z = "Settings"  BY <1>1, <3>1, NewTop DEF AllScreens
    <3>3. ~Saving'  BY <1>2, <2>0, <3>1 DEF Saving, Unsettled, On, Elsewhere
    <3>4. /\ settings'.error = LoadedSettings.error /\ settings'.disc = LoadedSettings.disc
          /\ settings'.sel = FromEnabled(LoadedSettings.disc, LoadedSettings.enabled, LoadedSettings.excluded)
          /\ settings'.before = LoadedSettings.enabled
          /\ settings'.plan = Nothing /\ settings'.touched = {}
      BY <3>1 DEF OpenSettings, NoSettings
    <3>6. settings'.sel.families = settings'.before \cap settings'.disc.rows
      BY <3>4 DEF FromEnabled, Selection
    <3>7. ~On("SettingsReview")'  BY <3>2
    <3> QED  BY <1>1, <3>3, <3>4, <3>6, <3>7 DEF SettingsInv
  <2>2. CASE ChooseApplications
    <3>1. On("Settings") /\ ~settings.error /\ ChooseForSettings /\ stack' = stack
      BY <2>2 DEF ChooseApplications
    <3>2. PICK s \in Toggled(settings.sel, settings.disc) :
             settings' = [settings EXCEPT !.sel = s, !.plan = Nothing, !.touched = @ \cup Switched(s)]
      BY <3>1 DEF ChooseForSettings
    <3>3. /\ settings'.sel = s /\ settings'.plan = Nothing /\ settings'.touched = settings.touched \cup Switched(s)
          /\ settings'.before = settings.before /\ settings'.disc = settings.disc
          /\ settings'.error = settings.error
      BY <1>1, <3>2 DEF AllSettings
    <3>4. AtSettings /\ ~Saving'  BY <1>2, <1>3, <2>0, <3>1 DEF AtSettings, Saving, Unsettled
    <3>5. \A f \in Family \ settings'.touched : f \in settings'.sel.families <=> f \in settings.sel.families
      BY <3>3 DEF Switched
    <3>6. \A f \in Family \ settings'.touched :
             f \in settings'.sel.families <=> f \in settings'.before \cap settings'.disc.rows
      BY <3>1, <3>3, <3>4, <3>5 DEF SettingsInv
    <3> QED  BY <3>1, <3>3, <3>4, <3>6 DEF SettingsInv
  <2>3. CASE ReviewApplications
    <3>1. On("Settings") /\ ~settings.error /\ ReadConfig
      BY <2>3 DEF ReviewApplications
    <3>2. PICK p : p = [read |-> config, hash |-> Nothing, new |-> Prepared(config),
                        ok   |-> /\ journal = NoJournal /\ config.status = "valid"
                                 /\ Prepared(config) # config]
      OBVIOUS
    <3>3. settings' = [settings EXCEPT !.returned = Discovery.open \ settings.disc.rows, !.plan = p]
      BY <3>1, <3>2 DEF ReadConfig
    <3>4. /\ settings'.plan = p /\ settings'.sel = settings.sel /\ settings'.touched = settings.touched
          /\ settings'.before = settings.before /\ settings'.disc = settings.disc
          /\ settings'.error = settings.error /\ settings'.returned = Discovery.open \ settings.disc.rows
      BY <1>1, <3>3 DEF AllSettings
    <3>5. AtSettings /\ ~Saving'  BY <1>2, <1>3, <2>0, <3>1 DEF AtSettings, Saving, Unsettled
    <3>6. ASSUME NEW f \in Family \ settings.touched  PROVE Untouched(f)'
      <4>1. f \in settings.sel.families <=> f \in settings.before \cap settings.disc.rows
        BY <3>1, <3>5, <3>6 DEF SettingsInv
      <4>2. p.new.enabled = ResolveEnabled(Discovery, settings.sel.families, config.enabled)
            /\ p.read = config
        BY <3>2 DEF Prepared, Config
      <4>3. /\ settings'.plan.new.enabled = p.new.enabled /\ settings'.plan.read.enabled = config.enabled
            /\ settings'.before = settings.before
            /\ settings'.returned = Discovery.open \ settings.disc.rows
        BY <3>4, <4>2
      <4>4. CASE f \in Discovery.open /\ f \in settings.disc.rows
        <5>1. f \in Discovery.rows  BY <4>4, OpenHaveRows
        <5>2. f \in p.new.enabled <=> f \in settings.before  BY <4>1, <4>2, <4>4, <5>1 DEF ResolveEnabled
        <5> QED  BY <4>3, <5>2 DEF Untouched
      <4>5. CASE f \notin Discovery.open
        <5>1. f \in p.new.enabled <=> f \in config.enabled  BY <4>2, <4>5 DEF ResolveEnabled
        <5> QED  BY <4>3, <5>1 DEF Untouched
      <4>6. CASE f \in Discovery.open /\ f \notin settings.disc.rows  BY <4>3, <4>6 DEF Untouched
      <4> QED  BY <4>4, <4>5, <4>6
    <3>7. ~settings'.error /\ \A f \in Family \ settings'.touched :
                f \in settings'.sel.families <=> f \in settings'.before \cap settings'.disc.rows
      BY <3>1, <3>4, <3>5 DEF SettingsInv
    <3>8. \A f \in Family \ settings'.touched : Untouched(f)'  BY <3>4, <3>6
    <3> QED  BY <3>5, <3>7, <3>8 DEF SettingsInv
  <2>4. CASE BackInApplications /\ On("SettingsReview")
    <3>1. settings' = [settings EXCEPT !.plan = Nothing]  BY <2>4 DEF BackInApplications, On
    <3>2. /\ settings'.plan = Nothing /\ settings'.sel = settings.sel /\ settings'.touched = settings.touched
          /\ settings'.before = settings.before /\ settings'.disc = settings.disc
          /\ settings'.error = settings.error
      BY <1>1, <3>1 DEF AllSettings
    <3>3. AtSettings /\ ~Saving' /\ ~settings.error
      BY <1>2, <1>3, <2>0, <2>4 DEF AtSettings, Saving, Unsettled, SettingsInv
    <3> QED  BY <3>2, <3>3 DEF SettingsInv
  <2>5. CASE BackInApplications /\ ~On("SettingsReview")
    <3>1. On("Settings") /\ stack' = Closed  BY <2>5 DEF BackInApplications
    <3>2. \A z : On(z)' => Upon(z, "Settings")  BY <1>1, <3>1, NewTop
    <3>3. ~AtSettings' /\ ~On("SettingsReview")'  BY <3>2 DEF AtSettings, Upon
    <3>4. ~Saving'  BY <1>2, <2>0, <3>1 DEF On, Elsewhere, Saving, Unsettled
    <3> QED  BY <3>3, <3>4 DEF SettingsInv
  <2>6. CASE On("SettingsReview") /\ HashConfig /\ UNCHANGED stack
    <3>1. settings.plan \in SavePlans /\ settings.plan # Nothing  BY <1>1, <2>6 DEF HashConfig, AllSettings
    <3>2. settings' = [settings EXCEPT !.plan.hash = config]  BY <2>6 DEF HashConfig
    <3>3. /\ settings'.plan.new = settings.plan.new /\ settings'.plan.read = settings.plan.read
          /\ settings'.sel = settings.sel /\ settings'.returned = settings.returned
          /\ settings'.touched = settings.touched
          /\ settings'.before = settings.before /\ settings'.disc = settings.disc
          /\ settings'.error = settings.error
      BY <1>1, <3>1, <3>2 DEF AllSettings, SavePlans
    <3>4. AtSettings /\ ~Saving'  BY <1>2, <1>3, <2>0, <2>6 DEF AtSettings, Saving, Unsettled
    <3>5. (On("SettingsReview")' => On("SettingsReview")) /\ ~settings.error  BY <2>6 DEF On, SettingsInv
    <3> QED  BY <3>1, <3>3, <3>4, <3>5 DEF SettingsInv, Untouched
  <2> QED  BY <1>9, <2>1, <2>2, <2>3, <2>4, <2>5, <2>6 DEF SettingsScreens
<1> QED  BY <1>4, <1>5, <1>6, <1>7, <1>8, <1>9, SettingsSteps

(* The screens and the settings session at the start.                            *)
LEMMA ScreensInit ==
    ASSUME Init  PROVE ScreenInv /\ SettingsInv
<1>1. stack = <<>> /\ op = NoOp /\ session.on = FALSE  BY DEF Init, NoSession
<1>2. op.plan = Nothing /\ ~Unsettled  BY <1>1 DEF NoOp, Unsettled
<1>3. Chain(stack) /\ ~Stands(stack, "ReviewPull")  BY <1>1, HomeChain
<1>4. \A x : ~On(x)  BY <1>1 DEF On
<1> QED  BY <1>1, <1>2, <1>3, <1>4 DEF ScreenInv, SettingsInv, AtSettings, Saving

(* The screens are in order, and what Applications keeps is in agreement, always.  *)
THEOREM ScreensHold == Spec => [](TerminalInv /\ ScreenInv /\ SettingsInv)
<1>1. Init => TerminalInv /\ ScreenInv /\ SettingsInv  BY InitHolds, ScreensInit
<1>2. TerminalInv /\ ScreenInv /\ SettingsInv /\ [Next]_vars => (TerminalInv /\ ScreenInv /\ SettingsInv)'
  <2>1. ASSUME TerminalInv, ScreenInv, SettingsInv, Next  PROVE (TerminalInv /\ ScreenInv /\ SettingsInv)'
    <3>1. Types /\ RunInv  BY <2>1 DEF TerminalInv
    <3> QED  BY <2>1, <3>1, TypesStep, RunStep, ScreenStep, SettingsStep DEF TerminalInv
  <2>2. ASSUME TerminalInv, ScreenInv, SettingsInv, UNCHANGED vars
        PROVE  (TerminalInv /\ ScreenInv /\ SettingsInv)'
    <3>1. UNCHANGED <<dict, config, op, edits, settings, stack, session, offer>>
      BY <2>2 DEF vars, ui, folder, files
    <3>2. ScreenInv'  BY <2>2, <3>1 DEF ScreenInv, Covered, On
    <3>3. SettingsInv'
      BY <2>2, <3>1 DEF SettingsInv, Untouched, AtSettings, Saving, Unsettled, On
    <3> QED  BY <2>2, <3>2, <3>3, StutterStep
  <2> QED  BY <2>1, <2>2
<1> QED  BY <1>1, <1>2, PTL DEF Spec

(* A Review session does not outlive its screens (close_review_session of the     *)
(* controller is called on every way out of them).                              *)
THEOREM ReviewEndsHolds == Spec => []ReviewEnds
<1>1. TerminalInv /\ ScreenInv /\ SettingsInv => ReviewEnds
  <2> SUFFICES ASSUME TerminalInv, ScreenInv, session.on  PROVE \E i \in DOMAIN stack : stack[i] = "ReviewPull"
    BY DEF ReviewEnds
  <2>1. stack \in Seq(AllScreens)  BY DEF TerminalInv, Types, UiTypes
  <2>2. PICK k \in 1 .. Len(stack) : stack[k] = "ReviewPull"  BY DEF ScreenInv, Stands
  <2> QED  BY <2>1, <2>2
<1> QED  BY <1>1, ScreensHold, PTL

(* Saving Applications gives what the user did not switch the setting the review   *)
(* read, whatever was found, lost or edited since the screen was opened            *)
(* (resolve_enabled_targets keeps what cannot be switched), but for what came back *)
(* and what was changed in the file between the two readings.                      *)
THEOREM UntouchedStayHolds == Spec => UntouchedStay
<1> DEFINE A == At("targets", "write") /\ config' # config /\ edits' = edits =>
                    \A f \in Family \ settings.touched :
                       \/ f \in config'.enabled <=> f \in op.plan.read.enabled
                       \/ f \in settings.returned
                       \/ ~(f \in settings.before <=> f \in op.plan.read.enabled)
<1>1. TerminalInv /\ ScreenInv /\ SettingsInv /\ [Next]_vars => [A]_vars
  <2> SUFFICES ASSUME TerminalInv, SettingsInv, Next, At("targets", "write"), config' # config,
                      edits' = edits, NEW f \in Family \ settings.touched
               PROVE  \/ f \in config'.enabled <=> f \in op.plan.read.enabled
                      \/ f \in settings.returned
                      \/ ~(f \in settings.before <=> f \in op.plan.read.enabled)
    BY DEF vars, folder, files
  <2>1. Saving /\ Unsettled /\ op.kind = "targets" /\ op.phase = "write"  BY DEF At, Saving, Unsettled
  <2>2. CASE Worker
    <3>1. SaveStep
      BY <2>1, <2>2 DEF Worker, WorkPull, WorkPush, WorkRecover, WorkDiscard, SetupStep, SetupChecks, SetupLocks,
         SetupCreates, SetupBreaksOff, SetupEnds, SetupUndoes, SetupIsUndone, At
    <3>2. config' = op.plan.new
      BY <2>1, <3>1 DEF SaveStep, SaveChecks, SaveLocks, SaveWrites, SaveVerifies, Stays, files, At
    <3>3. Untouched(f) /\ settings.plan = op.plan  BY <2>1 DEF SettingsInv
    <3> QED  BY <3>2, <3>3 DEF Untouched
  <2>3. CASE Others
    <3>1. edits' = edits + 1  BY <2>3 DEF Others, EditList, EditDict, EditConfig, Edits
    <3>2. edits \in Nat  BY ProjectAssumption DEF TerminalInv, Types, FileTypes
    <3> QED  BY <3>1, <3>2
  <2>4. Types  BY DEF TerminalInv
  <2>5. CASE Rests \/ Starts \/ Settles \/ Leaves \/ OperationEnds \/ Stop
    <3>1. UNCHANGED config  BY <2>5 DEF Rests, Starts, Settles, Leaves, OperationEnds, Stop, folder, files
    <3> QED  BY <3>1
  <2>6. CASE Writes  BY <2>6 DEF Writes, SaveWord
  <2> QED  BY <2>2, <2>3, <2>4, <2>5, <2>6, FolderMoves
<1> HIDE DEF A
<1>2. Spec => [][A]_vars  BY <1>1, ScreensHold, PTL DEF Spec
<1> QED  BY <1>2 DEF UntouchedStay, A

-----------------------------------------------------------------------------
(* Collect and update are of previews made after the last change.             *)

(* No thread has a screen that waits for it.                                    *)
Silent(ld) == \A i \in Slot : ~ld[i].live /\ ld[i].phase # "got"

(* A thread that a screen waits for is the only one, its screen is on top and   *)
(* shows nothing yet, and what it has read has not been changed since.          *)
LoadInv ==
    /\ \A i \in Slot : load[i].phase = "got" => load[i].live
    /\ \A i \in Slot : load[i].live =>
          /\ load[i].for \in {"Pull", "Preview", "ReviewPush"} /\ On(load[i].for)
          /\ IF load[i].for = "Pull" THEN pull.shown = Nothing ELSE push.shown = Nothing
          /\ load[i].phase \in {"set", "got"} => load[i].got.at = changes
          /\ \A j \in Slot \ {i} : ~load[j].live

(* The screen x of collect is on top, or will be when the update on it is closed. *)
Asking(x) == On(x) \/ (Under(x) /\ (On("Preview") \/ On("ReviewPush")))

(* What collect and update show was made after the last change of this terminal;  *)
(* collect loads anew when the user comes back from Add words.                    *)
CollectFresh ==
    \A x \in {"Pull", "ReviewPull"} :
        /\ Asking(x) /\ pull.shown # Nothing /\ ~pull.refresh => pull.shown.at = changes
        /\ On("AddWords") /\ Under(x) => pull.refresh
UpdateFresh == On("Preview") \/ On("ReviewPush") => push.shown = Nothing \/ push.shown.at = changes

FreshInv == LoadInv /\ CollectFresh /\ UpdateFresh

(* The two screens on top after one is opened, put in place of another, or closed. *)
LEMMA Tops ==
    ASSUME stack \in Seq(AllScreens), Chain(stack), NEW x, On(x)
    PROVE  /\ \A z : On(z) => z = x
           /\ \A y \in AllScreens : stack' = Opened(y) =>
                  On(y)' /\ (\A z : On(z)' => z = y) /\ (\A z : Under(z)' => z = x)
           /\ \A y \in AllScreens : stack' = Append(Closed, y) =>
                  On(y)' /\ (\A z : On(z)' => z = y) /\ (\A z : Under(z)' => Under(z))
           /\ x \notin {"Dashboard", "SetupWelcome"} /\ stack' = Closed =>
                  \A z : On(z)' => Upon(z, x) /\ Under(z)
<1>1. stack # <<>> /\ Len(stack) \in Nat \ {0} /\ stack[Len(stack)] = x  BY OnTop
<1>2. \A z : On(z) => z = x  BY <1>1 DEF On, Last
<1>3. ASSUME NEW y \in AllScreens, stack' = Opened(y)
      PROVE  On(y)' /\ (\A z : On(z)' => z = y) /\ (\A z : Under(z)' => z = x)
  <2>1. /\ stack' \in Seq(AllScreens) /\ Len(stack') = Len(stack) + 1 /\ stack'[Len(stack) + 1] = y
        /\ \A i \in 1 .. Len(stack) : stack'[i] = stack[i]
    BY <1>3, StackTyped
  <2>2. stack' # <<>> /\ Len(stack') - 1 = Len(stack) /\ stack'[Len(stack)] = x  BY <1>1, <2>1
  <2> QED  BY <2>1, <2>2 DEF On, Under, Last
<1>4. ASSUME NEW y \in AllScreens, stack' = Append(Closed, y)
      PROVE  On(y)' /\ (\A z : On(z)' => z = y) /\ (\A z : Under(z)' => Under(z))
  <2>1. /\ stack' \in Seq(AllScreens) /\ Len(stack') = Len(stack) /\ stack'[Len(stack)] = y
        /\ \A i \in 1 .. Len(stack) - 1 : stack'[i] = stack[i]
    BY <1>1, <1>4, InPlace
  <2>2. On(y)' /\ (\A z : On(z)' => z = y)  BY <1>1, <2>1 DEF On, Last
  <2>3. ASSUME NEW z, Under(z)'  PROVE Under(z)
    <3>1. Len(stack) - 1 \in 1 .. Len(stack) - 1 /\ Len(stack) > 1  BY <1>1, <2>1, <2>3 DEF Under
    <3> QED  BY <2>1, <2>3, <3>1 DEF Under
  <2> QED  BY <2>2, <2>3
<1>5. ASSUME x \notin {"Dashboard", "SetupWelcome"}, stack' = Closed, NEW z, On(z)'
      PROVE  Upon(z, x) /\ Under(z)
  <2>1. Len(stack) > 1 /\ Upon(stack[Len(stack) - 1], x)  BY <1>5, OnTop
  <2>2. /\ Len(stack') = Len(stack) - 1 /\ \A i \in 1 .. Len(stack) - 1 : stack'[i] = stack[i]
        /\ Len(stack) - 1 \in 1 .. Len(stack) - 1
    BY <1>1, <1>5, <2>1, StackTyped DEF AllScreens
  <2>3. z = stack[Len(stack) - 1]  BY <1>5, <2>2 DEF On, Last
  <2> QED  BY <2>1, <2>3 DEF Under
<1> QED  BY <1>2, <1>3, <1>4, <1>5

(* When a screen is closed, none is waited for.                                   *)
LEMMA LeaveSilent ==
    ASSUME NEW ld, NEW screens, \A i \in Slot : ld[i].phase = "got" => ld[i].live,
           \A i \in Slot : ld[i].live => ld[i].for \in screens
    PROVE  Silent(Leave(ld, screens))
<1> SUFFICES ASSUME NEW i \in Slot
             PROVE  ~Leave(ld, screens)[i].live /\ Leave(ld, screens)[i].phase # "got"
  BY DEF Silent
<1>1. ld[i].phase = "got" => ld[i].live  OBVIOUS
<1>2. Idle.live = FALSE /\ Idle.phase = "idle"  BY DEF Idle
<1>3. CASE ld[i].for \notin screens
  <2>1. Leave(ld, screens)[i] = ld[i]  BY <1>3 DEF Leave
  <2> QED  BY <1>1, <1>3, <2>1
<1>4. CASE ld[i].for \in screens /\ ld[i].for = "ReviewPush" /\ ld[i].phase # "got"
  <2>1. Leave(ld, screens)[i] = [ld[i] EXCEPT !.live = FALSE]  BY <1>4 DEF Leave
  <2> QED  BY <1>4, <2>1
<1>5. CASE ld[i].for \in screens /\ ~(ld[i].for = "ReviewPush" /\ ld[i].phase # "got")
  <2>1. Leave(ld, screens)[i] = Idle  BY <1>5 DEF Leave
  <2> QED  BY <1>2, <2>1
<1> QED  BY <1>3, <1>4, <1>5

(* A thread nobody waits for stays one.                                          *)
LEMMA StaysSilent ==
    ASSUME NEW ld, NEW screens, Silent(ld)  PROVE Silent(Leave(ld, screens))
<1>1. /\ \A i \in Slot : ld[i].phase = "got" => ld[i].live
      /\ \A i \in Slot : ld[i].live => ld[i].for \in screens
  BY DEF Silent
<1> QED  BY <1>1, LeaveSilent

(* The thread a screen has just begun is the only one that is waited for.         *)
LEMMA BeginLoads ==
    ASSUME load \in [Slot -> Loads], NEW ld \in [Slot -> Loads], Idle \in Loads, NEW screen \in {"Pull", "Preview", "ReviewPush"},
           Silent(Leave(ld, {screen})), load' = Begin(ld, screen),
           On(screen)', IF screen = "Pull" THEN pull'.shown = Nothing ELSE push'.shown = Nothing
    PROVE  LoadInv'
<1> DEFINE rest == Leave(ld, {screen})
           new  == [Idle EXCEPT !.for = screen, !.phase = "start", !.live = TRUE]
<1>1. \A i \in Slot : ~rest[i].live /\ rest[i].phase # "got"  BY DEF Silent
<1>2. rest \in [Slot -> Loads]  BY LoadsTyped
<1>3. load' = [rest EXCEPT ![Min(Free)] = new]  BY DEF Begin
<1>4. new.for = screen /\ new.phase = "start" /\ new.live = TRUE  BY DEF Idle
<1>5. PICK m : m = Min(Free)  OBVIOUS
<1> HIDE DEF rest, new
<1>6. \A i \in Slot : i # m => load'[i] = rest[i]  BY <1>2, <1>3, <1>5
<1>7. m \in Slot => load'[m] = new  BY <1>2, <1>3, <1>5
<1>8. \A i \in Slot : load'[i].phase # "got"  BY <1>1, <1>4, <1>6, <1>7
<1>9. \A i \in Slot : load'[i].live => i = m /\ load'[i] = new  BY <1>1, <1>6, <1>7
<1> QED  BY <1>4, <1>8, <1>9 DEF LoadInv

(* Steps that leave previews and screens as they are, and steps after which no     *)
(* screen of collect, update or Add words is on top and no thread is waited for.   *)
Asks == {"Pull", "ReviewPull", "Preview", "ReviewPush", "AddWords"}
Kept == /\ UNCHANGED <<stack, changes, load>> /\ push'.shown = push.shown
        /\ pull'.shown = pull.shown /\ pull'.refresh = pull.refresh
Gone == (\A z : On(z)' => z \notin Asks) /\ Silent(load')
Alone == \/ OpenPull \/ OpenPreview \/ RefreshPull \/ RefreshPreview \/ ClosePreview \/ PullNext
         \/ ResumePull \/ OpenAddWords \/ (\E w \in Word : SaveWord(w)) \/ CloseAddWords
         \/ AddWordsNext \/ StartReview \/ SkipCollect \/ ReviewUpdate \/ CloseReviewPush
         \/ ReportNext \/ ReportRebuild

(* Every other step is one of those.                                              *)
LEMMA PreviewMoves ==
    ASSUME Types, RunInv, ScreenInv, LoadInv, Next
    PROVE  Kept \/ Gone \/ LoadStep \/ Alone
<1> DEFINE G == Kept \/ Gone \/ LoadStep \/ Alone
<1>s. stack \in Seq(AllScreens) /\ Chain(stack) /\ mutation \in BOOLEAN /\ (mutation <=> Unsettled)
  BY DEF Types, UiTypes, ScreenInv, RunInv
<1>e. Unsettled => ~Elsewhere  BY <1>s, CoveredNotElsewhere DEF RunInv
<1>w. \A x : On(x) => \A i \in Slot : load[i].live => load[i].for = x
  BY DEF LoadInv, On
<1>q. \A x : On(x) /\ x \notin {"Pull", "Preview", "ReviewPush"} => Silent(load)
  BY <1>w DEF LoadInv, Silent
<1>p. \/ On("Pull") /\ pull.shown # Nothing
      \/ (On("Preview") \/ On("ReviewPush")) /\ push.shown # Nothing
      => Silent(load)
  BY <1>w DEF LoadInv, Silent
<1>z. stack = <<>> => Silent(load)  BY DEF LoadInv, Silent, On
<1>l. Silent(Leave(load, {"Pull", "Preview", "ReviewPush"}))
  <2>1. \A i \in Slot : load[i].live => load[i].for \in {"Pull", "Preview", "ReviewPush"}  BY DEF LoadInv
  <2> QED  BY <2>1, LeaveSilent DEF LoadInv
<1>o. ASSUME NEW x, On(x), NEW y \in AllScreens \ Asks, stack' = Opened(y), Silent(load')  PROVE Gone
  <2>1. \A z : On(z)' => z = y  BY <1>s, <1>o, Tops
  <2> QED  BY <1>o, <2>1 DEF Gone
<1>c. ASSUME NEW x \in {"Busy", "Recovery", "Pull", "ReviewStart", "ReviewPull", "SetupWordlist", "SetupTargets",
                        "SetupPreview", "Settings", "SettingsReview"},
             On(x), stack' = Closed, Silent(load')
      PROVE  Gone
  <2>1. \A z : On(z)' => Upon(z, x)  BY <1>s, <1>c, Tops
  <2> QED  BY <1>c, <2>1 DEF Gone, Upon, Asks
<1>h. ASSUME stack' \in {<<>>, <<"SetupWelcome">>, Home, Home \o <<>>, Home \o <<"FirstWin">>}, Silent(load')
      PROVE  Gone
  <2>1. stack' \in {<<>>, <<"SetupWelcome">>, <<"Dashboard">>, <<"Dashboard", "FirstWin">>}
    BY <1>h, HomeIs DEF Home
  <2>2. ASSUME NEW z, On(z)'  PROVE z \in {"SetupWelcome", "Dashboard", "FirstWin"}
    <3>1. stack' # <<>> /\ z = stack'[Len(stack')]  BY <2>2 DEF On, Last
    <3>2. CASE stack' \in {<<"SetupWelcome">>, <<"Dashboard">>}  BY <3>1, <3>2
    <3>3. CASE stack' = <<"Dashboard", "FirstWin">>  BY <3>1, <3>3
    <3> QED  BY <2>1, <3>1, <3>2, <3>3
  <2> QED  BY <1>h, <2>2 DEF Gone, Asks
<1> SUFFICES G  OBVIOUS
<1> HIDE DEF G
<1>1. ASSUME Launch  PROVE G
  <2>1. stack = <<>> /\ load' = load /\ stack' \in {Home, <<"SetupWelcome">>}
    BY <1>1 DEF Launch, NeedsSetup, Still, Unseen, folder
  <2>2. Silent(load)  BY <1>z, <2>1
  <2> QED  BY <1>h, <2>1, <2>2 DEF G
<1>2. ASSUME Stop  PROVE G
  <2>1. stack' = <<>> /\ load' = [i \in Slot |-> Idle]  BY <1>2 DEF Stop
  <2>2. Silent(load')  BY <2>1 DEF Silent, Idle
  <2> QED  BY <1>h, <2>1, <2>2 DEF G
<1>3. ASSUME Worker  PROVE G
  <2>1. Unsettled /\ UNCHANGED <<stack, load>>
    BY <1>3, WorkerTyped DEF GoesOn, Unsettled, ui
  <2>2. \A z : On(z)' => On(z)  BY <2>1 DEF On
  <2>3. \A z : On(z) => z \in {"Operation", "Busy"}  BY <1>e, <2>1 DEF Elsewhere, On
  <2>4. Silent(load)  BY <1>q, <1>e, <2>1 DEF Elsewhere, On
  <2> QED  BY <2>1, <2>2, <2>3, <2>4 DEF Gone, Silent, Asks, G
<1>4. ASSUME Others  PROVE G
  BY <1>4 DEF Others, EditList, EditDict, EditConfig, Edits, ui, Kept, G
<1>5. ASSUME OperationEnds  PROVE G
  BY <1>5 DEF OperationEnds, Types, UiTypes, Pulls, Pushes, Kept, G
<1>6. ASSUME NEW i \in Slot, LoadReads(i)  PROVE G
  BY <1>6 DEF G, LoadStep, Alone
<1>7. ASSUME NEW i \in Slot, LoadSets(i)  PROVE G
  BY <1>7 DEF G, LoadStep, Alone
<1>8. ASSUME NEW i \in Slot, LoadArrives(i)  PROVE G
  BY <1>8 DEF G, LoadStep, Alone
<1>9. ASSUME NEW i \in Slot, LoadFails(i)  PROVE G
  BY <1>9 DEF G, LoadStep, Alone
<1>10. ASSUME CloseBusy  PROVE G
  <2>1. On("Busy") /\ stack' = Closed /\ load' = load  BY <1>10 DEF CloseBusy, Still
  <2>2. Silent(load)  BY <1>q, <2>1
  <2> QED  BY <1>c, <2>1, <2>2 DEF G
<1>11. ASSUME DismissReview  PROVE G
  <2>1. On("Operation") /\ load' = load
    BY <1>11 DEF DismissReview, Reports, Record
  <2>2. PICK y \in {"ReviewPullComplete", "SessionReport"} : stack' = Append(Closed, y)
    BY <1>11 DEF DismissReview, Reports, Record
  <2>3. Silent(load)  BY <1>q, <2>1
  <2>4. \A z : On(z)' => z = y  BY <1>s, <2>1, <2>2, Tops DEF AllScreens
  <2> QED  BY <2>1, <2>3, <2>4 DEF G, Gone, Silent, Asks
<1>12. ASSUME Dismiss  PROVE G
  <2>1. On("Operation") /\ stack' = Opened("Report") /\ load' = load
    BY <1>12 DEF Dismiss, Reported, folder
  <2>2. Silent(load)  BY <1>q, <2>1
  <2> QED  BY <1>o, <2>1, <2>2 DEF AllScreens, Asks, G
<1>13. ASSUME OpenPull  PROVE G
  BY <1>13 DEF G, LoadStep, Alone
<1>14. ASSUME OpenPreview  PROVE G
  BY <1>14 DEF G, LoadStep, Alone
<1>15. ASSUME RefreshPull  PROVE G
  BY <1>15 DEF G, LoadStep, Alone
<1>16. ASSUME RefreshPreview  PROVE G
  BY <1>16 DEF G, LoadStep, Alone
<1>17. ASSUME RunPull  PROVE G
  <2>1. On("Pull") /\ load' = load /\ pull.shown # Nothing
    BY <1>17 DEF RunPull, StartPull, OnlyBegins, Collectable, Collecting
  <2>2. PICK y \in {"Operation", "Busy"} : stack' = Opened(y)
    BY <1>17 DEF RunPull, StartPull, OnlyBegins, Begins
  <2>3. Silent(load)  BY <1>p, <2>1
  <2> QED  BY <1>o, <2>1, <2>2, <2>3 DEF AllScreens, Asks, G
<1>18. ASSUME RunPush  PROVE G
  <2>1. On("Preview") /\ load' = load /\ push.shown # Nothing
    BY <1>18 DEF RunPush, StartPush, OnlyBegins, Updatable
  <2>2. PICK y \in {"Operation", "Busy"} : stack' = Opened(y)
    BY <1>18 DEF RunPush, StartPush, OnlyBegins, Begins
  <2>3. Silent(load)  BY <1>p, <2>1
  <2> QED  BY <1>o, <2>1, <2>2, <2>3 DEF AllScreens, Asks, G
<1>19. ASSUME ClosePull  PROVE G
  <2>1. On("Pull") /\ stack' = Closed /\ load' = Leave(load, {"Pull"})  BY <1>19 DEF ClosePull, Still
  <2>2. \A i \in Slot : load[i].live => load[i].for \in {"Pull"}  BY <1>w, <2>1
  <2>3. Silent(load')  BY <2>1, <2>2, LeaveSilent DEF LoadInv
  <2> QED  BY <1>c, <2>1, <2>3 DEF G
<1>20. ASSUME ClosePreview  PROVE G
  BY <1>20 DEF G, LoadStep, Alone
<1>21. ASSUME PullNext  PROVE G
  BY <1>21 DEF G, LoadStep, Alone
<1>22. ASSUME ResumePull  PROVE G
  BY <1>22 DEF G, LoadStep, Alone
<1>23. ASSUME OpenAddWords  PROVE G
  BY <1>23 DEF G, LoadStep, Alone
<1>24. ASSUME NEW w \in Word, SaveWord(w)  PROVE G
  BY <1>24 DEF G, LoadStep, Alone
<1>25. ASSUME CloseAddWords  PROVE G
  BY <1>25 DEF G, LoadStep, Alone
<1>26. ASSUME AddWordsNext  PROVE G
  BY <1>26 DEF G, LoadStep, Alone
<1>27. ASSUME RefreshDashboard  PROVE G
  BY <1>27 DEF RefreshDashboard, Still, folder, Kept, G
<1>28. ASSUME OpenReview  PROVE G
  <2>1. stack' = Opened("ReviewStart") /\ load' = load
    BY <1>28 DEF OpenReview, Enter, Entered, Unmoved, Still, Steady
  <2>2. PICK x \in {"Dashboard", "FirstWin"} : On(x)  BY <1>28 DEF OpenReview, Enter, Entered
  <2>3. Silent(load)  BY <1>q, <2>2
  <2> QED  BY <1>o, <2>1, <2>2, <2>3 DEF AllScreens, Asks, G
<1>29. ASSUME StartReview  PROVE G
  BY <1>29 DEF G, LoadStep, Alone
<1>30. ASSUME LeaveReview  PROVE G
  <2>1. stack' = Closed /\ load' = load  BY <1>30 DEF LeaveReview, Unmoved, Still, Steady
  <2>2. PICK x \in {"ReviewStart", "ReviewPull"} : On(x)  BY <1>30 DEF LeaveReview
  <2>3. Silent(load)  BY <1>q, <2>2
  <2> QED  BY <1>c, <2>1, <2>2, <2>3 DEF G
<1>31. ASSUME ReviewRunPull  PROVE G
  <2>1. On("ReviewPull") /\ load' = load
    BY <1>31 DEF ReviewRunPull, StartPull, OnlyBegins
  <2>2. PICK y \in {"Operation", "Busy"} : stack' = Opened(y)
    BY <1>31 DEF ReviewRunPull, StartPull, OnlyBegins, Begins
  <2>3. Silent(load)  BY <1>q, <2>1
  <2> QED  BY <1>o, <2>1, <2>2, <2>3 DEF AllScreens, Asks, G
<1>32. ASSUME SkipCollect  PROVE G
  BY <1>32 DEF G, LoadStep, Alone
<1>33. ASSUME ReviewUpdate  PROVE G
  BY <1>33 DEF G, LoadStep, Alone
<1>34. ASSUME ReviewRunPush  PROVE G
  <2>1. On("ReviewPush") /\ load' = load /\ push.shown # Nothing
    BY <1>34 DEF ReviewRunPush, ReviewUpdatable, StartPush, OnlyBegins, Updatable
  <2>2. PICK y \in {"Operation", "Busy"} : stack' = Opened(y)
    BY <1>34 DEF ReviewRunPush, ReviewUpdatable, StartPush, OnlyBegins, Begins
  <2>3. Silent(load)  BY <1>p, <2>1
  <2> QED  BY <1>o, <2>1, <2>2, <2>3 DEF AllScreens, Asks, G
<1>35. ASSUME CloseReviewPush  PROVE G
  BY <1>35 DEF G, LoadStep, Alone
<1>36. ASSUME FinishReview  PROVE G
  <2>1. On("ReviewPush") /\ stack' = Opened("SessionReport") /\ load' = load
    BY <1>36 DEF FinishReview, CanFinish, Reports, Record, Unmoved, Still, Steady
  <2>2. \A i \in Slot : load[i].live => load[i].for = "ReviewPush"  BY <1>w, <2>1
  <2>3. Silent(load)  BY <1>36, <2>2 DEF FinishReview, CanFinish, Waiting, Silent, LoadInv
  <2> QED  BY <1>o, <2>1, <2>3 DEF AllScreens, Asks, G
<1>37. ASSUME EndReview  PROVE G
  <2>1. On("SessionReport") /\ load' = Leave(load, {"Pull", "Preview", "ReviewPush"})
        /\ stack' \in {Home \o <<>>, Home \o <<"FirstWin">>}
    BY <1>37 DEF EndReview, Homewards, Still, Closing
  <2>2. Silent(load')  BY <1>l, <2>1
  <2> QED  BY <1>h, <2>1, <2>2 DEF G
<1>38. ASSUME ReportHome  PROVE G
  <2>1. On("Report") /\ load' = Leave(load, {"Pull", "Preview", "ReviewPush"})
        /\ stack' \in {Home \o <<>>, Home \o <<"FirstWin">>}
    BY <1>38 DEF ReportHome, LeaveReport, Homewards, Closing
  <2>2. Silent(load')  BY <1>l, <2>1
  <2> QED  BY <1>h, <2>1, <2>2 DEF G
<1>39. ASSUME ReportNext  PROVE G
  BY <1>39 DEF G, LoadStep, Alone
<1>40. ASSUME ReportRebuild  PROVE G
  BY <1>40 DEF G, LoadStep, Alone
<1>41. ASSUME InspectRecovery  PROVE G
  <2>1. load' = load /\ UNCHANGED <<changes, pull, push>>  BY <1>41 DEF InspectRecovery, Still, folder
  <2>2. CASE On("Dashboard") /\ stack' = Opened("Recovery")
    <3>1. Silent(load)  BY <1>q, <2>2
    <3> QED  BY <1>o, <2>1, <2>2, <3>1 DEF AllScreens, Asks, G
  <2>3. CASE UNCHANGED stack  BY <2>1, <2>3 DEF Kept, G
  <2> QED  BY <1>41, <2>2, <2>3 DEF InspectRecovery
<1>42. ASSUME RunRecovery  PROVE G
  <2>1. On("Recovery") /\ load' = load
    BY <1>42 DEF RunRecovery, Pressed, Offered, StartRecovery, OnlyBegins
  <2>2. PICK y \in {"Operation", "Busy"} : stack' = Opened(y)
    BY <1>42 DEF RunRecovery, Pressed, Offered, StartRecovery, OnlyBegins, Begins
  <2>3. Silent(load)  BY <1>q, <2>1
  <2> QED  BY <1>o, <2>1, <2>2, <2>3 DEF AllScreens, Asks, G
<1>43. ASSUME CloseRecovery  PROVE G
  <2>1. On("Recovery") /\ stack' = Closed /\ load' = load  BY <1>43 DEF CloseRecovery, Still
  <2>2. Silent(load)  BY <1>q, <2>1
  <2> QED  BY <1>c, <2>1, <2>2 DEF G
<1>44. ASSUME SetupScreens  PROVE G
  <2>1. load' = load /\ UNCHANGED <<changes, pull, push>>  BY <1>44 DEF SetupScreens, Unseen, folder
  <2>2. CASE BeginSetup
    <3>1. On("SetupWelcome") /\ stack' = Opened("SetupWordlist")  BY <2>2 DEF BeginSetup
    <3> QED  BY <1>o, <1>q, <2>1, <3>1 DEF AllScreens, Asks, G
  <2>3. CASE ChooseFolder
    <3>1. On("SetupWordlist") /\ stack' = Opened("SetupTargets")  BY <2>3 DEF ChooseFolder
    <3> QED  BY <1>o, <1>q, <2>1, <3>1 DEF AllScreens, Asks, G
  <2>4. CASE ChooseApps  BY <2>1, <2>4 DEF ChooseApps, Kept, G
  <2>5. CASE ReviewSetup
    <3>1. On("SetupTargets") /\ stack' = Opened("SetupPreview")  BY <2>5 DEF ReviewSetup
    <3> QED  BY <1>o, <1>q, <2>1, <3>1 DEF AllScreens, Asks, G
  <2>6. CASE BackInSetup
    <3>1. stack' = Closed  BY <2>6 DEF BackInSetup
    <3>2. PICK x \in {"SetupWordlist", "SetupTargets", "SetupPreview"} : On(x)  BY <2>6 DEF BackInSetup
    <3> QED  BY <1>c, <1>q, <2>1, <3>1, <3>2 DEF G
  <2> QED  BY <1>44, <2>2, <2>3, <2>4, <2>5, <2>6 DEF SetupScreens
<1>45. ASSUME CreateProject  PROVE G
  <2>1. load' = load  BY <1>45 DEF CreateProject
  <2>2. PICK x \in {"SetupPreview", "Operation"} : On(x)  BY <1>45 DEF CreateProject
  <2>3. PICK y \in {"Operation", "Busy"} : stack' = Opened(y)  BY <1>45 DEF CreateProject, Begins
  <2>4. Silent(load)  BY <1>q, <2>2
  <2> QED  BY <1>o, <2>1, <2>2, <2>3, <2>4 DEF AllScreens, Asks, G
<1>46. ASSUME OpenExisting  PROVE G
  <2>1. On("SetupPreview") /\ load' = load /\ stack' = Home \o <<>>
    BY <1>46 DEF OpenExisting, Homewards
  <2>2. Silent(load)  BY <1>q, <2>1
  <2> QED  BY <1>h, <2>1, <2>2 DEF G
<1>47. ASSUME SettingsScreens  PROVE G
  <2>1. load' = load /\ UNCHANGED <<changes, pull, push>>  BY <1>47 DEF SettingsScreens, Unseen, folder
  <2>2. CASE OpenApplications
    <3>1. On("Dashboard") /\ stack' = Opened("Settings")  BY <2>2 DEF OpenApplications
    <3> QED  BY <1>o, <1>q, <2>1, <3>1 DEF AllScreens, Asks, G
  <2>3. CASE UNCHANGED stack  BY <2>1, <2>3 DEF Kept, G
  <2>4. CASE ReviewApplications
    <3>1. On("Settings") /\ stack' = Opened("SettingsReview")  BY <2>4 DEF ReviewApplications
    <3> QED  BY <1>o, <1>q, <2>1, <3>1 DEF AllScreens, Asks, G
  <2>5. CASE BackInApplications
    <3>1. stack' = Closed  BY <2>5 DEF BackInApplications
    <3>2. PICK x \in {"Settings", "SettingsReview"} : On(x)  BY <2>5 DEF BackInApplications
    <3> QED  BY <1>c, <1>q, <2>1, <3>1, <3>2 DEF G
  <2> QED  BY <1>47, <2>2, <2>3, <2>4, <2>5 DEF SettingsScreens, ChooseApplications
<1>48. ASSUME SaveSettings  PROVE G
  <2>1. On("SettingsReview") /\ load' = load
    BY <1>48 DEF SaveSettings
  <2>2. PICK y \in {"Operation", "Busy"} : stack' = Opened(y)
    BY <1>48 DEF SaveSettings, Begins
  <2>3. Silent(load)  BY <1>q, <2>1
  <2> QED  BY <1>o, <2>1, <2>2, <2>3 DEF AllScreens, Asks, G
<1> QED
  BY <1>1, <1>2, <1>3, <1>4, <1>5, <1>6, <1>7, <1>8, <1>9, <1>10, <1>11, <1>12, <1>13, <1>14,
     <1>15, <1>16, <1>17, <1>18, <1>19, <1>20, <1>21, <1>22, <1>23, <1>24, <1>25, <1>26, <1>27, <1>28,
     <1>29, <1>30, <1>31, <1>32, <1>33, <1>34, <1>35, <1>36, <1>37, <1>38, <1>39, <1>40, <1>41, <1>42,
     <1>43, <1>44, <1>45, <1>46, <1>47, <1>48
     DEF Next, User, LoadStep
(* A step of a thread keeps what is known of the previews.                         *)
LEMMA LoadKeeps ==
    ASSUME Types, FreshInv, LoadStep  PROVE FreshInv'
<1>s. /\ load \in [Slot -> Loads] /\ pull \in Pulls /\ push \in Pushes /\ changes \in Nat
      /\ \A j \in Slot : load[j] \in Loads
  BY DEF Types, UiTypes, FileTypes
<1>i. Idle.live = FALSE /\ Idle.phase = "idle"  BY DEF Idle
<1>p. Snapshot.at = changes  BY DEF Snapshot
<1>1. PICK i \in Slot : LoadReads(i) \/ LoadSets(i) \/ LoadArrives(i) \/ LoadFails(i)  BY DEF LoadStep
<1>2. UNCHANGED <<stack, changes>>
  BY <1>1 DEF LoadReads, LoadSets, LoadArrives, LoadFails, Still, folder
<1>3. \A x : (On(x)' <=> On(x)) /\ (Asking(x)' <=> Asking(x)) /\ (Under(x)' <=> Under(x))
  BY <1>2 DEF On, Asking, Under
<1>4. CASE LoadArrives(i)
  <2>1. /\ load[i].phase = "got" /\ load'[i] = Idle /\ \A j \in Slot \ {i} : load'[j] = load[j]
    BY <1>s, <1>4 DEF LoadArrives
  <2>2. /\ load[i].live /\ load[i].for \in {"Pull", "Preview", "ReviewPush"} /\ On(load[i].for)
        /\ load[i].got.at = changes /\ \A j \in Slot \ {i} : ~load[j].live
    BY <2>1 DEF FreshInv, LoadInv
  <2>3. LoadInv'  BY <1>i, <2>1, <2>2 DEF FreshInv, LoadInv
  <2>4. CASE load[i].for = "Pull"
    <3>1. push' = push /\ pull'.shown.at = changes  BY <1>s, <1>4, <2>2, <2>4 DEF LoadArrives, Pulls
    <3>2. On("Pull") /\ ~On("AddWords")  BY <2>2, <2>4 DEF On
    <3> QED  BY <1>2, <1>3, <2>3, <3>1, <3>2 DEF FreshInv, CollectFresh, UpdateFresh
  <2>5. CASE load[i].for # "Pull"
    <3>1. pull' = pull /\ push'.shown.at = changes  BY <1>4, <2>2, <2>5 DEF LoadArrives
    <3> QED  BY <1>2, <1>3, <2>3, <3>1 DEF FreshInv, CollectFresh, UpdateFresh
  <2> QED  BY <2>4, <2>5
<1>5. CASE ~LoadArrives(i)
  <2>1. pull'.shown = pull.shown /\ pull'.refresh = pull.refresh /\ push'.shown = push.shown
    BY <1>s, <1>1, <1>5 DEF LoadReads, LoadSets, LoadFails, Pulls, Pushes
  <2>2. CollectFresh' /\ UpdateFresh'  BY <1>2, <1>3, <2>1 DEF FreshInv, CollectFresh, UpdateFresh
  <2>3. \A j \in Slot \ {i} : /\ load'[j].live = load[j].live /\ load'[j].for = load[j].for
                              /\ load'[j].phase = load[j].phase /\ load'[j].got = load[j].got
    <3>1. CASE LoadReads(i)  BY <1>s, <3>1 DEF LoadReads, Overtaken, Loads
    <3>2. CASE LoadSets(i)  BY <1>s, <3>2 DEF LoadSets, Overtaken, Loads
    <3>3. CASE LoadFails(i)  BY <1>s, <3>3 DEF LoadFails
    <3> QED  BY <1>1, <1>5, <3>1, <3>2, <3>3
  <2>4. \/ load'[i] = Idle
        \/ /\ load'[i].live = load[i].live /\ load'[i].for = load[i].for
           /\ \/ load'[i].phase = "set" /\ load'[i].got = Snapshot
              \/ load'[i].phase = "got" /\ load[i].phase = "set" /\ load[i].live /\ load'[i].got = load[i].got
    <3>1. CASE LoadReads(i)
      <4>1. /\ load'[i].live = load[i].live /\ load'[i].for = load[i].for
            /\ load'[i].phase = "set" /\ load'[i].got = Snapshot
        BY <1>s, <3>1 DEF LoadReads, Overtaken, Loads
      <4> QED  BY <4>1
    <3>2. CASE LoadSets(i)
      <4>1. load[i].phase = "set"
            /\ load'[i] = (IF load[i].live THEN [load[i] EXCEPT !.phase = "got", !.latest = TRUE] ELSE Idle)
        BY <1>s, <3>2 DEF LoadSets, Overtaken
      <4> QED  BY <1>s, <4>1 DEF Loads
    <3>3. CASE LoadFails(i)  BY <1>s, <3>3 DEF LoadFails
    <3> QED  BY <1>1, <1>5, <3>1, <3>2, <3>3
  <2>5. LoadInv'
    BY <1>2, <1>3, <1>i, <1>p, <2>1, <2>3, <2>4 DEF FreshInv, LoadInv
  <2> QED  BY <2>2, <2>5 DEF FreshInv
<1> QED  BY <1>4, <1>5

(* Going on to the update, with no thread waited for.                              *)
LEMMA ContinueFresh ==
    ASSUME Types, ScreenInv, Silent(load), NEW x, On(x), NEW from \in {stack, Closed}, Continue(from)
    PROVE  /\ LoadInv' /\ push'.shown = Nothing /\ \E y \in {"Preview", "ReviewPush"} : \A z : On(z)' => z = y
           /\ from = stack => (\A z : Under(z)' => z = x)
           /\ from = Closed => (\A z : Under(z)' => Under(z))
<1>s. stack \in Seq(AllScreens) /\ Chain(stack) /\ load \in [Slot -> Loads] /\ FileTypes /\ mutation \in BOOLEAN
  BY DEF Types, UiTypes, ScreenInv
<1>1. PICK y \in {"Preview", "ReviewPush"} : stack' = Append(from, y) /\ load' = Begin(load, y)
  BY DEF Continue
<1>2. push'.shown = Nothing  BY DEF Continue, NoPush
<1>3. stack' = Opened(y) \/ stack' = Append(Closed, y)  BY <1>1 DEF Opened
<1>4. y \in AllScreens  BY DEF AllScreens
<1>5. On(y)' /\ \A z : On(z)' => z = y  BY <1>s, <1>3, <1>4, Tops
<1>6. from = stack => (\A z : Under(z)' => z = x)  BY <1>s, <1>1, <1>4, Tops DEF Opened
<1>7. from = Closed => (\A z : Under(z)' => Under(z))  BY <1>s, <1>1, <1>4, Tops
<1>8. Silent(Leave(load, {y}))  BY StaysSilent
<1>9. Idle \in Loads  BY <1>s, ScreensTyped
<1>10. LoadInv'  BY <1>s, <1>1, <1>2, <1>5, <1>8, <1>9, BeginLoads
<1> QED  BY <1>2, <1>5, <1>6, <1>7, <1>10

(* So does a step of the user on the screens of collect, update and Add words.     *)
LEMMA AloneKeeps ==
    ASSUME Types, ScreenInv, FreshInv, Alone  PROVE FreshInv'
<1>s. /\ stack \in Seq(AllScreens) /\ Chain(stack) /\ load \in [Slot -> Loads] /\ pull \in Pulls
      /\ FileTypes /\ mutation \in BOOLEAN /\ LoadInv
  BY DEF Types, UiTypes, ScreenInv, FreshInv
<1>i. Idle \in Loads  BY <1>s, ScreensTyped
<1>n. NoPull.shown = Nothing /\ NoPull.refresh = FALSE /\ NoPush.shown = Nothing  BY DEF NoPull, NoPush
<1>w. \A x : On(x) => \A i \in Slot : load[i].live => load[i].for = x
  BY <1>s DEF LoadInv, On
<1>q. \A x : On(x) /\ x \notin {"Pull", "Preview", "ReviewPush"} => Silent(load)
  BY <1>s, <1>w DEF LoadInv, Silent
<1>p. On("Pull") /\ pull.shown # Nothing => Silent(load)
  BY <1>s, <1>w DEF LoadInv, Silent
<1>l. \A x : On(x) => Silent(Leave(load, {x}))
  <2> SUFFICES ASSUME NEW x, On(x)  PROVE Silent(Leave(load, {x}))
    OBVIOUS
  <2>1. \A i \in Slot : load[i].phase = "got" => load[i].live  BY <1>s DEF LoadInv
  <2>2. \A i \in Slot : load[i].live => load[i].for \in {x}  BY <1>w
  <2> QED  BY <2>1, <2>2, LeaveSilent
<1>v. Silent(load') => LoadInv'  BY DEF Silent, LoadInv
<1>t. \A x, y : On(x) /\ On(y) => x = y  BY DEF On
<1>a. ASSUME pull'.shown = Snapshot, UNCHANGED changes, ~On("AddWords")'  PROVE CollectFresh'
  BY <1>a DEF CollectFresh, Snapshot
<1>b. ASSUME pull'.shown = Nothing, ~On("AddWords")'  PROVE CollectFresh'
  BY <1>b DEF CollectFresh
<1>c. ASSUME pull' = pull, UNCHANGED changes, ~On("AddWords")',
             \A z \in {"Pull", "ReviewPull"} : Asking(z)' => Asking(z) \/ pull.refresh
      PROVE  CollectFresh'
  BY <1>c DEF CollectFresh, FreshInv
<1>d. ASSUME ~On("Preview")', ~On("ReviewPush")'  PROVE UpdateFresh'
  BY <1>d DEF UpdateFresh
<1>e. push'.shown = Nothing => UpdateFresh'  BY DEF UpdateFresh
<1>1. CASE OpenPull
  <2>1. On("Dashboard") /\ stack' = Opened("Pull") /\ load' = load /\ UNCHANGED changes /\ pull'.shown = Snapshot
    BY <1>1 DEF OpenPull, Enter, Entered, Unmoved, Steady, Still, folder, NoPull
  <2>2. \A z : On(z)' => z = "Pull"  BY <1>s, <2>1, Tops DEF AllScreens
  <2> QED  BY <1>a, <1>d, <1>q, <1>v, <2>1, <2>2 DEF FreshInv
<1>2. CASE OpenPreview
  <2>1. /\ On("Dashboard") /\ stack' = Opened("Preview") /\ load' = Overtaken(load) /\ UNCHANGED <<changes, pull>>
        /\ push'.shown = Snapshot
    BY <1>2 DEF OpenPreview, Enter, Entered, Still, folder
  <2>2. (\A z : On(z)' => z = "Preview") /\ (\A z : Under(z)' => z = "Dashboard")
    BY <1>s, <2>1, Tops DEF AllScreens
  <2>3. Silent(load)  BY <1>q, <2>1
  <2>4. Silent(load')  BY <1>s, <2>1, <2>3 DEF Silent, Overtaken, Loads
  <2>5. CollectFresh'  BY <1>c, <2>1, <2>2 DEF Asking
  <2>6. UpdateFresh'  BY <2>1 DEF UpdateFresh, Snapshot
  <2> QED  BY <1>v, <2>4, <2>5, <2>6 DEF FreshInv
<1>3. ASSUME On("Pull"), UNCHANGED stack, load' = Begin(load, "Pull"), pull' = NoPull  PROVE FreshInv'
  <2>1. On("Pull")' /\ \A z : On(z)' => z = "Pull"  BY <1>3 DEF On
  <2>2. LoadInv'  BY <1>s, <1>i, <1>l, <1>n, <1>3, <2>1, BeginLoads
  <2> QED  BY <1>b, <1>d, <1>n, <1>3, <2>1, <2>2 DEF FreshInv
<1>4. CASE RefreshPull  BY <1>3, <1>4 DEF RefreshPull
<1>5. CASE RefreshPreview
  <2>1. /\ On("Preview") /\ UNCHANGED <<stack, pull, changes>> /\ load' = Begin(load, "Preview") /\ push' = NoPush
    BY <1>5 DEF RefreshPreview, Still, folder
  <2>2. On("Preview")' /\ (\A z : On(z)' => z = "Preview") /\ \A z : Asking(z)' => Asking(z)
    BY <2>1 DEF On, Under, Asking
  <2>3. LoadInv'  BY <1>s, <1>i, <1>l, <1>n, <2>1, <2>2, BeginLoads
  <2>4. CollectFresh'  BY <1>c, <2>1, <2>2
  <2> QED  BY <1>e, <1>n, <2>1, <2>3, <2>4 DEF FreshInv
<1>6. CASE ClosePreview \/ CloseReviewPush
  <2>1. PICK x \in {"Preview", "ReviewPush"} : On(x) /\ stack' = Closed /\ load' = Leave(load, {x})
    BY <1>6 DEF ClosePreview, CloseReviewPush
  <2>2. UNCHANGED <<changes, pull>>  BY <1>6 DEF ClosePreview, CloseReviewPush, Still, folder
  <2>3. \A z : On(z)' => Upon(z, x) /\ Under(z)  BY <1>s, <2>1, Tops
  <2>4. ~On("Preview")' /\ ~On("ReviewPush")' /\ ~On("AddWords")'  BY <2>1, <2>3 DEF Upon
  <2>5. \A z : Asking(z)' => Asking(z)  BY <2>1, <2>3, <2>4 DEF Asking
  <2> QED  BY <1>c, <1>d, <1>l, <1>v, <2>1, <2>2, <2>4, <2>5 DEF FreshInv
<1>7. CASE PullNext \/ SkipCollect
  <2>1. PICK x \in {"Pull", "ReviewPull"} : On(x)  BY <1>7 DEF PullNext, SkipCollect
  <2>2. pull.shown # Nothing /\ LeaveCollect /\ UNCHANGED changes
    BY <1>7 DEF PullNext, SkipCollect, Collecting, Still, folder
  <2>3. Silent(load)  BY <1>p, <1>q, <2>1, <2>2
  <2>4. CASE DetourFromPull
    <3>1. stack' = Opened("AddWords") /\ load' = load /\ pull'.refresh = TRUE
      BY <1>s, <2>4 DEF DetourFromPull, Pulls
    <3>2. \A z : On(z)' => z = "AddWords"  BY <1>s, <2>1, <3>1, Tops DEF AllScreens
    <3> QED  BY <1>d, <1>v, <2>3, <3>1, <3>2 DEF FreshInv, CollectFresh
  <2>5. CASE Continue(stack) /\ UNCHANGED pull
    <3>1. /\ LoadInv' /\ push'.shown = Nothing /\ \A z : Under(z)' => z = x
          /\ \E y \in {"Preview", "ReviewPush"} : \A z : On(z)' => z = y
      BY <2>1, <2>3, <2>5, ContinueFresh
    <3>2. ~On("AddWords")' /\ \A z \in {"Pull", "ReviewPull"} : Asking(z)' => Asking(z)
      BY <2>1, <3>1 DEF Asking
    <3>3. CollectFresh'  BY <1>c, <2>2, <2>5, <3>2
    <3> QED  BY <1>e, <3>1, <3>3 DEF FreshInv
  <2> QED  BY <2>2, <2>4, <2>5 DEF LeaveCollect
<1>8. CASE ResumePull
  <2>1. CASE On("Pull") /\ load' = Begin(load, "Pull") /\ pull' = NoPull
    <3>1. UNCHANGED stack  BY <1>8 DEF ResumePull
    <3> QED  BY <1>3, <2>1, <3>1
  <2>2. CASE On("ReviewPull") /\ load' = load /\ pull' = [NoPull EXCEPT !.shown = Snapshot, !.active = PullId(Snapshot)]
    <3>1. UNCHANGED <<stack, changes>> /\ pull'.shown = Snapshot  BY <1>8, <2>2 DEF ResumePull, Still, folder, NoPull
    <3>2. \A z : On(z)' => z = "ReviewPull"  BY <2>2, <3>1 DEF On
    <3> QED  BY <1>a, <1>d, <1>q, <1>v, <2>2, <3>1, <3>2 DEF FreshInv
  <2> QED  BY <1>8, <2>1, <2>2 DEF ResumePull
<1>9. CASE OpenAddWords
  <2>1. UNCHANGED <<load, changes, pull>> /\ stack' = Opened("AddWords")
    BY <1>9 DEF OpenAddWords, Enter, Entered, Still, folder
  <2>2. PICK x \in {"Dashboard", "FirstWin"} : On(x)  BY <1>9 DEF OpenAddWords, Enter, Entered
  <2>3. (\A z : On(z)' => z = "AddWords") /\ (\A z : Under(z)' => z = x)
    BY <1>s, <2>1, <2>2, Tops DEF AllScreens
  <2>4. CollectFresh'  BY <2>2, <2>3 DEF CollectFresh, Asking
  <2> QED  BY <1>d, <1>q, <1>v, <2>1, <2>2, <2>3, <2>4 DEF FreshInv
<1>10. ASSUME NEW w \in Word, SaveWord(w)  PROVE FreshInv'
  <2>1. On("AddWords") /\ UNCHANGED <<stack, load, pull>>  BY <1>10 DEF SaveWord
  <2>2. /\ \A z : On(z)' => z = "AddWords"
        /\ \A z : Under(z)' => Under(z)
    BY <2>1 DEF On, Under
  <2>3. CollectFresh'  BY <2>1, <2>2 DEF CollectFresh, Asking, FreshInv
  <2> QED  BY <1>d, <1>q, <1>v, <2>1, <2>2, <2>3 DEF FreshInv
<1>11. CASE CloseAddWords
  <2>1. stack' = Closed /\ UNCHANGED <<load, changes, pull>>  BY <1>11 DEF CloseAddWords, Still, folder
  <2>2. PICK x \in {"AddWords", "FirstWin"} : On(x)  BY <1>11 DEF CloseAddWords
  <2>3. \A z : On(z)' => Upon(z, x) /\ Under(z)  BY <1>s, <2>1, <2>2, Tops
  <2>4. ~On("Preview")' /\ ~On("ReviewPush")' /\ ~On("AddWords")'  BY <2>2, <2>3 DEF Upon
  <2>5. \A z \in {"Pull", "ReviewPull"} : Asking(z)' => pull.refresh
    BY <2>2, <2>3, <2>4 DEF Asking, Upon, CollectFresh, FreshInv
  <2> QED  BY <1>c, <1>d, <1>q, <1>v, <2>1, <2>2, <2>4, <2>5 DEF FreshInv
<1>12. CASE AddWordsNext
  <2>1. On("AddWords") /\ Continue(Closed) /\ UNCHANGED <<changes, pull>>
    BY <1>12 DEF AddWordsNext, Still, folder
  <2>2. Silent(load)  BY <1>q, <2>1
  <2>3. /\ LoadInv' /\ push'.shown = Nothing /\ \A z : Under(z)' => Under(z)
        /\ \E y \in {"Preview", "ReviewPush"} : \A z : On(z)' => z = y
    BY <2>1, <2>2, ContinueFresh
  <2>4. ~On("AddWords")' /\ \A z \in {"Pull", "ReviewPull"} : Asking(z)' => pull.refresh
    BY <2>1, <2>3 DEF Asking, CollectFresh, FreshInv
  <2>5. CollectFresh'  BY <1>c, <2>1, <2>4
  <2> QED  BY <1>e, <2>3, <2>5 DEF FreshInv
<1>13. CASE StartReview
  <2>1. /\ On("ReviewStart") /\ stack' = Append(Closed, "ReviewPull") /\ load' = load /\ UNCHANGED changes
        /\ pull'.shown = Snapshot
    BY <1>13 DEF StartReview, Unmoved, Steady, Still, folder, NoPull
  <2>2. \A z : On(z)' => z = "ReviewPull"  BY <1>s, <2>1, Tops DEF AllScreens
  <2> QED  BY <1>a, <1>d, <1>q, <1>v, <2>1, <2>2 DEF FreshInv
<1>14. CASE ReviewUpdate
  <2>1. /\ On("ReviewPullComplete") /\ stack' = Opened("ReviewPush") /\ load' = Begin(load, "ReviewPush")
        /\ push' = NoPush /\ UNCHANGED <<changes, pull>>
    BY <1>14 DEF ReviewUpdate, Still, folder
  <2>2. On("ReviewPush")' /\ (\A z : On(z)' => z = "ReviewPush") /\ (\A z : Under(z)' => z = "ReviewPullComplete")
    BY <1>s, <2>1, Tops DEF AllScreens
  <2>3. Silent(Leave(load, {"ReviewPush"}))  BY <1>q, <2>1, StaysSilent
  <2>4. LoadInv'  BY <1>s, <1>i, <1>n, <2>1, <2>2, <2>3, BeginLoads
  <2>5. CollectFresh'  BY <1>c, <2>1, <2>2 DEF Asking
  <2> QED  BY <1>e, <1>n, <2>1, <2>4, <2>5 DEF FreshInv
<1>15. CASE ReportNext
  <2>1. On("Report") /\ Continue(stack) /\ UNCHANGED <<changes, pull>>  BY <1>15 DEF ReportNext, Still, folder
  <2>2. Silent(load)  BY <1>q, <2>1
  <2>3. /\ LoadInv' /\ push'.shown = Nothing /\ \A z : Under(z)' => z = "Report"
        /\ \E y \in {"Preview", "ReviewPush"} : \A z : On(z)' => z = y
    BY <2>1, <2>2, ContinueFresh
  <2>4. CollectFresh'  BY <1>c, <2>1, <2>3 DEF Asking
  <2> QED  BY <1>e, <2>3, <2>4 DEF FreshInv
<1>16. CASE ReportRebuild
  <2>1. /\ On("Report") /\ stack' = Home \o <<"Preview">> /\ pull' = NoPull /\ push' = NoPush
        /\ load' = Begin(Closing, "Preview")
    BY <1>16 DEF ReportRebuild, RebuildOffered, Homewards
  <2>2. stack' = <<"Dashboard", "Preview">>  BY <2>1, HomeIs DEF Home
  <2>3. On("Preview")' /\ \A z : On(z)' => z = "Preview"  BY <2>2 DEF On, Last
  <2>4. Silent(Leave(Closing, {"Preview"}))  BY <1>q, <2>1, StaysSilent DEF Closing
  <2>5. Closing \in [Slot -> Loads]  BY <1>s, <1>i, LoadsTyped DEF Closing
  <2>6. LoadInv'  BY <1>s, <1>i, <1>n, <2>1, <2>3, <2>4, <2>5, BeginLoads
  <2>7. CollectFresh'  BY <1>b, <1>n, <2>1, <2>3
  <2> QED  BY <1>e, <1>n, <2>1, <2>6, <2>7 DEF FreshInv
<1> QED
  BY <1>1, <1>2, <1>4, <1>5, <1>6, <1>7, <1>8, <1>9, <1>10, <1>11, <1>12, <1>13, <1>14, <1>15, <1>16
     DEF Alone

(* What is known of the previews stays true.                                       *)
LEMMA FreshStep ==
    ASSUME Types, RunInv, ScreenInv, FreshInv, Next  PROVE FreshInv'
<1>1. CASE Kept
  <2>1. UNCHANGED <<stack, changes, load>> /\ push'.shown = push.shown /\ pull'.shown = pull.shown
        /\ pull'.refresh = pull.refresh
    BY <1>1 DEF Kept
  <2> QED  BY <2>1 DEF FreshInv, LoadInv, CollectFresh, UpdateFresh, Asking, On, Under
<1>2. CASE Gone
  <2>1. LoadInv'  BY <1>2 DEF Gone, Silent, LoadInv
  <2>2. CollectFresh' /\ UpdateFresh'  BY <1>2 DEF Gone, Asks, CollectFresh, UpdateFresh, Asking
  <2> QED  BY <2>1, <2>2 DEF FreshInv
<1> QED  BY <1>1, <1>2, PreviewMoves, LoadKeeps, AloneKeeps DEF FreshInv

(* The screens of collect and update show nothing that was made before the last    *)
(* change of this terminal.                                                        *)
THEOREM FreshHolds == Spec => [](TerminalInv /\ ScreenInv /\ FreshInv)
<1>1. Init => FreshInv
  <2> SUFFICES ASSUME Init  PROVE FreshInv
    OBVIOUS
  <2>1. stack = <<>> /\ load = [i \in Slot |-> Idle]  BY DEF Init
  <2>2. \A x : ~On(x) /\ ~Under(x)  BY <2>1 DEF On, Under
  <2>3. \A i \in Slot : ~load[i].live /\ load[i].phase # "got"  BY <2>1 DEF Idle
  <2> QED  BY <2>2, <2>3 DEF FreshInv, LoadInv, CollectFresh, UpdateFresh, Asking
<1>2. TerminalInv /\ ScreenInv /\ FreshInv /\ [Next]_vars => FreshInv'
  <2>1. ASSUME TerminalInv, ScreenInv, FreshInv, Next  PROVE FreshInv'
    BY <2>1, FreshStep DEF TerminalInv
  <2>2. ASSUME FreshInv, UNCHANGED vars  PROVE FreshInv'
    <3>1. UNCHANGED <<stack, changes, load, pull, push>>  BY <2>2 DEF vars, ui, folder
    <3> QED  BY <2>2, <3>1 DEF FreshInv, LoadInv, CollectFresh, UpdateFresh, Asking, On, Under
  <2> QED  BY <2>1, <2>2
<1> QED  BY <1>1, <1>2, ScreensHold, PTL DEF Spec

(* The confirmations of collect and update.                                        *)
Confirms == RunPull \/ RunPush \/ ReviewRunPull \/ ReviewRunPush

(* Nothing else starts a collect or an update, or any operation on the second step *)
(* of a Review session.                                                            *)
LEMMA StartsAre ==
    ASSUME Types, Next
    PROVE  \/ op' = op \/ op'.phase # "start"
           \/ op'.kind \notin {"pull", "push"} /\ ~On("ReviewPush")
           \/ Confirms
<1> DEFINE G == \/ op' = op \/ op'.phase # "start"
                \/ op'.kind \notin {"pull", "push"} /\ ~On("ReviewPush")
                \/ Confirms
<1>b. \A kind \in {"recover", "discard", "setup", "targets"} : \A plan :
         Begins(kind, plan) /\ ~On("ReviewPush") => G
  BY DEF Begins, Start, NoOp
<1>o. \A x : On(x) /\ x # "ReviewPush" => ~On("ReviewPush")  BY DEF On
<1> SUFFICES G  OBVIOUS
<1> HIDE DEF G
<1>1. ASSUME Launch  PROVE G
  BY <1>1 DEF Launch, NeedsSetup, Still, Unseen, folder, G
<1>2. ASSUME Stop  PROVE G
  BY <1>2 DEF Stop, NoOp, G
<1>3. ASSUME Worker  PROVE G
  BY <1>3, WorkerTyped DEF GoesOn, G
<1>4. ASSUME Others  PROVE G
  BY <1>4 DEF Others, EditList, EditDict, EditConfig, Edits, G
<1>5. ASSUME OperationEnds  PROVE G
  BY <1>5 DEF OperationEnds, Types, OpTypes, Ops, G
<1>6. ASSUME NEW i \in Slot, LoadReads(i)  PROVE G
  BY <1>6 DEF LoadReads, Still, folder, G
<1>7. ASSUME NEW i \in Slot, LoadSets(i)  PROVE G
  BY <1>7 DEF LoadSets, Still, folder, G
<1>8. ASSUME NEW i \in Slot, LoadArrives(i)  PROVE G
  BY <1>8 DEF LoadArrives, Still, folder, G
<1>9. ASSUME NEW i \in Slot, LoadFails(i)  PROVE G
  BY <1>9 DEF LoadFails, Still, folder, G
<1>10. ASSUME CloseBusy  PROVE G
  BY <1>10 DEF CloseBusy, Still, folder, G
<1>11. ASSUME DismissReview  PROVE G
  BY <1>11 DEF DismissReview, Reported, NoOp, G
<1>12. ASSUME Dismiss  PROVE G
  BY <1>12 DEF Dismiss, Reported, NoOp, G
<1>13. ASSUME OpenPull  PROVE G
  BY <1>13 DEF OpenPull, Enter, Entered, Unmoved, Still, Steady, folder, G
<1>14. ASSUME OpenPreview  PROVE G
  BY <1>14 DEF OpenPreview, Enter, Entered, Still, folder, G
<1>15. ASSUME RefreshPull  PROVE G
  BY <1>15 DEF RefreshPull, Still, folder, G
<1>16. ASSUME RefreshPreview  PROVE G
  BY <1>16 DEF RefreshPreview, Still, folder, G
<1>17. ASSUME RunPull  PROVE G
  BY <1>17 DEF G, Confirms
<1>18. ASSUME RunPush  PROVE G
  BY <1>18 DEF G, Confirms
<1>19. ASSUME ClosePull  PROVE G
  BY <1>19 DEF ClosePull, Still, folder, G
<1>20. ASSUME ClosePreview  PROVE G
  BY <1>20 DEF ClosePreview, Still, folder, G
<1>21. ASSUME PullNext  PROVE G
  BY <1>21 DEF PullNext, LeaveCollect, DetourFromPull, Continue, Still, Record, folder, G
<1>22. ASSUME ResumePull  PROVE G
  BY <1>22 DEF ResumePull, Still, folder, G
<1>23. ASSUME OpenAddWords  PROVE G
  BY <1>23 DEF OpenAddWords, Enter, Entered, Still, folder, G
<1>24. ASSUME NEW w \in Word, SaveWord(w)  PROVE G
  BY <1>24 DEF SaveWord, G
<1>25. ASSUME CloseAddWords  PROVE G
  BY <1>25 DEF CloseAddWords, Still, folder, G
<1>26. ASSUME AddWordsNext  PROVE G
  BY <1>26 DEF AddWordsNext, Continue, Still, Record, folder, G
<1>27. ASSUME RefreshDashboard  PROVE G
  BY <1>27 DEF RefreshDashboard, Still, folder, G
<1>28. ASSUME OpenReview  PROVE G
  BY <1>28 DEF OpenReview, Enter, Entered, Unmoved, Still, Steady, folder, G
<1>29. ASSUME StartReview  PROVE G
  BY <1>29 DEF StartReview, Unmoved, Still, Steady, folder, G
<1>30. ASSUME LeaveReview  PROVE G
  BY <1>30 DEF LeaveReview, Unmoved, Still, Steady, folder, G
<1>31. ASSUME ReviewRunPull  PROVE G
  BY <1>31 DEF G, Confirms
<1>32. ASSUME SkipCollect  PROVE G
  BY <1>32 DEF SkipCollect, LeaveCollect, DetourFromPull, Continue, Still, Record, folder, G
<1>33. ASSUME ReviewUpdate  PROVE G
  BY <1>33 DEF ReviewUpdate, Still, folder, G
<1>34. ASSUME ReviewRunPush  PROVE G
  BY <1>34 DEF G, Confirms
<1>35. ASSUME CloseReviewPush  PROVE G
  BY <1>35 DEF CloseReviewPush, Still, folder, G
<1>36. ASSUME FinishReview  PROVE G
  BY <1>36 DEF FinishReview, CanFinish, Reports, Record, Unmoved, Still, Steady, folder, G
<1>37. ASSUME EndReview  PROVE G
  BY <1>37 DEF EndReview, Homewards, Still, folder, G
<1>38. ASSUME ReportHome  PROVE G
  BY <1>38 DEF ReportHome, LeaveReport, NoOp, G
<1>39. ASSUME ReportNext  PROVE G
  BY <1>39 DEF ReportNext, Continue, Still, Record, folder, G
<1>40. ASSUME ReportRebuild  PROVE G
  BY <1>40 DEF ReportRebuild, LeaveReport, NoOp, G
<1>41. ASSUME InspectRecovery  PROVE G
  BY <1>41 DEF InspectRecovery, Still, folder, G
<1>42. ASSUME RunRecovery  PROVE G
  <2>1. \E kind \in {"recover", "discard"} : On("Recovery") /\ Begins(kind, rec)
    BY <1>42 DEF RunRecovery, Pressed, Offered, StartRecovery
  <2> QED  BY <1>b, <1>o, <2>1 DEF G
<1>43. ASSUME CloseRecovery  PROVE G
  BY <1>43 DEF CloseRecovery, Still, folder, G
<1>44. ASSUME SetupScreens  PROVE G
  BY <1>44 DEF SetupScreens, BeginSetup, ChooseFolder, ChooseApps, ReviewSetup, BackInSetup, Unseen, folder, G
<1>45. ASSUME CreateProject  PROVE G
  BY <1>45, <1>b, <1>o DEF CreateProject, G
<1>46. ASSUME OpenExisting  PROVE G
  BY <1>46 DEF OpenExisting, Homewards, folder, G
<1>47. ASSUME SettingsScreens  PROVE G
  BY <1>47 DEF SettingsScreens, OpenApplications, ChooseApplications, ReviewApplications, BackInApplications, Unseen, folder, G
<1>48. ASSUME SaveSettings  PROVE G
  BY <1>48, <1>b, <1>o DEF SaveSettings, G
<1> QED
  BY <1>1, <1>2, <1>3, <1>4, <1>5, <1>6, <1>7, <1>8, <1>9, <1>10, <1>11, <1>12, <1>13, <1>14,
     <1>15, <1>16, <1>17, <1>18, <1>19, <1>20, <1>21, <1>22, <1>23, <1>24, <1>25, <1>26, <1>27, <1>28,
     <1>29, <1>30, <1>31, <1>32, <1>33, <1>34, <1>35, <1>36, <1>37, <1>38, <1>39, <1>40, <1>41, <1>42,
     <1>43, <1>44, <1>45, <1>46, <1>47, <1>48
     DEF Next, User, LoadStep

(* What the user confirms was worked out after the last change of this terminal:   *)
(* no way through the screens leads from a change back to a preview of before it.  *)
THEOREM PreviewsAreFreshHolds == Spec => PreviewsAreFresh
<1> DEFINE A == op' # op /\ op'.phase = "start" /\ op'.kind \in {"pull", "push"} => op'.plan.at = changes
<1>1. TerminalInv /\ ScreenInv /\ FreshInv /\ [Next]_vars => [A]_vars
  <2> SUFFICES ASSUME TerminalInv, FreshInv, Next, op' # op, op'.phase = "start", op'.kind \in {"pull", "push"}
               PROVE  op'.plan.at = changes
    BY DEF vars
  <2>t. Types  BY DEF TerminalInv
  <2>1. CASE RunPull \/ ReviewRunPull
    <3>1. PICK x \in {"Pull", "ReviewPull"} : On(x)  BY <2>1 DEF RunPull, ReviewRunPull
    <3>2. Begins("pull", pull.shown) /\ pull.shown # Nothing /\ ~pull.refresh
      BY <2>1 DEF RunPull, ReviewRunPull, StartPull, Collectable, Collecting
    <3>3. op'.plan = pull.shown  BY <3>2 DEF Begins, Start, NoOp
    <3> QED  BY <3>1, <3>2, <3>3 DEF FreshInv, CollectFresh, Asking
  <2>2. CASE RunPush \/ ReviewRunPush
    <3>1. On("Preview") \/ On("ReviewPush")  BY <2>2 DEF RunPush, ReviewRunPush, ReviewUpdatable
    <3>2. Begins("push", push.shown) /\ push.shown # Nothing
      BY <2>2 DEF RunPush, ReviewRunPush, ReviewUpdatable, StartPush, Updatable
    <3>3. op'.plan = push.shown  BY <3>2 DEF Begins, Start, NoOp
    <3> QED  BY <3>1, <3>2, <3>3 DEF FreshInv, UpdateFresh
  <2> QED  BY <2>t, <2>1, <2>2, StartsAre DEF Confirms
<1> HIDE DEF A
<1>2. Spec => [][A]_vars  BY <1>1, FreshHolds, PTL DEF Spec
<1> QED  BY <1>2 DEF PreviewsAreFresh, A

-----------------------------------------------------------------------------
(* The report of a Review session is right.                                   *)

(* Read by a thread; a dictionary that cannot be used; the applications match.     *)
HasRead(i) == load[i].phase \in {"set", "got"}
Bad        == {"corrupt", "unreadable"}
Truth      == \A d \in InUse(config) : dict[d].status = "absent" \/ dict[d].words = list.words

(* A preview has set aside the dictionaries that could not be used.                *)
Whole(p) == \A d \in InUse(p.config) \ p.skipped : p.dict[d].status \notin Bad
Sound(p) == p.edits <= edits /\ Whole(p)
SoundInv ==
    /\ \A i \in Slot : HasRead(i) => Sound(load[i].got)
    /\ push.shown = Nothing \/ Sound(push.shown)
    /\ op.kind = "push" /\ op.plan # Nothing => op.plan \in Snapshots /\ Sound(op.plan) /\ CanPush(op.plan)
    /\ \A d \in journal.wrote : journal.before[d].status \notin Bad

(* No thread runs in Start here and in Applications.                               *)
CalmInv == stack = <<>> \/ Stands(stack, "SetupWelcome") \/ Stands(stack, "Settings") => Calm

(* A preview of the last change and the last edit is what is there.                *)
Current(p) == p.at <= changes /\ (p.at = changes /\ p.edits = edits => p = Snapshot)
Usable(p)  == p.edits = edits /\ p.skipped = {} => Skipped = {}
CurrentInv ==
    /\ \A i \in Slot : HasRead(i) => Current(load[i].got) /\ Usable(load[i].got)
    /\ On("ReviewPush") /\ push.shown # Nothing => Current(push.shown)

(* What was read after a later edit than what is shown was read after the last change. *)
Later(n) == \A j \in Slot : HasRead(j) /\ n < load[j].got.edits => load[j].got.at = changes
OrderInv ==
    /\ On("ReviewPush") /\ push.shown # Nothing => Later(push.shown.edits)
    /\ \A i \in Slot : load[i].live /\ HasRead(i) => Later(load[i].got.edits)

(* Where the operation of an update is.                                            *)
PlaceInv ==
    /\ On("Busy") => Stands(stack, "SetupWelcome")
    /\ On("Operation") /\ Under("ReviewPush") => op.kind = "push"
OutcomeInv == op.phase \in {"ended", "shown"} /\ op.plan # Nothing => op.outcome # "none"

UpdatedInv ==
    op.kind = "push" /\ op.plan # Nothing /\ op.phase \in {"ended", "shown"}
      /\ op.outcome = "completed" /\ op.plan.edits = edits => Truth

CleanInv ==
    session.preview.clean /\ session.preview.edits = edits =>
        /\ Skipped = {}
        /\ On("ReviewPush") /\ push.shown # Nothing /\ push.shown.edits # edits => Truth
        /\ \A i \in Slot : load[i].live /\ load[i].phase = "got" /\ load[i].got.edits # edits => Truth
SessionInv ==
    /\ session.preview.clean => session.on
    /\ ~On("SessionReport") => session.push = "none"
    /\ session.preview.edits <= edits
    /\ On("SessionReport") /\ session.matched => session.edits \in Nat /\ session.edits <= edits

(* What has been read stays as it is, while it is kept.                            *)
Carries(ld, new) == \A i \in Slot : new[i].phase \in {"set", "got"} =>
    /\ ld[i].phase = new[i].phase /\ ld[i].got = new[i].got
    /\ new[i].live => ld[i].live

(* Threads left, begun and overtaken.                                              *)
LEMMA LeaveCarries ==
    ASSUME NEW ld \in [Slot -> Loads], NEW screens
    PROVE  /\ Carries(ld, Leave(ld, screens))
           /\ (\A i \in Slot : ld[i] = Idle) => \A i \in Slot : Leave(ld, screens)[i] = Idle
<1>i. Idle.phase = "idle" /\ Idle.for = "none"  BY DEF Idle
<1>1. ASSUME NEW i \in Slot
      PROVE  \/ Leave(ld, screens)[i] \in {ld[i], Idle}
             \/ ld[i].for = "ReviewPush" /\ Leave(ld, screens)[i] = [ld[i] EXCEPT !.live = FALSE]
  BY DEF Leave
<1>2. ASSUME NEW i \in Slot, Leave(ld, screens)[i].phase \in {"set", "got"}
      PROVE  /\ ld[i].phase = Leave(ld, screens)[i].phase /\ ld[i].got = Leave(ld, screens)[i].got
             /\ Leave(ld, screens)[i].live => ld[i].live
  <2>1. ld[i] \in Loads  OBVIOUS
  <2>2. CASE Leave(ld, screens)[i] = ld[i]  BY <2>2
  <2>3. CASE Leave(ld, screens)[i] = Idle  BY <1>i, <1>2, <2>3
  <2>4. CASE Leave(ld, screens)[i] = [ld[i] EXCEPT !.live = FALSE]  BY <2>1, <2>4 DEF Loads
  <2> QED  BY <1>1, <2>2, <2>3, <2>4
<1>3. ASSUME \A i \in Slot : ld[i] = Idle, NEW i \in Slot  PROVE Leave(ld, screens)[i] = Idle
  BY <1>i, <1>1, <1>3
<1> QED  BY <1>2, <1>3 DEF Carries

(* A thread that is begun has read nothing.                                        *)
LEMMA BeginCarries ==
    ASSUME NEW ld \in [Slot -> Loads], Idle \in Loads, NEW screen  PROVE Carries(ld, Begin(ld, screen))
<1> DEFINE rest == Leave(ld, {screen})
           new  == [Idle EXCEPT !.for = screen, !.phase = "start", !.live = TRUE]
<1>1. Carries(ld, rest)  BY LeaveCarries
<1>2. rest \in [Slot -> Loads]  BY LoadsTyped
<1>3. Begin(ld, screen) = [rest EXCEPT ![Min(Free)] = new]  BY DEF Begin
<1>4. new.phase = "start"  BY DEF Idle
<1>5. PICK m : m = Min(Free)  OBVIOUS
<1> HIDE DEF rest, new
<1>6. ASSUME NEW i \in Slot  PROVE Begin(ld, screen)[i] = IF i = m THEN new ELSE rest[i]
  BY <1>2, <1>3, <1>5
<1> QED  BY <1>1, <1>4, <1>6 DEF Carries

(* Overtaken threads have read what they had read.                                 *)
LEMMA OvertakenCarries ==
    ASSUME NEW ld \in [Slot -> Loads]  PROVE Carries(ld, Overtaken(ld))
<1>1. \A i \in Slot : Overtaken(ld)[i] = [ld[i] EXCEPT !.latest = FALSE] /\ ld[i] \in Loads  BY DEF Overtaken
<1> QED  BY <1>1 DEF Carries, Loads

(* A screen that loads its preview.                                                *)
Loading == On("Pull") \/ On("Preview") \/ On("ReviewPush")
Quiet   == Carries(load, load') /\ (Calm => Calm' \/ Loading')

(* The threads go on by themselves; the screens only begin and leave them.         *)
LEMMA LoadMoves ==
    ASSUME Types, ScreenInv, Next  PROVE Quiet \/ LoadStep
<1> DEFINE G == Quiet \/ LoadStep
<1>s. /\ load \in [Slot -> Loads] /\ Idle \in Loads /\ stack \in Seq(AllScreens) /\ Chain(stack)
      /\ FileTypes /\ mutation \in BOOLEAN
  BY ScreensTyped DEF Types, UiTypes, ScreenInv
<1>u. load' = load => G  BY DEF G, Quiet, Carries, Calm
<1>l. \A screens : load' = Leave(load, screens) => G  BY <1>s, LeaveCarries DEF G, Quiet, Calm
<1>b. \A screen : load' = Begin(load, screen) /\ Loading' => G  BY <1>s, BeginCarries DEF G, Quiet
<1>o. load' = Overtaken(load) /\ Loading' => G  BY <1>s, OvertakenCarries DEF G, Quiet
<1>p. ASSUME NEW x, On(x), NEW y \in {"Pull", "Preview", "ReviewPush"},
             stack' = Opened(y) \/ stack' = Append(Closed, y) \/ (UNCHANGED stack /\ x = y)
      PROVE  Loading'
  <2>1. CASE UNCHANGED stack /\ x = y  BY <1>p, <2>1 DEF Loading, On
  <2>2. CASE stack' = Opened(y) \/ stack' = Append(Closed, y)
    <3>1. On(y)'  BY <1>s, <1>p, <2>2, Tops DEF AllScreens
    <3> QED  BY <3>1 DEF Loading
  <2> QED  BY <1>p, <2>1, <2>2
<1>c. ASSUME NEW x, On(x), NEW from \in {stack, Closed}, Continue(from)  PROVE G
  <2>1. PICK y \in {"Preview", "ReviewPush"} : stack' = Append(from, y) /\ load' = Begin(load, y)
    BY <1>c DEF Continue
  <2> QED  BY <1>b, <1>c, <1>p, <2>1 DEF Opened
<1> SUFFICES G  OBVIOUS
<1> HIDE DEF G
<1>1. ASSUME Launch  PROVE G
  BY <1>u, <1>1 DEF Launch, NeedsSetup, Still, Unseen
<1>2. ASSUME Stop  PROVE G
  <2>1. \A i \in Slot : load'[i] = Idle /\ load'[i].phase = "idle"  BY <1>2 DEF Stop, Idle
  <2> QED  BY <2>1 DEF G, Quiet, Carries, Calm
<1>3. ASSUME Worker  PROVE G
  BY <1>u, <1>3, WorkerTyped DEF ui
<1>4. ASSUME Others  PROVE G
  BY <1>u, <1>4 DEF Others, ui
<1>5. ASSUME OperationEnds  PROVE G
  BY <1>u, <1>5 DEF OperationEnds
<1>6. ASSUME NEW i \in Slot, LoadReads(i)  PROVE G
  BY <1>6 DEF G, LoadStep
<1>7. ASSUME NEW i \in Slot, LoadSets(i)  PROVE G
  BY <1>7 DEF G, LoadStep
<1>8. ASSUME NEW i \in Slot, LoadArrives(i)  PROVE G
  BY <1>8 DEF G, LoadStep
<1>9. ASSUME NEW i \in Slot, LoadFails(i)  PROVE G
  BY <1>9 DEF G, LoadStep
<1>10. ASSUME CloseBusy  PROVE G
  BY <1>u, <1>10 DEF CloseBusy, Still
<1>11. ASSUME DismissReview  PROVE G
  BY <1>u, <1>11 DEF DismissReview, Reports, Record
<1>12. ASSUME Dismiss  PROVE G
  BY <1>u, <1>12 DEF Dismiss, Reported
<1>13. ASSUME OpenPull  PROVE G
  BY <1>u, <1>13 DEF OpenPull, Enter, Entered, Unmoved, Still, Steady
<1>14. ASSUME OpenPreview  PROVE G
  BY <1>o, <1>p, <1>14 DEF OpenPreview, Enter, Entered
<1>15. ASSUME RefreshPull  PROVE G
  BY <1>b, <1>p, <1>15 DEF RefreshPull
<1>16. ASSUME RefreshPreview  PROVE G
  BY <1>b, <1>p, <1>16 DEF RefreshPreview
<1>17. ASSUME RunPull  PROVE G
  BY <1>u, <1>17 DEF RunPull, StartPull, OnlyBegins
<1>18. ASSUME RunPush  PROVE G
  BY <1>u, <1>18 DEF RunPush, StartPush, OnlyBegins
<1>19. ASSUME ClosePull  PROVE G
  BY <1>l, <1>19 DEF ClosePull
<1>20. ASSUME ClosePreview  PROVE G
  BY <1>l, <1>20 DEF ClosePreview
<1>21. ASSUME PullNext  PROVE G
  BY <1>u, <1>c, <1>21 DEF PullNext, LeaveCollect, DetourFromPull
<1>22. ASSUME ResumePull  PROVE G
  BY <1>u, <1>b, <1>p, <1>22 DEF ResumePull
<1>23. ASSUME OpenAddWords  PROVE G
  BY <1>u, <1>23 DEF OpenAddWords, Enter, Entered, Still
<1>24. ASSUME NEW w \in Word, SaveWord(w)  PROVE G
  BY <1>u, <1>24 DEF SaveWord
<1>25. ASSUME CloseAddWords  PROVE G
  BY <1>u, <1>25 DEF CloseAddWords, Still
<1>26. ASSUME AddWordsNext  PROVE G
  BY <1>c, <1>26 DEF AddWordsNext
<1>27. ASSUME RefreshDashboard  PROVE G
  BY <1>u, <1>27 DEF RefreshDashboard, Still
<1>28. ASSUME OpenReview  PROVE G
  BY <1>u, <1>28 DEF OpenReview, Enter, Entered, Unmoved, Still, Steady
<1>29. ASSUME StartReview  PROVE G
  BY <1>u, <1>29 DEF StartReview, Unmoved, Still, Steady
<1>30. ASSUME LeaveReview  PROVE G
  BY <1>u, <1>30 DEF LeaveReview, Unmoved, Still, Steady
<1>31. ASSUME ReviewRunPull  PROVE G
  BY <1>u, <1>31 DEF ReviewRunPull, StartPull, OnlyBegins
<1>32. ASSUME SkipCollect  PROVE G
  BY <1>u, <1>c, <1>32 DEF SkipCollect, LeaveCollect, DetourFromPull
<1>33. ASSUME ReviewUpdate  PROVE G
  BY <1>b, <1>p, <1>33 DEF ReviewUpdate
<1>34. ASSUME ReviewRunPush  PROVE G
  BY <1>u, <1>34 DEF ReviewRunPush, ReviewUpdatable, StartPush, OnlyBegins
<1>35. ASSUME CloseReviewPush  PROVE G
  BY <1>l, <1>35 DEF CloseReviewPush
<1>36. ASSUME FinishReview  PROVE G
  BY <1>u, <1>36 DEF FinishReview, CanFinish, Reports, Record, Unmoved, Still, Steady
<1>37. ASSUME EndReview  PROVE G
  BY <1>l, <1>37 DEF EndReview, Closing
<1>38. ASSUME ReportHome  PROVE G
  BY <1>l, <1>38 DEF ReportHome, Closing
<1>39. ASSUME ReportNext  PROVE G
  BY <1>c, <1>39 DEF ReportNext
<1>40. ASSUME ReportRebuild  PROVE G
  <2>1. stack' = <<"Dashboard", "Preview">> /\ load' = Begin(Closing, "Preview")
    BY <1>40, HomeIs DEF ReportRebuild, Homewards
  <2>2. Loading'  BY <2>1 DEF Loading, On, Last
  <2>3. Closing \in [Slot -> Loads] /\ Carries(load, Closing)  BY <1>s, LoadsTyped, LeaveCarries DEF Closing
  <2>4. Carries(Closing, load')  BY <1>s, <2>1, <2>3, BeginCarries
  <2>5. Carries(load, load')  BY <2>3, <2>4 DEF Carries
  <2> QED  BY <2>2, <2>5 DEF G, Quiet
<1>41. ASSUME InspectRecovery  PROVE G
  BY <1>u, <1>41 DEF InspectRecovery, Still
<1>42. ASSUME RunRecovery  PROVE G
  BY <1>u, <1>42 DEF RunRecovery, StartRecovery, OnlyBegins
<1>43. ASSUME CloseRecovery  PROVE G
  BY <1>u, <1>43 DEF CloseRecovery, Still
<1>44. ASSUME SetupScreens  PROVE G
  BY <1>u, <1>44 DEF SetupScreens, Unseen
<1>45. ASSUME CreateProject  PROVE G
  BY <1>u, <1>45 DEF CreateProject
<1>46. ASSUME OpenExisting  PROVE G
  BY <1>u, <1>46 DEF OpenExisting, Homewards
<1>47. ASSUME SettingsScreens  PROVE G
  BY <1>u, <1>47 DEF SettingsScreens, Unseen
<1>48. ASSUME SaveSettings  PROVE G
  BY <1>u, <1>48 DEF SaveSettings
<1> QED
  BY <1>1, <1>2, <1>3, <1>4, <1>5, <1>6, <1>7, <1>8, <1>9, <1>10, <1>11, <1>12, <1>13, <1>14,
     <1>15, <1>16, <1>17, <1>18, <1>19, <1>20, <1>21, <1>22, <1>23, <1>24, <1>25, <1>26, <1>27, <1>28,
     <1>29, <1>30, <1>31, <1>32, <1>33, <1>34, <1>35, <1>36, <1>37, <1>38, <1>39, <1>40, <1>41, <1>42,
     <1>43, <1>44, <1>45, <1>46, <1>47, <1>48
     DEF Next, User, LoadStep

(* Start here and Applications are opened while no thread runs.                    *)
LEMMA CalmStep ==
    ASSUME Types, RunInv, ScreenInv, CalmInv, Next  PROVE CalmInv'
<1>s. /\ stack \in Seq(AllScreens) /\ stack' \in Seq(AllScreens) /\ Chain(stack) /\ Chain(stack')
      /\ Len(stack) \in Nat /\ Len(stack') \in Nat /\ mutation \in BOOLEAN
      /\ "Settings" \in Roots /\ "SetupWelcome" \in Roots
  BY ScreenStep, StackTypesStep DEF Types, UiTypes, ScreenInv, Roots
<1> DEFINE There == stack = <<>> \/ Stands(stack, "SetupWelcome") \/ Stands(stack, "Settings")
           G     == There' => Calm'
<1>c. There => Calm  BY DEF CalmInv
<1>l. There' => ~Loading'
  <2>1. ASSUME NEW root \in {"Settings", "SetupWelcome"}, Stands(stack', root),
               NEW x \in {"Pull", "Preview", "ReviewPush"}, On(x)'
        PROVE  FALSE
    <3>1. stack' # <<>> /\ stack'[Len(stack')] = x  BY <2>1 DEF On, Last
    <3>2. PICK k \in 1 .. Len(stack') : stack'[k] = root  BY <2>1 DEF Stands
    <3>3. Len(stack') \in k .. Len(stack')  BY <1>s, <3>2
    <3>4. x \in ScreensOf(root)  BY <1>s, <2>1, <3>1, <3>2, <3>3 DEF Chain, Apart
    <3> QED  BY <2>1, <3>4 DEF ScreensOf
  <2>2. stack' = <<>> => ~Loading'  BY DEF Loading, On
  <2> QED  BY <2>1, <2>2 DEF Loading
<1>b. ASSUME There' => There \/ Calm \/ Calm'  PROVE G
  <2>1. CASE LoadStep
    <3>1. UNCHANGED stack  BY <2>1 DEF LoadStep, LoadReads, LoadSets, LoadArrives, LoadFails
    <3>2. ~Calm  BY <2>1 DEF LoadStep, LoadReads, LoadSets, LoadArrives, LoadFails, Calm, Idle
    <3> QED  BY <1>c, <3>1, <3>2
  <2>2. CASE Quiet  BY <1>b, <1>c, <1>l, <2>2 DEF Quiet
  <2> QED  BY <2>1, <2>2, LoadMoves
<1>o. ASSUME NEW y \in AllScreens \ {"Settings", "SetupWelcome"}, stack' = Opened(y), stack # <<>>
      PROVE  There' => There
  <2>1. /\ Len(stack') = Len(stack) + 1 /\ stack'[Len(stack) + 1] = y
        /\ \A i \in 1 .. Len(stack) : stack'[i] = stack[i] /\ stack' # <<>>
    BY <1>s, <1>o, StackTyped
  <2>2. PICK n \in 0 .. Len(stack) : n = Len(stack)  BY <1>s
  <2>3. \A root \in Roots : Stands(stack', root) <=> Stands(stack, root) \/ y = root
    BY <1>s, <2>1, <2>2, LaidStands
  <2>4. stack' # <<>>  BY <1>s, <2>1
  <2> QED  BY <1>s, <1>o, <2>3, <2>4
<1> SUFFICES G
  BY DEF CalmInv
<1> HIDE DEF G
<1>1. CASE Sits
  <2>1. UNCHANGED stack  BY <1>1 DEF Sits
  <2> QED  BY <1>b, <2>1
<1>2. CASE Opens
  <2>1. PICK x, y \in AllScreens : /\ On(x) /\ stack' = Opened(y) /\ Upon(x, y)
                                   /\ y \notin {"Operation", "Busy", "Report", "ReviewPull", "SetupWelcome"}
    BY <1>2 DEF Opens, OpensOn
  <2>2. stack # <<>>  BY <2>1 DEF On
  <2>3. CASE y # "Settings"  BY <1>o, <1>b, <2>1, <2>2, <2>3
  <2>4. CASE y = "Settings"
    <3>1. x = "Dashboard" /\ On("Settings")'  BY <1>s, <2>1, <2>4, Tops DEF Upon
    <3>2. ~Away /\ ~UNCHANGED stack /\ ~On("SettingsReview") /\ ~On("Settings")
      BY <2>1, <3>1 DEF Away, AtSettings, On
    <3>3. SettingsScreens \/ SaveSettings
      BY <3>2, SettingsSteps, WorkerTyped DEF Others, ui
    <3>4. Calm
      BY <3>2, <3>3 DEF SettingsScreens, SaveSettings, OpenApplications, ChooseApplications, ReviewApplications,
         BackInApplications
    <3> QED  BY <1>b, <3>4
  <2> QED  BY <2>3, <2>4
<1>3. CASE Swaps
  <2>1. PICK x, y \in AllScreens : /\ On(x) /\ stack' = Append(Closed, y) /\ Len(stack) > 1
                                   /\ x \notin Roots \cup {"Busy"}
                                   /\ y \notin {"Operation", "Busy", "Report", "Settings", "SetupWelcome"}
    BY <1>3 DEF Swaps, SwapsOn
  <2>2. stack # <<>> /\ stack[Len(stack)] = x  BY <1>s, <2>1, OnTop
  <2>3. /\ Len(stack') = Len(stack) /\ stack'[Len(stack)] = y
        /\ \A i \in 1 .. Len(stack) - 1 : stack'[i] = stack[i]
    BY <1>s, <2>1, <2>2, InPlace
  <2>a. Len(stack) \in Nat /\ Len(stack) > 1  BY <1>s, <2>1
  <2>b. Len(stack) - 1 \in 0 .. Len(stack) /\ Len(stack) - 1 > 0 /\ (Len(stack) - 1) + 1 = Len(stack)  BY <2>a
  <2>4. PICK n \in 0 .. Len(stack) : n = Len(stack) - 1  BY <2>b
  <2>d. n \in 0 .. Len(stack) /\ n = Len(stack) - 1 /\ n > 0 /\ n + 1 = Len(stack)  BY <2>b, <2>4
  <2>5. Len(stack') = n + 1 /\ stack'[n + 1] = y /\ \A i \in 1 .. n : stack'[i] = stack[i]
    BY <2>3, <2>d
  <2>e. stack \in Seq(AllScreens) /\ stack' \in Seq(AllScreens)  BY <1>s
  <2>6. Stands(stack', "Settings") <=> Stands(stack, "Settings") \/ y = "Settings"
    <3>1. stack[Len(stack)] # "Settings"  BY <2>1, <2>2 DEF Roots
    <3> QED  BY <2>d, <2>e, <2>5, <3>1, LaidStands
  <2>c. Stands(stack', "SetupWelcome") <=> Stands(stack, "SetupWelcome") \/ y = "SetupWelcome"
    <3>1. stack[Len(stack)] # "SetupWelcome"  BY <2>1, <2>2 DEF Roots
    <3> QED  BY <2>d, <2>e, <2>5, <3>1, LaidStands
  <2>7. stack' # <<>>  BY <1>s, <2>1, <2>3
  <2>8. There' => There  BY <1>s, <2>1, <2>6, <2>c, <2>7
  <2> QED  BY <1>b, <2>8
<1>4. CASE Closes
  <2>1. PICK x \in AllScreens \ {"Operation", "SetupWelcome", "Dashboard", "Report"} :
           On(x) /\ stack' = Closed
    BY <1>4 DEF Closes
  <2>2. stack # <<>> /\ Len(stack) > 1  BY <1>s, <2>1, OnTop
  <2>3. Len(stack') = Len(stack) - 1 /\ \A i \in 1 .. Len(stack') : stack'[i] = stack[i]
    BY <1>s, <2>1, <2>2, StackTyped
  <2>4. stack' # <<>>  BY <1>s, <2>2, <2>3
  <2>5. \A root \in Roots : Stands(stack', root) => Stands(stack, root)
    BY <1>s, <2>2, <2>3, CutStands
  <2> QED  BY <1>b, <1>s, <2>4, <2>5
<1>5. CASE BeginsOn
  <2>1. PICK y \in {"Operation", "Busy"} : stack' = Opened(y)  BY <1>5 DEF BeginsOn, Begins
  <2>2. stack # <<>>  BY <1>5 DEF BeginsOn, Runs, On
  <2>3. y \in AllScreens \ {"Settings", "SetupWelcome"}  BY DEF AllScreens
  <2> QED  BY <1>o, <1>b, <2>1, <2>2, <2>3
<1>6. CASE Tells
  <2>1. stack' = Opened("Report") /\ stack # <<>>  BY <1>6 DEF Tells, On
  <2>2. "Report" \in AllScreens \ {"Settings", "SetupWelcome"}  BY DEF AllScreens
  <2> QED  BY <1>o, <1>b, <2>1, <2>2
<1>7. CASE Homes
  <2>1. CASE stack' \in {<<>>, <<"SetupWelcome">>} /\ (stack = <<>> \/ Calm')  BY <1>b, <2>1
  <2>2. CASE stack' \in {<<"Dashboard">>, <<"Dashboard", "FirstWin">>, <<"Dashboard", "Preview">>}
    <3>1. ASSUME NEW k \in 1 .. Len(stack')  PROVE stack'[k] \in {"Dashboard", "FirstWin", "Preview"}
      <4>1. CASE stack' = <<"Dashboard">>  BY <4>1
      <4>2. CASE stack' = <<"Dashboard", "FirstWin">>
        <5>1. Len(stack') = 2 /\ stack'[1] = "Dashboard" /\ stack'[2] = "FirstWin"  BY <4>2
        <5>2. k = 1 \/ k = 2  BY <5>1
        <5> QED  BY <5>1, <5>2
      <4>3. CASE stack' = <<"Dashboard", "Preview">>
        <5>1. Len(stack') = 2 /\ stack'[1] = "Dashboard" /\ stack'[2] = "Preview"  BY <4>3
        <5>2. k = 1 \/ k = 2  BY <5>1
        <5> QED  BY <5>1, <5>2
      <4> QED  BY <2>2, <4>1, <4>2, <4>3
    <3>2. ~There'  BY <2>2, <3>1 DEF Stands
    <3> QED  BY <1>b, <3>2
  <2> QED  BY <1>7, <2>1, <2>2 DEF Homes
<1> QED  BY <1>1, <1>2, <1>3, <1>4, <1>5, <1>6, <1>7, ScreenMoves

(* The operation on the second step of a Review session is its update.             *)
LEMMA PlaceStep ==
    ASSUME Types, RunInv, ScreenInv, PlaceInv, Next  PROVE PlaceInv'
<1>s. /\ stack \in Seq(AllScreens) /\ stack' \in Seq(AllScreens) /\ Chain(stack) /\ Chain(stack')
      /\ Len(stack) \in Nat /\ Len(stack') \in Nat /\ mutation \in BOOLEAN /\ (mutation <=> Unsettled)
      /\ "SetupWelcome" \in Roots /\ "Operation" \in AllScreens /\ "Busy" \in AllScreens
      /\ "Report" \in AllScreens
  BY ScreenStep, StackTypesStep DEF Types, UiTypes, ScreenInv, RunInv, Roots, AllScreens
<1>n. ASSUME NEW y \in AllScreens \ {"Operation", "Busy"}, \A z : On(z)' => z = y  PROVE PlaceInv'
  BY <1>n DEF PlaceInv
<1>1. CASE Sits
  <2>1. UNCHANGED stack /\ op'.kind = op.kind  BY <1>1 DEF Sits
  <2> QED  BY <2>1 DEF PlaceInv, On, Under
<1>2. CASE Opens
  <2>1. PICK x, y \in AllScreens : On(x) /\ stack' = Opened(y) /\ y \notin {"Operation", "Busy"}
    BY <1>2 DEF Opens, OpensOn
  <2>2. \A z : On(z)' => z = y  BY <1>s, <2>1, Tops
  <2> QED  BY <1>n, <2>1, <2>2
<1>3. CASE Swaps
  <2>1. PICK x, y \in AllScreens : On(x) /\ stack' = Append(Closed, y) /\ y \notin {"Operation", "Busy"}
    BY <1>3 DEF Swaps, SwapsOn
  <2>2. \A z : On(z)' => z = y  BY <1>s, <2>1, Tops
  <2> QED  BY <1>n, <2>1, <2>2
<1>4. CASE Closes
  <2>1. PICK x \in AllScreens \ {"Operation", "SetupWelcome", "Dashboard", "Report"} :
           On(x) /\ stack' = Closed
    BY <1>4 DEF Closes
  <2>2. \A z : On(z)' => Upon(z, x)  BY <1>s, <2>1, Tops
  <2>3. CASE x # "Busy"  BY <2>1, <2>2, <2>3 DEF PlaceInv, Upon
  <2>4. CASE x = "Busy"
    <3>1. /\ stack # <<>> /\ Len(stack) > 1 /\ stack[Len(stack)] = "Busy" /\ Stands(stack, "SetupWelcome")
      BY <1>s, <2>1, <2>4, OnTop DEF PlaceInv
    <3>2. Len(stack') = Len(stack) - 1 /\ \A i \in 1 .. Len(stack') : stack'[i] = stack[i]
      BY <1>s, <2>1, <3>1, StackTyped
    <3>3. Stands(stack', "SetupWelcome")  BY <1>s, <3>1, <3>2, CutStands
    <3>4. ASSUME On("Operation")', Under("ReviewPush")'  PROVE FALSE
      <4>1. stack'[Len(stack')] = "Operation" /\ Len(stack') > 1 /\ stack'[Len(stack') - 1] = "ReviewPush"
        BY <1>s, <3>4 DEF On, Under, Last
      <4>2. PICK k \in 1 .. Len(stack') : stack'[k] = "SetupWelcome"  BY <3>3 DEF Stands
      <4>3. k # Len(stack')  BY <4>1, <4>2
      <4>4. Len(stack') - 1 \in k .. Len(stack')  BY <1>s, <4>1, <4>2, <4>3
      <4>5. "ReviewPush" \in ScreensOf("SetupWelcome")  BY <1>s, <4>1, <4>2, <4>4 DEF Chain, Apart
      <4> QED  BY <4>5 DEF ScreensOf
    <3> QED  BY <3>3, <3>4 DEF PlaceInv
  <2> QED  BY <2>3, <2>4
<1>5. CASE BeginsOn
  <2>1. PICK x \in AllScreens, kind \in Kinds : \E plan \in PlansOf(kind) : Begins(kind, plan) /\ Runs(x, kind)
    BY <1>5 DEF BeginsOn
  <2>2. PICK plan \in PlansOf(kind) : Begins(kind, plan)  BY <2>1
  <2>3. /\ On(x) /\ Suits(kind)
        /\ Upon(x, "Operation") \/ (x = "Operation" /\ kind = "setup" /\ mutation)
    BY <2>1 DEF Runs
  <2>4. stack # <<>> /\ Last(stack) = x  BY <2>3 DEF On
  <2>5. CASE mutation
    <3>1. stack' = Opened("Busy")  BY <2>2, <2>5 DEF Begins
    <3>2. kind = "setup"
      <4>1. ~Elsewhere  BY <1>s, <2>5, CoveredNotElsewhere DEF RunInv
      <4> QED  BY <2>3, <2>4, <4>1 DEF Elsewhere, Upon
    <3>3. Stands(stack, "SetupWelcome")  BY <2>3, <3>2 DEF Suits
    <3>4. /\ Len(stack') = Len(stack) + 1 /\ stack'[Len(stack) + 1] = "Busy"
          /\ \A i \in 1 .. Len(stack) : stack'[i] = stack[i]
      BY <1>s, <3>1, StackTyped
    <3>5. PICK n \in 0 .. Len(stack) : n = Len(stack)  BY <1>s
    <3>6. Stands(stack', "SetupWelcome")  BY <1>s, <3>3, <3>4, <3>5, LaidStands
    <3>7. \A z : On(z)' => z = "Busy"  BY <1>s, <2>3, <3>1, Tops
    <3> QED  BY <3>6, <3>7 DEF PlaceInv
  <2>6. CASE ~mutation
    <3>1. stack' = Opened("Operation") /\ op' = Start(kind, plan)  BY <2>2, <2>6 DEF Begins
    <3>2. (\A z : On(z)' => z = "Operation") /\ (\A z : Under(z)' => z = x)
      BY <1>s, <2>3, <3>1, Tops
    <3>3. ASSUME x = "ReviewPush"  PROVE kind = "push"
      <4>1. op'.phase = "start" /\ op'.kind = kind  BY <3>1 DEF Start, NoOp
      <4>2. On("ReviewPush") /\ \A z : On(z) => z = "ReviewPush"  BY <2>3, <3>3 DEF On
      <4>3. op' # op  BY <2>6, <4>1 DEF RunInv, Unsettled
      <4>4. ReviewRunPush
        BY <4>1, <4>2, <4>3, StartsAre DEF Confirms, RunPull, RunPush, ReviewRunPull
      <4>5. Begins("push", push.shown)  BY <4>4 DEF ReviewRunPush, StartPush
      <4> QED  BY <2>6, <4>1, <4>5 DEF Begins, Start, NoOp
    <3>4. op'.kind = kind  BY <3>1 DEF Start, NoOp
    <3> QED  BY <3>2, <3>3, <3>4 DEF PlaceInv
  <2> QED  BY <1>s, <2>5, <2>6
<1>6. CASE Tells
  <2>1. On("Operation") /\ stack' = Opened("Report")  BY <1>6 DEF Tells
  <2>2. \A z : On(z)' => z = "Report"  BY <1>s, <2>1, Tops
  <2> QED  BY <1>n, <1>s, <2>2
<1>7. CASE Homes
  <2>1. stack' # <<>> => stack'[Len(stack')] \notin {"Operation", "Busy", "Report"}
    BY <1>7, HomeChain DEF Homes
  <2>2. ~On("Operation")' /\ ~On("Busy")'  BY <2>1 DEF On, Last
  <2> QED  BY <2>2 DEF PlaceInv
<1> QED  BY <1>1, <1>2, <1>3, <1>4, <1>5, <1>6, <1>7, ScreenMoves

(* What the files are after a step: as they were; changed by another program; by   *)
(* collect, update, recovery or a word that was added, none of which makes a       *)
(* dictionary unusable; by Start here or Applications.                             *)
Same  == UNCHANGED <<list, dict, config, journal, edits>> /\ changes' \in {changes, changes + 1}
Ours  == UNCHANGED edits /\ changes' = changes + 1 /\ Skipped' \subseteq Skipped
Makes == /\ UNCHANGED <<edits, journal, stack, load>> /\ changes' \in {changes, changes + 1}
         /\ op.kind \in {"setup", "targets"} /\ Unsettled
Good(j) == \A d \in j.wrote : j.before[d].status \notin Bad

(* A dictionary that is given a usable text is no longer set aside.                *)
LEMMA FewerSkipped ==
    ASSUME config' = config, \A d \in Dictionaries : dict'[d] = dict[d] \/ dict'[d].status \notin Bad
    PROVE  Skipped' \subseteq Skipped
  BY DEF Skipped, InUse, Bad

(* An update writes a usable list over dictionaries it could use.                  *)
LEMMA PushFiles ==
    ASSUME Types, SoundInv, WorkPush  PROVE (Same \/ Ours) /\ Good(journal')
<1>1. /\ op.plan \in Snapshots /\ op.plan # Nothing /\ op.kind = "push" /\ dict \in AllTexts
  <2>1. op.plan \in PlansOf("push") /\ op.kind = "push" /\ "push" \in Kinds
    BY DEF Types, OpTypes, WorkPush, At, Unsettled, Kinds
  <2> QED  BY <2>1, PlanIsThere DEF PlansOf, Types, FileTypes
<1>2. Whole(op.plan) /\ op.plan.list.status = "ok" /\ Good(journal)
  BY <1>1 DEF SoundInv, Sound, CanPush, Good
<1>3. CASE Fails \/ PushStops \/ PushConflicts(op.plan)
  <2>1. UNCHANGED files /\ UNCHANGED edits /\ changes' = changes + 1
    BY <1>3 DEF Fails, PushStops, PushConflicts, Stopped, End
  <2> QED  BY <1>2, <2>1 DEF files, Same
<1>4. CASE PushWrites(op.plan)
  <2>1. PICK S \in SUBSET ToUpdate(op.plan), unfinished \in {ToUpdate(op.plan) # {}, FALSE} :
           /\ dict' = Updated(op.plan, S)
           /\ journal' = IF unfinished THEN [wrote |-> S, before |-> dict, after |-> dict']
                         ELSE journal
           /\ End(PushOutcome(op.plan, S, unfinished))
    BY <1>4 DEF PushWrites
  <2>2. Unchanged(op.plan) /\ UNCHANGED <<list, config, edits>> /\ changes' = changes + 1
    BY <1>4, <2>1 DEF PushWrites, End
  <2>3. \A d \in Dictionaries : dict'[d] = dict[d] \/ dict'[d].status \notin Bad
    BY <1>2, <2>1 DEF Updated, Bad
  <2>4. Ours  BY <2>2, <2>3, FewerSkipped DEF Ours
  <2>5. \A d \in S : dict[d].status \notin Bad
    BY <1>2, <2>2 DEF ToUpdate, Unchanged, Whole
  <2>6. Good(journal')
    <3>1. CASE journal' = journal  BY <1>2, <3>1
    <3>2. CASE journal' = [wrote |-> S, before |-> dict, after |-> dict']
      <4>1. journal'.wrote = S /\ journal'.before = dict  BY <3>2
      <4> QED  BY <2>5, <4>1 DEF Good
    <3> QED  BY <2>1, <3>1, <3>2
  <2> QED  BY <2>4, <2>6
<1> QED  BY <1>3, <1>4 DEF WorkPush

(* Recovery puts usable dictionaries back.                                         *)
LEMMA RecoverFiles ==
    ASSUME Types, SoundInv, WorkRecover \/ WorkDiscard  PROVE (Same \/ Ours) /\ Good(journal')
<1>1. Good(journal) /\ Good(NoJournal) /\ dict \in AllTexts
  BY DEF SoundInv, Good, NoJournal, Types, FileTypes
<1>2. CASE Fails
  <2>1. UNCHANGED files /\ UNCHANGED edits /\ changes' = changes + 1
    BY <1>2 DEF Fails, Stopped, End
  <2> QED  BY <1>1, <2>1 DEF files, Same
<1>3. CASE ~Fails
  <2>1. /\ UNCHANGED <<config, edits>> /\ changes' = changes + 1 /\ journal' \in {journal, NoJournal}
        /\ \/ dict' = dict
           \/ dict' = [d \in Dictionaries |-> IF d \in ToRestore THEN journal.before[d] ELSE dict[d]]
    BY <1>3 DEF WorkRecover, WorkDiscard, End
  <2>2. \A d \in ToRestore : journal.before[d].status \notin Bad
    BY <1>1 DEF ToRestore, Good
  <2>3. \A d \in Dictionaries : dict'[d] = dict[d] \/ dict'[d].status \notin Bad
    BY <2>1, <2>2
  <2> QED  BY <1>1, <2>1, <2>3, FewerSkipped DEF Ours
<1> QED  BY <1>2, <1>3

(* Start here and Applications leave the dictionaries' journal alone.              *)
LEMMA MakesFiles ==
    ASSUME Types, Worker, SetupStep \/ SaveStep  PROVE Makes
<1>1. UNCHANGED <<edits, stack, load>>  BY WorkerTyped, WorkerEdits DEF ui
<1>2. Unsettled  BY WorkerTyped DEF GoesOn, Unsettled
<1>3. CASE SetupStep
  <2>1. op.kind = "setup"
    BY <1>3 DEF SetupStep, SetupChecks, SetupLocks, SetupCreates, SetupBreaksOff, SetupEnds, SetupUndoes,
       SetupIsUndone, At
  <2>2. journal' = journal
    BY <1>3 DEF SetupStep, SetupChecks, SetupLocks, SetupCreates, SetupBreaksOff, SetupEnds, SetupUndoes,
       SetupIsUndone, Becomes, files
  <2>3. changes' \in {changes, changes + 1}
    BY <1>3 DEF SetupStep, SetupChecks, SetupLocks, SetupCreates, SetupBreaksOff, SetupEnds, SetupUndoes,
       SetupIsUndone, Becomes, End, Go
  <2> QED  BY <1>1, <1>2, <2>1, <2>2, <2>3 DEF Makes
<1>4. CASE SaveStep
  <2>1. op.kind = "targets"  BY <1>4 DEF SaveStep, SaveChecks, SaveLocks, SaveWrites, SaveVerifies, At
  <2>2. journal' = journal
    BY <1>4 DEF SaveStep, SaveChecks, SaveLocks, SaveWrites, SaveVerifies, Stays, files
  <2>3. changes' \in {changes, changes + 1}
    BY <1>4 DEF SaveStep, SaveChecks, SaveLocks, SaveWrites, SaveVerifies, Stays, End, Go
  <2> QED  BY <1>1, <1>2, <2>1, <2>2, <2>3 DEF Makes
<1> QED  BY <1>3, <1>4

(* Every step does one of these to the files.                                      *)
LEMMA FileMoves ==
    ASSUME Types, SoundInv, Next
    PROVE  (Same \/ Ours \/ Makes \/ Others) /\ Good(journal')
<1>1. Good(journal)  BY DEF SoundInv, Good
<1>2. CASE Rests \/ Starts \/ Settles \/ Leaves \/ OperationEnds \/ Stop
  <2>1. UNCHANGED <<files, changes, edits>>
    BY <1>2 DEF Rests, Starts, Settles, Leaves, OperationEnds, Stop, folder
  <2> QED  BY <1>1, <2>1 DEF files, Same
<1>3. CASE Others
  <2>1. journal' = journal  BY <1>3 DEF Others, EditList, EditDict, EditConfig, Edits
  <2> QED  BY <1>1, <1>3, <2>1
<1>4. CASE Writes
  <2>1. /\ UNCHANGED <<dict, config, journal, edits>>
        /\ changes' = IF list' = list THEN changes ELSE changes + 1
    BY <1>4 DEF Writes, SaveWord
  <2>2. Skipped' \subseteq Skipped  BY <2>1 DEF Skipped, InUse
  <2> QED  BY <1>1, <2>1, <2>2 DEF Same, Ours
<1>5. CASE Worker
  <2>1. CASE WorkPull
    <3>1. UNCHANGED <<dict, config, journal, edits>> /\ changes' = changes + 1
      BY <2>1 DEF WorkPull, Fails, PullStops, PullWrites, Stopped, End, files
    <3>2. Skipped' \subseteq Skipped  BY <3>1 DEF Skipped, InUse
    <3> QED  BY <1>1, <3>1, <3>2 DEF Ours
  <2>2. CASE WorkPush  BY <2>2, PushFiles
  <2>3. CASE WorkRecover \/ WorkDiscard  BY <2>3, RecoverFiles
  <2>4. CASE SetupStep \/ SaveStep
    <3>1. Makes  BY <1>5, <2>4, MakesFiles
    <3> QED  BY <1>1, <3>1 DEF Makes
  <2> QED  BY <1>5, <2>1, <2>2, <2>3, <2>4 DEF Worker
<1> QED  BY <1>2, <1>3, <1>4, <1>5, FolderMoves

(* The counters only grow.                                                         *)
LEMMA CountsGrow ==
    ASSUME Types, SoundInv, Next
    PROVE  /\ edits \in Nat /\ changes \in Nat /\ edits' \in {edits, edits + 1}
           /\ changes' \in {changes, changes + 1} /\ (Others => edits' = edits + 1 /\ changes' = changes)
<1>1. edits \in Nat /\ changes \in Nat  BY ProjectAssumption DEF Types, FileTypes
<1>2. Others => edits' = edits + 1 /\ changes' = changes
  BY DEF Others, EditList, EditDict, EditConfig, Edits
<1> QED  BY <1>1, <1>2, FileMoves DEF Same, Ours, Makes

(* What the update step shows changes only by a thread, or to nothing; the second   *)
(* step of a Review session shows a preview only after one has arrived there.       *)
LEMMA ShownMoves ==
    ASSUME Types, ScreenInv, Next
    PROVE  \/ LoadStep
           \/ /\ push'.shown \in {push.shown, Nothing, Snapshot}
              /\ On("ReviewPush")' /\ push'.shown # Nothing => UNCHANGED stack /\ push'.shown = push.shown
<1> DEFINE G == \/ LoadStep
                \/ /\ push'.shown \in {push.shown, Nothing, Snapshot}
                   /\ On("ReviewPush")' /\ push'.shown # Nothing =>
                          UNCHANGED stack /\ push'.shown = push.shown
<1>s. stack \in Seq(AllScreens) /\ Chain(stack) /\ push \in Pushes  BY DEF Types, UiTypes, ScreenInv
<1>n. NoPush.shown = Nothing  BY DEF NoPush
<1>u. UNCHANGED <<stack, push>> => G  BY DEF G
<1>w. push' = NoPush => G  BY <1>n DEF G
<1>o. ASSUME NEW x, On(x), NEW y \in AllScreens \ {"ReviewPush"},
             stack' = Opened(y) \/ stack' = Append(Closed, y), push'.shown \in {push.shown, Nothing, Snapshot}
      PROVE  G
  <2>1. \A z : On(z)' => z = y  BY <1>s, <1>o, Tops
  <2> QED  BY <1>o, <2>1 DEF G
<1>c. ASSUME NEW x, x \notin {"Operation", "SessionReport", "Dashboard", "SetupWelcome"}, On(x), stack' = Closed,
             UNCHANGED push
      PROVE  G
  <2>1. \A z : On(z)' => Upon(z, x)  BY <1>s, <1>c, Tops
  <2> QED  BY <1>c, <2>1 DEF G, Upon
<1>h. ASSUME stack' \in {<<>>, <<"SetupWelcome">>, Home}, UNCHANGED push  PROVE G
  <2>1. \A z : On(z)' => z \in {"Dashboard", "SetupWelcome", "FirstWin", "Preview"}  BY <1>h, HomeTop
  <2> QED  BY <1>h, <2>1 DEF G
<1>b. ASSUME NEW x, On(x), NEW kind, NEW plan, Begins(kind, plan), UNCHANGED push  PROVE G
  <2>1. stack' = Opened("Busy") \/ stack' = Opened("Operation")  BY <1>b DEF Begins
  <2> QED  BY <1>b, <1>o, <2>1 DEF AllScreens
<1>k. \A from : Continue(from) => G  BY <1>w DEF Continue
<1>a. {"Pull", "Preview", "AddWords", "ReviewStart", "ReviewPull", "ReviewPullComplete", "SessionReport", "Report",
       "Recovery", "SetupWordlist", "SetupTargets", "SetupPreview", "Settings", "SettingsReview"}
          \subseteq AllScreens \ {"ReviewPush"}
  BY DEF AllScreens
<1> SUFFICES G  BY DEF G
<1> HIDE DEF G
<1>1. ASSUME Launch  PROVE G
  BY <1>h, <1>1 DEF Launch, Unseen
<1>2. ASSUME Stop  PROVE G
  BY <1>w, <1>2 DEF Stop
<1>3. ASSUME Worker  PROVE G
  BY <1>u, <1>3, WorkerTyped DEF ui
<1>4. ASSUME Others  PROVE G
  BY <1>u, <1>4 DEF Others, ui
<1>5. ASSUME OperationEnds  PROVE G
  BY <1>s, <1>5 DEF OperationEnds, G, Pushes
<1>6. ASSUME NEW i \in Slot, LoadReads(i)  PROVE G
  BY <1>6 DEF G, LoadStep
<1>7. ASSUME NEW i \in Slot, LoadSets(i)  PROVE G
  BY <1>7 DEF G, LoadStep
<1>8. ASSUME NEW i \in Slot, LoadArrives(i)  PROVE G
  BY <1>8 DEF G, LoadStep
<1>9. ASSUME NEW i \in Slot, LoadFails(i)  PROVE G
  BY <1>9 DEF G, LoadStep
<1>10. ASSUME CloseBusy  PROVE G
  BY <1>c, <1>10 DEF CloseBusy
<1>11. ASSUME DismissReview  PROVE G
  BY <1>o, <1>a, <1>11 DEF DismissReview
<1>12. ASSUME Dismiss  PROVE G
  BY <1>o, <1>a, <1>12 DEF Dismiss
<1>13. ASSUME OpenPull  PROVE G
  BY <1>o, <1>a, <1>13 DEF OpenPull, Enter, Entered
<1>14. ASSUME OpenPreview  PROVE G
  BY <1>o, <1>a, <1>14 DEF OpenPreview, Enter, Entered
<1>15. ASSUME RefreshPull  PROVE G
  BY <1>u, <1>15 DEF RefreshPull
<1>16. ASSUME RefreshPreview  PROVE G
  BY <1>w, <1>16 DEF RefreshPreview
<1>17. ASSUME RunPull  PROVE G
  BY <1>b, <1>17 DEF RunPull, StartPull, OnlyBegins
<1>18. ASSUME RunPush  PROVE G
  BY <1>b, <1>18 DEF RunPush, StartPush, OnlyBegins
<1>19. ASSUME ClosePull  PROVE G
  BY <1>c, <1>19 DEF ClosePull
<1>20. ASSUME ClosePreview  PROVE G
  BY <1>w, <1>20 DEF ClosePreview
<1>21. ASSUME PullNext  PROVE G
  BY <1>o, <1>a, <1>k, <1>21 DEF PullNext, LeaveCollect, DetourFromPull
<1>22. ASSUME ResumePull  PROVE G
  BY <1>u, <1>22 DEF ResumePull
<1>23. ASSUME OpenAddWords  PROVE G
  BY <1>o, <1>a, <1>23 DEF OpenAddWords, Enter, Entered
<1>24. ASSUME NEW w \in Word, SaveWord(w)  PROVE G
  BY <1>u, <1>24 DEF SaveWord
<1>25. ASSUME CloseAddWords  PROVE G
  BY <1>c, <1>25 DEF CloseAddWords
<1>26. ASSUME AddWordsNext  PROVE G
  BY <1>k, <1>26 DEF AddWordsNext
<1>27. ASSUME RefreshDashboard  PROVE G
  BY <1>u, <1>27 DEF RefreshDashboard
<1>28. ASSUME OpenReview  PROVE G
  BY <1>o, <1>a, <1>28 DEF OpenReview, Enter, Entered
<1>29. ASSUME StartReview  PROVE G
  BY <1>o, <1>a, <1>29 DEF StartReview
<1>30. ASSUME LeaveReview  PROVE G
  BY <1>w, <1>30 DEF LeaveReview
<1>31. ASSUME ReviewRunPull  PROVE G
  BY <1>b, <1>31 DEF ReviewRunPull, StartPull, OnlyBegins
<1>32. ASSUME SkipCollect  PROVE G
  BY <1>o, <1>a, <1>k, <1>32 DEF SkipCollect, LeaveCollect, DetourFromPull
<1>33. ASSUME ReviewUpdate  PROVE G
  BY <1>w, <1>33 DEF ReviewUpdate
<1>34. ASSUME ReviewRunPush  PROVE G
  BY <1>b, <1>34 DEF ReviewRunPush, ReviewUpdatable, StartPush, OnlyBegins
<1>35. ASSUME CloseReviewPush  PROVE G
  BY <1>w, <1>35 DEF CloseReviewPush
<1>36. ASSUME FinishReview  PROVE G
  BY <1>o, <1>a, <1>36 DEF FinishReview, CanFinish
<1>37. ASSUME EndReview  PROVE G
  BY <1>w, <1>37 DEF EndReview, Homewards
<1>38. ASSUME ReportHome  PROVE G
  BY <1>w, <1>38 DEF ReportHome, Homewards
<1>39. ASSUME ReportNext  PROVE G
  BY <1>k, <1>39 DEF ReportNext
<1>40. ASSUME ReportRebuild  PROVE G
  BY <1>w, <1>40 DEF ReportRebuild, Homewards
<1>41. ASSUME InspectRecovery  PROVE G
  BY <1>o, <1>a, <1>u, <1>41 DEF InspectRecovery
<1>42. ASSUME RunRecovery  PROVE G
  BY <1>b, <1>42 DEF RunRecovery, Pressed, Offered, StartRecovery, OnlyBegins
<1>43. ASSUME CloseRecovery  PROVE G
  BY <1>c, <1>43 DEF CloseRecovery
<1>44. ASSUME SetupScreens  PROVE G
  BY <1>o, <1>a, <1>u, <1>c, <1>44 DEF SetupScreens, BeginSetup, ChooseFolder, ChooseApps, ReviewSetup, BackInSetup, Unseen
<1>45. ASSUME CreateProject  PROVE G
  BY <1>b, <1>45 DEF CreateProject
<1>46. ASSUME OpenExisting  PROVE G
  BY <1>w, <1>46 DEF OpenExisting, Homewards
<1>47. ASSUME SettingsScreens  PROVE G
  BY <1>o, <1>a, <1>u, <1>c, <1>47 DEF SettingsScreens, OpenApplications, ChooseApplications, ReviewApplications, BackInApplications, Unseen
<1>48. ASSUME SaveSettings  PROVE G
  BY <1>b, <1>48 DEF SaveSettings
<1> QED
  BY <1>1, <1>2, <1>3, <1>4, <1>5, <1>6, <1>7, <1>8, <1>9, <1>10, <1>11, <1>12, <1>13, <1>14,
     <1>15, <1>16, <1>17, <1>18, <1>19, <1>20, <1>21, <1>22, <1>23, <1>24, <1>25, <1>26, <1>27, <1>28,
     <1>29, <1>30, <1>31, <1>32, <1>33, <1>34, <1>35, <1>36, <1>37, <1>38, <1>39, <1>40, <1>41, <1>42,
     <1>43, <1>44, <1>45, <1>46, <1>47, <1>48
     DEF Next, User, LoadStep

(* What a step of a thread does to what has been read and to what is shown.         *)
LEMMA LoadGives ==
    ASSUME Types, LoadStep
    PROVE  /\ UNCHANGED <<folder, stack, mutation>>
           /\ \A i \in Slot : HasRead(i)' =>
                 /\ load'[i].live => load[i].live
                 /\ \/ HasRead(i) /\ load'[i].got = load[i].got
                    \/ load[i].phase = "start" /\ load'[i].phase = "set" /\ load'[i].got = Snapshot
           /\ \/ push'.shown = push.shown
              \/ \E i \in Slot : /\ load[i].phase = "got" /\ load[i].for # "Pull"
                                 /\ push'.shown = load[i].got /\ load' = [load EXCEPT ![i] = Idle]
<1>1. /\ load \in [Slot -> Loads] /\ push \in Pushes  BY DEF Types, UiTypes
<1>2. PICK i \in Slot : LoadReads(i) \/ LoadSets(i) \/ LoadArrives(i) \/ LoadFails(i)  BY DEF LoadStep
<1>3. UNCHANGED <<folder, stack, mutation>>
  BY <1>2 DEF LoadReads, LoadSets, LoadArrives, LoadFails, Still
<1>4. \A j \in Slot : /\ load[j] \in Loads /\ Overtaken(load)[j] = [load[j] EXCEPT !.latest = FALSE]
                      /\ Overtaken(load)[j].phase = load[j].phase /\ Overtaken(load)[j].got = load[j].got
                      /\ Overtaken(load)[j].live = load[j].live
  BY <1>1 DEF Overtaken, Loads
<1>5. Idle.phase = "idle" /\ load[i] \in Loads  BY <1>1 DEF Idle
<1>6. CASE LoadReads(i)
  <2>1. PICK ld \in {load, Overtaken(load)} :
            load' = [ld EXCEPT ![i].phase = "set", ![i].got = Snapshot]
    BY <1>6 DEF LoadReads
  <2>2. ld \in [Slot -> Loads] /\ \A j \in Slot : /\ ld[j].phase = load[j].phase /\ ld[j].got = load[j].got
                                                  /\ ld[j].live = load[j].live
    BY <1>1, <1>4, <2>1, LoadsTyped, ScreensTyped DEF Types, UiTypes
  <2>3. /\ \A j \in Slot \ {i} : load'[j] = ld[j]
        /\ load'[i].phase = "set" /\ load'[i].got = Snapshot /\ load'[i].live = ld[i].live
    <3>1. ld[i] \in Loads  BY <2>2
    <3> QED  BY <2>1, <2>2, <3>1 DEF Loads
  <2>4. load[i].phase = "start"  BY <1>6 DEF LoadReads
  <2>5. push'.shown = push.shown  BY <1>1, <1>6 DEF LoadReads, Pushes
  <2> QED  BY <1>3, <2>2, <2>3, <2>4, <2>5 DEF HasRead
<1>7. CASE LoadSets(i)
  <2>1. PICK ld \in {load, Overtaken(load)} :
            load' = [ld EXCEPT ![i] = IF load[i].live THEN [load[i] EXCEPT !.phase = "got", !.latest = TRUE]
                                      ELSE Idle]
    BY <1>7 DEF LoadSets
  <2>2. ld \in [Slot -> Loads] /\ \A j \in Slot : /\ ld[j].phase = load[j].phase /\ ld[j].got = load[j].got
                                                  /\ ld[j].live = load[j].live
    BY <1>1, <1>4, <2>1, LoadsTyped, ScreensTyped DEF Types, UiTypes
  <2>3. /\ \A j \in Slot \ {i} : load'[j] = ld[j]
        /\ load'[i] = Idle \/ (load'[i].got = load[i].got /\ load'[i].live = load[i].live)
    BY <1>5, <2>1, <2>2 DEF Loads
  <2>4. load[i].phase = "set"  BY <1>7 DEF LoadSets
  <2>5. push'.shown = push.shown  BY <1>1, <1>7 DEF LoadSets, Pushes
  <2> QED  BY <1>3, <1>5, <2>2, <2>3, <2>4, <2>5 DEF HasRead
<1>8. CASE LoadArrives(i)
  <2>1. load' = [load EXCEPT ![i] = Idle] /\ load[i].phase = "got"  BY <1>8 DEF LoadArrives
  <2>2. \A j \in Slot : load'[j] = IF j = i THEN Idle ELSE load[j]  BY <1>1, <2>1
  <2>3. push'.shown = push.shown \/ (load[i].for # "Pull" /\ push'.shown = load[i].got)
    BY <1>8 DEF LoadArrives
  <2> QED  BY <1>3, <1>5, <2>1, <2>2, <2>3 DEF HasRead
<1>9. CASE LoadFails(i)
  <2>1. load' = [load EXCEPT ![i] = Idle] /\ push' = push  BY <1>9 DEF LoadFails
  <2>2. \A j \in Slot : load'[j] = IF j = i THEN Idle ELSE load[j]  BY <1>1, <2>1
  <2> QED  BY <1>3, <1>5, <2>1, <2>2 DEF HasRead
<1> QED  BY <1>2, <1>6, <1>7, <1>8, <1>9

(* What a thread has read it had read before, or it reads what is there.            *)
LEMMA ReadStep ==
    ASSUME Types, ScreenInv, Next, NEW i \in Slot, HasRead(i)'
    PROVE  /\ load'[i].live => load[i].live
           /\ \/ HasRead(i) /\ load'[i].got = load[i].got
              \/ UNCHANGED <<folder, stack>> /\ load'[i].got = Snapshot /\ LoadStep
<1>1. CASE Quiet  BY <1>1 DEF Quiet, Carries, HasRead
<1>2. CASE LoadStep  BY <1>2, LoadGives
<1> QED  BY <1>1, <1>2, LoadMoves

(* The plan of an update is the one that runs, or what the user confirms.            *)
LEMMA PlanStep ==
    ASSUME Types, Next, op'.kind = "push", op'.plan # Nothing
    PROVE  \/ op.kind = "push" /\ op'.plan = op.plan
           \/ /\ op' = Start("push", push.shown) /\ push.shown # Nothing /\ CanPush(push.shown)
              /\ UNCHANGED <<push, files, edits, changes>>
<1>n. NoOp.plan = Nothing /\ [NoOp EXCEPT !.kind = op.kind, !.phase = "shown", !.outcome = op.outcome].plan = Nothing
  BY DEF NoOp
<1>t. op \in Ops  BY DEF Types, OpTypes
<1>1. CASE Rests \/ Writes \/ Others
  <2>1. op' = op
    BY <1>1 DEF Rests, Writes, SaveWord, Others, EditList, EditDict, EditConfig, Edits, folder
  <2> QED  BY <2>1
<1>2. CASE Settles \/ Leaves \/ Stop  BY <1>2, <1>n DEF Settles, Leaves, Stop
<1>3. CASE Worker  BY <1>3, WorkerTyped DEF GoesOn
<1>4. CASE OperationEnds  BY <1>4, <1>t DEF OperationEnds, Ops
<1>5. CASE Starts
  <2>0. PICK kind \in Kinds : \E plan \in PlansOf(kind) : Begins(kind, plan)  BY <1>5 DEF Starts
  <2>1. PICK plan \in PlansOf(kind) : Begins(kind, plan)  BY <2>0
  <2>2. CASE mutation  BY <2>1, <2>2 DEF Begins
  <2>3. CASE ~mutation
    <3>1. op' = Start(kind, plan)  BY <2>1, <2>3 DEF Begins
    <3>2. op'.phase = "start" /\ kind = "push"  BY <3>1 DEF Start, NoOp
    <3>3. op' = op \/ Confirms  BY <3>2, StartsAre
    <3>4. CASE Confirms
      <4>1. CASE RunPull \/ ReviewRunPull
        <5>1. Begins("pull", pull.shown)  BY <4>1 DEF RunPull, ReviewRunPull, StartPull
        <5>2. op' = Start("pull", pull.shown)  BY <2>3, <5>1 DEF Begins
        <5> QED  BY <5>2 DEF Start, NoOp
      <4>2. CASE RunPush \/ ReviewRunPush
        <5>1. Begins("push", push.shown) /\ Updatable /\ OnlyBegins
          BY <4>2 DEF RunPush, ReviewRunPush, ReviewUpdatable, StartPush
        <5> QED  BY <2>3, <5>1 DEF Begins, Updatable, OnlyBegins
      <4> QED  BY <3>4, <4>1, <4>2 DEF Confirms
    <3> QED  BY <3>3, <3>4
  <2> QED  BY <2>2, <2>3 DEF Types, UiTypes
<1> QED  BY <1>1, <1>2, <1>3, <1>4, <1>5, FolderMoves

(* What is there is a preview that can be carried out.                              *)
LEMMA SnapshotSound ==
    ASSUME edits \in Nat, changes \in Nat
    PROVE  Sound(Snapshot) /\ Current(Snapshot) /\ Usable(Snapshot)
<1>1. /\ Snapshot.edits = edits /\ Snapshot.at = changes /\ Snapshot.config = config
      /\ Snapshot.skipped = Skipped
      /\ \A d \in Dictionaries : Snapshot.dict[d] = IF d \in InUse(config) THEN dict[d] ELSE NoText("absent")
  BY DEF Snapshot
<1>2. \A d \in InUse(config) \ Skipped : d \in Dictionaries /\ dict[d].status \notin Bad
  BY DEF Skipped, Bad, InUse
<1>3. Whole(Snapshot)  BY <1>1, <1>2 DEF Whole
<1> QED  BY <1>1, <1>3 DEF Sound, Current, Usable

(* Nothing that has been read, is shown, confirmed or kept in the journal holds a   *)
(* dictionary that could not be used.                                               *)
LEMMA SoundStep ==
    ASSUME Types, RunInv, ScreenInv, SoundInv, Next  PROVE SoundInv'
<1>1. edits \in Nat /\ edits' \in Nat /\ edits <= edits' /\ changes \in Nat  BY CountsGrow
<1>g. ASSUME NEW p, Sound(p), p.edits \in Nat  PROVE Sound(p)'
  BY <1>1, <1>g DEF Sound
<1>t. /\ load \in [Slot -> Loads] /\ push \in Pushes /\ op \in Ops /\ Snapshot \in Snapshots
      /\ \A p \in Snapshots : p.edits \in Nat
  BY SnapshotTyped DEF Types, UiTypes, OpTypes, Snapshots
<1>2. ASSUME NEW i \in Slot, HasRead(i)'  PROVE Sound(load[i].got)'
  <2>1. CASE HasRead(i) /\ load'[i].got = load[i].got
    <3>1. load[i].got \in Snapshots /\ Sound(load[i].got)
      BY <1>t, <2>1 DEF SoundInv, HasRead, Loads
    <3> QED  BY <1>1, <1>t, <2>1, <3>1 DEF Sound
  <2>2. CASE load'[i].got = Snapshot  BY <1>1, <1>t, <2>2, SnapshotSound DEF Sound
  <2> QED  BY <1>2, <2>1, <2>2, ReadStep
<1>p. push.shown = Nothing \/ (push.shown \in Snapshots /\ Sound(push.shown))
  BY <1>t DEF Pushes, SoundInv
<1>3. push'.shown = Nothing \/ Sound(push.shown)'
  <2>1. CASE push'.shown \in {push.shown, Nothing}  BY <1>1, <1>t, <1>p, <2>1 DEF Sound
  <2>2. CASE push'.shown = Snapshot  BY <1>1, <1>t, <2>2, SnapshotSound DEF Sound
  <2>3. CASE LoadStep
    <3>1. CASE push'.shown # push.shown
      <4>1. PICK i \in Slot : load[i].phase = "got" /\ push'.shown = load[i].got  BY <2>3, <3>1, LoadGives
      <4>2. load[i].got \in Snapshots /\ Sound(load[i].got)
        BY <1>t, <4>1 DEF SoundInv, HasRead, Loads
      <4> QED  BY <1>1, <1>t, <4>1, <4>2 DEF Sound
    <3> QED  BY <2>1, <3>1
  <2> QED  BY <2>1, <2>2, <2>3, ShownMoves
<1>4. ASSUME op'.kind = "push", op'.plan # Nothing  PROVE (op.plan \in Snapshots /\ Sound(op.plan) /\ CanPush(op.plan))'
  <2>1. CASE op.kind = "push" /\ op'.plan = op.plan
    <3>1. op.plan \in Snapshots /\ Sound(op.plan) /\ CanPush(op.plan)  BY <1>4, <2>1 DEF SoundInv
    <3> QED  BY <1>1, <1>t, <2>1, <3>1 DEF Sound, CanPush
  <2>2. CASE op' = Start("push", push.shown) /\ push.shown # Nothing /\ CanPush(push.shown)
    <3>1. op'.plan = push.shown  BY <2>2 DEF Start, NoOp
    <3> QED  BY <1>1, <1>t, <1>p, <2>2, <3>1 DEF Sound, CanPush
  <2> QED  BY <1>4, <2>1, <2>2, PlanStep
<1>5. Good(journal')  BY FileMoves
<1> QED  BY <1>2, <1>3, <1>4, <1>5 DEF SoundInv, Good

(* A worker that ends says how.                                                     *)
LEMMA EndsSaying ==
    ASSUME Types, Worker, op'.phase = "ended"  PROVE op'.outcome # "none"
<1>t. op \in Ops  BY DEF Types, OpTypes
<1>e. ASSUME NEW result, result # "none", End(result)  PROVE op'.outcome # "none"
  BY <1>t, <1>e DEF End, Ops
<1>g. ASSUME NEW phase, phase # "ended", Go(phase)  PROVE FALSE
  BY <1>t, <1>g DEF Go, Ops
<1>1. CASE WorkPull
  BY <1>e, <1>1 DEF WorkPull, Fails, PullStops, PullWrites, Stopped
<1>2. CASE WorkPush
  <2>1. ASSUME NEW S, NEW unfinished  PROVE PushOutcome(op.plan, S, unfinished) # "none"
    BY DEF PushOutcome
  <2>2. CASE PushWrites(op.plan)  BY <1>e, <2>1, <2>2 DEF PushWrites
  <2>3. CASE Fails \/ PushStops \/ PushConflicts(op.plan)
    BY <1>e, <2>3 DEF Fails, PushStops, PushConflicts, Stopped
  <2> QED  BY <1>2, <2>2, <2>3 DEF WorkPush
<1>3. CASE WorkRecover \/ WorkDiscard
  BY <1>e, <1>3 DEF WorkRecover, WorkDiscard, Fails, Stopped
<1>4. CASE SetupStep
  <2>1. CASE SetupChecks  BY <1>e, <1>g, <2>1 DEF SetupChecks
  <2>2. CASE SetupLocks
    <3>1. op'.phase = "create" \/ \E result \in {"failed", "error", "stopped"} : End(result)
      BY <1>t, <2>2 DEF SetupLocks, Ops
    <3> QED  BY <1>e, <3>1
  <2>3. CASE SetupCreates \/ SetupBreaksOff \/ SetupUndoes
    <3>1. op'.phase # "ended"
      BY <1>t, <2>3 DEF SetupCreates, SetupBreaksOff, SetupUndoes, At, Ops
    <3> QED  BY <3>1
  <2>4. CASE SetupEnds \/ SetupIsUndone  BY <1>e, <2>4 DEF SetupEnds, SetupIsUndone
  <2> QED  BY <1>4, <2>1, <2>2, <2>3, <2>4 DEF SetupStep
<1>5. CASE SaveStep
  BY <1>e, <1>g, <1>5 DEF SaveStep, SaveChecks, SaveLocks, SaveWrites, SaveVerifies
<1> QED  BY <1>1, <1>2, <1>3, <1>4, <1>5 DEF Worker

(* What becomes of an operation that has ended.                                     *)
LEMMA EndedMoves ==
    ASSUME Types, Next, op'.phase \in {"ended", "shown"}, op'.plan # Nothing
    PROVE  /\ op'.kind = op.kind /\ op'.plan = op.plan
           /\ \/ Worker /\ op'.phase = "ended"
              \/ /\ op.phase \in {"ended", "shown"} /\ op'.outcome = op.outcome
                 /\ Writes \/ Others \/ UNCHANGED <<files, edits>>
<1>n. NoOp.plan = Nothing /\ [NoOp EXCEPT !.kind = op.kind, !.phase = "shown", !.outcome = op.outcome].plan = Nothing
  BY DEF NoOp
<1>t. op \in Ops  BY DEF Types, OpTypes
<1>1. CASE Rests \/ Writes \/ Others
  <2>1. op' = op
    BY <1>1 DEF Rests, Writes, SaveWord, Others, EditList, EditDict, EditConfig, Edits, folder
  <2>2. Writes \/ Others \/ UNCHANGED <<files, edits>>  BY <1>1 DEF Rests, folder
  <2> QED  BY <2>1, <2>2
<1>2. CASE Settles \/ Leaves \/ Stop  BY <1>2, <1>n DEF Settles, Leaves, Stop
<1>3. CASE Worker  BY <1>3, WorkerTyped DEF GoesOn
<1>4. CASE OperationEnds  BY <1>4, <1>t DEF OperationEnds, Ops
<1>5. CASE Starts
  <2>0. PICK kind \in Kinds : \E plan \in PlansOf(kind) : Begins(kind, plan)  BY <1>5 DEF Starts
  <2>1. PICK plan \in PlansOf(kind) : Begins(kind, plan)  BY <2>0
  <2>2. ASSUME op' = Start(kind, plan)  PROVE FALSE  BY <2>2 DEF Start, NoOp
  <2>3. op' = op  BY <2>1, <2>2 DEF Begins
  <2> QED  BY <1>5, <2>3 DEF Starts
<1> QED  BY <1>1, <1>2, <1>3, <1>4, <1>5, FolderMoves

(* An operation that has ended has an outcome.                                      *)
LEMMA OutcomeStep ==
    ASSUME Types, OutcomeInv, Next  PROVE OutcomeInv'
<1>1. ASSUME op'.phase \in {"ended", "shown"}, op'.plan # Nothing  PROVE op'.outcome # "none"
  BY <1>1, EndedMoves, EndsSaying DEF OutcomeInv
<1> QED  BY <1>1 DEF OutcomeInv

(* While the screen of an operation is there, no word is added.                     *)
LEMMA NoWords ==
    ASSUME Types, ScreenInv, op.plan # Nothing  PROVE ~Writes
<1>1. ~Elsewhere  BY CoveredNotElsewhere DEF Types, UiTypes, ScreenInv
<1> QED  BY <1>1 DEF Writes, SaveWord, On, Elsewhere

(* An update that leaves nothing out makes the applications match the list.         *)
LEMMA WritesTruth ==
    ASSUME Types, NEW p \in Snapshots, PushWrites(p), op'.outcome = "completed"  PROVE Truth'
<1>1. PICK S \in SUBSET ToUpdate(p), unfinished \in {ToUpdate(p) # {}, FALSE} :
         dict' = Updated(p, S) /\ End(PushOutcome(p, S, unfinished))
  BY DEF PushWrites
<1>2. op'.outcome = PushOutcome(p, S, unfinished)  BY <1>1 DEF End, Types, OpTypes, Ops
<1>3. S = ToUpdate(p) /\ p.skipped = {}  BY <1>2 DEF PushOutcome
<1>4. /\ list' = list /\ config' = config /\ p.config = config /\ p.list = list
      /\ \A d \in InUse(config) : p.dict[d] = dict[d]
  BY <1>3 DEF PushWrites, SameRuntime, Unchanged
<1>5. ASSUME NEW d \in InUse(config)  PROVE dict'[d].status = "absent" \/ dict'[d].words = list.words
  <2>1. d \in Dictionaries /\ dict'[d] = IF d \in S THEN p.list ELSE dict[d]
    BY <1>1 DEF InUse, Updated
  <2>2. d \notin S => p.dict[d].status = "absent" \/ p.dict[d].words = p.list.words
    BY <1>3, <1>4 DEF ToUpdate
  <2> QED  BY <1>4, <2>1, <2>2
<1> QED  BY <1>4, <1>5 DEF Truth

(* While nothing is edited, what an update has completed stays so to its report.    *)
LEMMA UpdatedStep ==
    ASSUME Types, ScreenInv, SoundInv, UpdatedInv, Next  PROVE UpdatedInv'
<1> SUFFICES ASSUME op'.kind = "push", op'.plan # Nothing, op'.phase \in {"ended", "shown"},
                    op'.outcome = "completed", op'.plan.edits = edits'
             PROVE  Truth'
  BY DEF UpdatedInv
<1>1. op.kind = "push" /\ op.plan = op'.plan  BY EndedMoves
<1>2. op.plan \in Snapshots /\ op.plan.edits <= edits /\ op.plan.edits \in Nat
  BY <1>1 DEF SoundInv, Sound, Snapshots
<1>3. CASE Worker
  <2>1. WorkPush
    BY <1>1, <1>3 DEF Worker, WorkPull, WorkRecover, WorkDiscard, At, SetupStep, SetupChecks, SetupLocks,
       SetupCreates, SetupBreaksOff, SetupEnds, SetupUndoes, SetupIsUndone, SaveStep, SaveChecks, SaveLocks,
       SaveWrites, SaveVerifies
  <2>2. \A result : End(result) => op'.outcome = result  BY DEF End, Types, OpTypes, Ops
  <2>3. PushWrites(op.plan)  BY <2>1, <2>2 DEF WorkPush, Fails, PushStops, PushConflicts, Stopped
  <2> QED  BY <1>2, <2>3, WritesTruth
<1>4. CASE UNCHANGED <<files, edits>> /\ op.phase \in {"ended", "shown"} /\ op'.outcome = op.outcome
  <2>1. Truth  BY <1>1, <1>4 DEF UpdatedInv
  <2> QED  BY <1>4, <2>1 DEF Truth, InUse, files
<1>5. CASE Others
  <2>1. edits' = edits + 1 /\ edits \in Nat  BY <1>5, CountsGrow
  <2> QED  BY <1>1, <1>2, <2>1
<1>6. CASE Writes  BY <1>1, <1>6, NoWords
<1> QED  BY <1>3, <1>4, <1>5, <1>6, EndedMoves

(* Under Start here and Applications no thread has read anything, and no other      *)
(* screen is on top.                                                                *)
LEMMA MakesCalm ==
    ASSUME Types, ScreenInv, CalmInv, Makes
    PROVE  (\A i \in Slot : ~HasRead(i)') /\ ~On("ReviewPush")' /\ ~On("SessionReport")'
<1>1. op.plan # Nothing /\ op.kind \in {"setup", "targets"}
  <2>1. op.kind \in Kinds /\ op.plan \in PlansOf(op.kind)  BY DEF Types, OpTypes, Makes
  <2> QED  BY <2>1, PlanIsThere DEF Makes
<1>2. ~Elsewhere  BY <1>1, CoveredNotElsewhere DEF Types, UiTypes, ScreenInv
<1>3. Calm  BY <1>1 DEF ScreenInv, CalmInv
<1>4. \A i \in Slot : load'[i].phase = "idle"  BY <1>3 DEF Makes, Calm, Idle
<1>5. \A i \in Slot : ~HasRead(i)'  BY <1>4 DEF HasRead
<1>6. stack' = stack  BY DEF Makes
<1> QED  BY <1>2, <1>5, <1>6 DEF Elsewhere, On

(* A preview of the last change and the last edit is still what is there.           *)
LEMMA CurrentStays ==
    ASSUME Types, SoundInv, Next, Same \/ Ours \/ Others,
           NEW p \in Snapshots, p.edits <= edits, Current(p)
    PROVE  Current(p)' /\ (Usable(p) => Usable(p)')
<1>1. edits \in Nat /\ changes \in Nat /\ p.edits \in Nat /\ p.at \in Nat
  BY CountsGrow DEF Snapshots
<1>2. CASE Same
  <2>1. UNCHANGED <<list, dict, config, edits>> /\ changes' \in {changes, changes + 1}  BY <1>2 DEF Same
  <2>2. Skipped' = Skipped  BY <2>1 DEF Skipped, InUse
  <2>3. changes' = changes => Snapshot' = Snapshot  BY <2>1, <2>2 DEF Snapshot, InUse
  <2> QED  BY <1>1, <2>1, <2>2, <2>3 DEF Current, Usable
<1>3. CASE Ours
  <2>1. edits' = edits /\ changes' = changes + 1 /\ Skipped' \subseteq Skipped  BY <1>3 DEF Ours
  <2> QED  BY <1>1, <2>1 DEF Current, Usable
<1>4. CASE Others
  <2>1. edits' = edits + 1 /\ changes' = changes  BY <1>4, CountsGrow
  <2>2. p.edits # edits'  BY <1>1, <2>1
  <2> QED  BY <1>1, <2>1, <2>2 DEF Current, Usable
<1> QED  BY <1>2, <1>3, <1>4

(* A preview of the last change and the last edit is what is there, always.         *)
LEMMA CurrentStep ==
    ASSUME Types, RunInv, ScreenInv, SoundInv, CalmInv, CurrentInv, Next  PROVE CurrentInv'
<1>t. /\ load \in [Slot -> Loads] /\ push \in Pushes /\ edits \in Nat /\ changes \in Nat
      /\ Snapshot \in Snapshots
  BY CountsGrow, SnapshotTyped DEF Types, UiTypes
<1>r. ASSUME NEW i \in Slot, HasRead(i)
      PROVE  load[i].got \in Snapshots /\ load[i].got.edits <= edits /\ Current(load[i].got) /\ Usable(load[i].got)
  BY <1>t, <1>r DEF HasRead, Loads, SoundInv, Sound, CurrentInv
<1>1. CASE Makes  BY <1>1, MakesCalm DEF CurrentInv
<1>2. CASE Same \/ Ours \/ Others
  <2>c. ASSUME NEW p \in Snapshots, p.edits <= edits, Current(p)
        PROVE  Current(p)' /\ (Usable(p) => Usable(p)')
    BY <1>2, <2>c, CurrentStays
  <2>1. ASSUME NEW i \in Slot, HasRead(i)'  PROVE (Current(load[i].got) /\ Usable(load[i].got))'
    <3>1. CASE HasRead(i) /\ load'[i].got = load[i].got
      <4>1. PICK p \in Snapshots : p = load[i].got  BY <1>r, <3>1
      <4>2. Current(p)' /\ Usable(p)'  BY <1>r, <2>c, <3>1, <4>1
      <4> QED  BY <3>1, <4>1, <4>2 DEF Current, Usable
    <3>2. CASE UNCHANGED <<folder, stack>> /\ load'[i].got = Snapshot
      <4>1. PICK p \in Snapshots : p = Snapshot  BY <1>t
      <4>2. p.edits <= edits /\ Current(p) /\ Usable(p)  BY <1>t, <4>1, SnapshotSound DEF Sound
      <4>3. Current(p)' /\ Usable(p)'  BY <2>c, <4>2
      <4> QED  BY <3>2, <4>1, <4>3 DEF Current, Usable
    <3> QED  BY <2>1, <3>1, <3>2, ReadStep
  <2>2. ASSUME On("ReviewPush")', push'.shown # Nothing  PROVE Current(push.shown)'
    <3>p. ASSUME NEW p \in Snapshots, p.edits <= edits, Current(p), push'.shown = p  PROVE Current(push.shown)'
      <4>1. Current(p)'  BY <2>c, <3>p
      <4> QED  BY <3>p, <4>1 DEF Current
    <3>1. CASE UNCHANGED stack /\ push'.shown = push.shown
      <4>1. push.shown \in Snapshots /\ push.shown.edits <= edits /\ Current(push.shown)
        BY <1>t, <2>2, <3>1 DEF Pushes, SoundInv, Sound, CurrentInv, On
      <4> QED  BY <3>1, <3>p, <4>1
    <3>2. CASE LoadStep /\ push'.shown # push.shown
      <4>1. PICK i \in Slot : load[i].phase = "got" /\ push'.shown = load[i].got  BY <3>2, LoadGives
      <4> QED  BY <1>r, <3>p, <4>1 DEF HasRead
    <3> QED  BY <2>2, <3>1, <3>2, ShownMoves, LoadGives
  <2> QED  BY <2>1, <2>2 DEF CurrentInv
<1> QED  BY <1>1, <1>2, FileMoves

(* While a preview is waited for, or shown in the second step of a Review session,  *)
(* this terminal changes nothing.                                                   *)
LEMMA HoldsStill ==
    ASSUME Types, RunInv, ScreenInv, LoadInv, Next, changes' # changes
    PROVE  ~On("ReviewPush")' /\ \A i \in Slot : ~(load'[i].live /\ HasRead(i)')
<1>1. Worker \/ Writes
  <2>1. CASE Rests \/ Starts \/ Settles \/ Leaves \/ Others \/ OperationEnds \/ Stop
    BY <2>1 DEF Rests, Starts, Settles, Leaves, Others, EditList, EditDict, EditConfig, Edits, OperationEnds,
       Stop, folder
  <2> QED  BY <2>1, FolderMoves
<1>2. stack' = stack /\ load' = load
  BY <1>1, WorkerTyped DEF Writes, SaveWord, ui
<1>3. \A x \in {"Pull", "Preview", "ReviewPush"} : ~On(x)
  <2>1. CASE Worker
    <3>1. Unsettled  BY <2>1, WorkerTyped DEF GoesOn, Unsettled
    <3>2. ~Elsewhere  BY <3>1, CoveredNotElsewhere DEF RunInv, Types, UiTypes
    <3> QED  BY <3>2 DEF Elsewhere, On
  <2>2. CASE Writes  BY <2>2 DEF Writes, SaveWord, On
  <2> QED  BY <1>1, <2>1, <2>2
<1>4. \A i \in Slot : ~load[i].live  BY <1>3 DEF LoadInv
<1> QED  BY <1>2, <1>3, <1>4 DEF On

(* What was read after a later edit than what is shown, or waited for, was read     *)
(* after the last change.                                                           *)
LEMMA OrderStep ==
    ASSUME Types, RunInv, ScreenInv, LoadInv, SoundInv, OrderInv, Next  PROVE OrderInv'
<1>t. /\ load \in [Slot -> Loads] /\ push \in Pushes /\ edits \in Nat /\ Snapshot \in Snapshots
      /\ \A p \in Snapshots : p.edits \in Nat
      /\ Snapshot.edits = edits /\ Snapshot.at = changes
  BY CountsGrow, SnapshotTyped DEF Types, UiTypes, Snapshots, Snapshot
<1>r. ASSUME NEW i \in Slot, HasRead(i)  PROVE load[i].got \in Snapshots /\ load[i].got.edits <= edits
  BY <1>t, <1>r DEF HasRead, Loads, SoundInv, Sound
<1>1. CASE changes' # changes  BY <1>1, HoldsStill DEF OrderInv
<1>2. CASE changes' = changes
  <2>k. ASSUME NEW n, Later(n)  PROVE Later(n)'
    <3>1. ASSUME NEW j \in Slot, HasRead(j)', n < load'[j].got.edits  PROVE load'[j].got.at = changes'
      <4>1. CASE HasRead(j) /\ load'[j].got = load[j].got  BY <1>2, <2>k, <3>1, <4>1 DEF Later
      <4>2. CASE load'[j].got = Snapshot  BY <1>2, <1>t, <4>2
      <4> QED  BY <3>1, <4>1, <4>2, ReadStep
    <3> QED  BY <3>1 DEF Later
  <2>1. ASSUME On("ReviewPush")', push'.shown # Nothing  PROVE Later(push.shown.edits)'
    <3>1. CASE UNCHANGED stack /\ push'.shown = push.shown
      <4>1. PICK n : n = push.shown.edits  OBVIOUS
      <4>2. Later(n)  BY <2>1, <3>1, <4>1 DEF OrderInv, On
      <4>3. Later(n)'  BY <2>k, <4>2
      <4> QED  BY <3>1, <4>1, <4>3
    <3>2. CASE LoadStep /\ push'.shown # push.shown
      <4>1. PICK i \in Slot : load[i].phase = "got" /\ push'.shown = load[i].got  BY <3>2, LoadGives
      <4>2. PICK n : n = load[i].got.edits  OBVIOUS
      <4>3. Later(n)  BY <4>1, <4>2 DEF OrderInv, LoadInv, HasRead
      <4>4. Later(n)'  BY <2>k, <4>3
      <4> QED  BY <4>1, <4>2, <4>4
    <3> QED  BY <2>1, <3>1, <3>2, ShownMoves, LoadGives
  <2>2. ASSUME NEW i \in Slot, load'[i].live, HasRead(i)'  PROVE Later(load[i].got.edits)'
    <3>1. CASE HasRead(i) /\ load'[i].got = load[i].got
      <4>1. PICK n : n = load[i].got.edits  OBVIOUS
      <4>2. load[i].live  BY <2>2, ReadStep
      <4>3. Later(n)  BY <3>1, <4>1, <4>2 DEF OrderInv
      <4>4. Later(n)'  BY <2>k, <4>3
      <4> QED  BY <3>1, <4>1, <4>4
    <3>2. CASE UNCHANGED <<folder, stack>> /\ load'[i].got = Snapshot
      <4>1. ASSUME NEW j \in Slot, HasRead(j)', load'[i].got.edits < load'[j].got.edits  PROVE FALSE
        <5>1. load'[j].got = Snapshot \/ (HasRead(j) /\ load'[j].got = load[j].got)  BY <4>1, ReadStep
        <5>2. load'[j].got.edits \in Nat /\ load'[j].got.edits <= edits  BY <1>t, <1>r, <5>1
        <5> QED  BY <1>t, <3>2, <4>1, <5>2
      <4> QED  BY <4>1 DEF Later
    <3> QED  BY <2>2, <3>1, <3>2, ReadStep
  <2> QED  BY <2>1, <2>2 DEF OrderInv
<1> QED  BY <1>1, <1>2

(* How the Review session goes on: a step is recorded, the report is made at the    *)
(* end of the update or without one, or the session begins or ends.                 *)
Recorded == \E outcome : session' = Record(session, "pull", outcome)
Skips    == Recorded /\ ~On("SessionReport") /\ ~On("SessionReport")'
Turns    == session' \in {NoSession, [NoSession EXCEPT !.on = TRUE]} /\ ~On("SessionReport")'
Lasts    == UNCHANGED session /\ (On("SessionReport")' <=> On("SessionReport"))

(* Every step does one of these to the session.                                     *)
LEMMA SessionMoves ==
    ASSUME Types, ScreenInv, Next
    PROVE  Lasts \/ Turns \/ Skips \/ LoadStep \/ FinishReview \/ (DismissReview /\ On("SessionReport")')
<1> DEFINE G == Lasts \/ Turns \/ Skips \/ LoadStep \/ FinishReview \/ (DismissReview /\ On("SessionReport")')
<1>s. stack \in Seq(AllScreens) /\ Chain(stack)  BY DEF Types, UiTypes, ScreenInv
<1>a. {"Pull", "Preview", "AddWords", "ReviewStart", "ReviewPull", "ReviewPullComplete", "ReviewPush", "Report",
       "Recovery", "SetupWordlist", "SetupTargets", "SetupPreview", "Settings", "SettingsReview", "Operation",
       "Busy", "FirstWin"}
          \subseteq AllScreens \ {"SessionReport"}
  BY DEF AllScreens
<1>u. UNCHANGED <<stack, session>> => G  BY DEF G, Lasts, On
<1>n. ASSUME NEW x, x # "SessionReport", On(x)  PROVE ~On("SessionReport")
  BY <1>s, <1>n, Tops
<1>p. ASSUME NEW x, x # "SessionReport", On(x), NEW y \in AllScreens \ {"SessionReport"},
             stack' = Opened(y) \/ stack' = Append(Closed, y)
      PROVE  ~On("SessionReport") /\ ~On("SessionReport")'
  BY <1>s, <1>p, <1>n, Tops
<1>q. ASSUME NEW x, x \notin {"SessionReport", "Dashboard", "SetupWelcome"}, On(x), stack' = Closed
      PROVE  ~On("SessionReport") /\ ~On("SessionReport")'
  <2>1. \A z : On(z)' => Upon(z, x)  BY <1>s, <1>q, Tops
  <2> QED  BY <1>n, <1>q, <2>1 DEF Upon
<1>r. ASSUME stack' \in {<<>>, <<"SetupWelcome">>, Home, Home \o <<>>, Home \o <<"FirstWin">>, Home \o <<"Preview">>}
      PROVE  ~On("SessionReport")'
  BY <1>r, HomeTop
<1>l. ~On("SessionReport") /\ ~On("SessionReport")' /\ UNCHANGED session => G  BY DEF G, Lasts
<1>t. ~On("SessionReport")' /\ session' \in {NoSession, [NoSession EXCEPT !.on = TRUE]} => G  BY DEF G, Turns
<1>b. ASSUME NEW x, x # "SessionReport", On(x), NEW kind, NEW plan, Begins(kind, plan), UNCHANGED session
      PROVE  G
  <2>1. stack' = Opened("Busy") \/ stack' = Opened("Operation")  BY <1>b DEF Begins
  <2> QED  BY <1>a, <1>b, <1>l, <1>p, <2>1
<1>k. ASSUME NEW x, x # "SessionReport", On(x), NEW from \in {stack, Closed}, Continue(from)  PROVE G
  <2>1. PICK y \in {"Preview", "ReviewPush"} : stack' = Append(from, y)  BY <1>k DEF Continue
  <2>2. ~On("SessionReport") /\ ~On("SessionReport")'  BY <1>a, <1>k, <1>p, <2>1 DEF Opened
  <2>3. UNCHANGED session \/ Recorded  BY <1>k DEF Continue, Recorded
  <2> QED  BY <1>l, <2>2, <2>3 DEF G, Skips
<1> SUFFICES G  BY DEF G
<1> HIDE DEF G
<1>1. ASSUME Launch  PROVE G
  <2>1. ~On("SessionReport")'  BY <1>r, <1>1 DEF Launch
  <2>2. ~On("SessionReport") /\ UNCHANGED session  BY <1>1 DEF Launch, Unseen, On
  <2> QED  BY <1>l, <2>1, <2>2
<1>2. ASSUME Stop  PROVE G
  <2>1. ~On("SessionReport")'  BY <1>r, <1>2 DEF Stop
  <2>2. session' = NoSession  BY <1>2 DEF Stop
  <2> QED  BY <1>t, <2>1, <2>2
<1>3. ASSUME Worker  PROVE G
  BY <1>u, <1>3, WorkerTyped DEF ui
<1>4. ASSUME Others  PROVE G
  BY <1>u, <1>4 DEF Others, ui
<1>5. ASSUME OperationEnds  PROVE G
  BY <1>u, <1>5 DEF OperationEnds
<1>6. ASSUME NEW i \in Slot, LoadReads(i)  PROVE G
  BY <1>6 DEF G, LoadStep
<1>7. ASSUME NEW i \in Slot, LoadSets(i)  PROVE G
  BY <1>7 DEF G, LoadStep
<1>8. ASSUME NEW i \in Slot, LoadArrives(i)  PROVE G
  BY <1>8 DEF G, LoadStep
<1>9. ASSUME NEW i \in Slot, LoadFails(i)  PROVE G
  BY <1>9 DEF G, LoadStep
<1>10. ASSUME CloseBusy  PROVE G
  BY <1>l, <1>q, <1>10 DEF CloseBusy
<1>11. ASSUME DismissReview  PROVE G
  <2>1. CASE stack' = Append(Closed, "ReviewPullComplete") /\ session' = Record(session, "pull", op.outcome)
    <3>1. On("Operation")  BY <1>11 DEF DismissReview
    <3> QED  BY <1>a, <1>p, <2>1, <3>1 DEF G, Skips, Recorded
  <2>2. CASE stack' = Append(Closed, "SessionReport")
    <3>1. On("Operation")  BY <1>11 DEF DismissReview
    <3>2. On("SessionReport")'  BY <1>s, <2>2, <3>1, Tops DEF AllScreens
    <3> QED  BY <1>11, <3>2 DEF G
  <2> QED  BY <1>11, <2>1, <2>2 DEF DismissReview
<1>12. ASSUME Dismiss  PROVE G
  BY <1>a, <1>l, <1>p, <1>12 DEF Dismiss
<1>13. ASSUME OpenPull  PROVE G
  BY <1>a, <1>l, <1>p, <1>13 DEF OpenPull, Enter, Entered
<1>14. ASSUME OpenPreview  PROVE G
  BY <1>a, <1>l, <1>p, <1>14 DEF OpenPreview, Enter, Entered
<1>15. ASSUME RefreshPull  PROVE G
  BY <1>u, <1>15 DEF RefreshPull
<1>16. ASSUME RefreshPreview  PROVE G
  BY <1>u, <1>16 DEF RefreshPreview
<1>17. ASSUME RunPull  PROVE G
  BY <1>b, <1>17 DEF RunPull, StartPull, OnlyBegins
<1>18. ASSUME RunPush  PROVE G
  BY <1>b, <1>18 DEF RunPush, StartPush, OnlyBegins
<1>19. ASSUME ClosePull  PROVE G
  BY <1>l, <1>q, <1>19 DEF ClosePull
<1>20. ASSUME ClosePreview  PROVE G
  BY <1>l, <1>q, <1>20 DEF ClosePreview
<1>21. ASSUME PullNext  PROVE G
  BY <1>a, <1>l, <1>p, <1>k, <1>21 DEF PullNext, LeaveCollect, DetourFromPull
<1>22. ASSUME ResumePull  PROVE G
  BY <1>u, <1>22 DEF ResumePull
<1>23. ASSUME OpenAddWords  PROVE G
  BY <1>a, <1>l, <1>p, <1>23 DEF OpenAddWords, Enter, Entered
<1>24. ASSUME NEW w \in Word, SaveWord(w)  PROVE G
  BY <1>u, <1>24 DEF SaveWord
<1>25. ASSUME CloseAddWords  PROVE G
  BY <1>l, <1>q, <1>25 DEF CloseAddWords
<1>26. ASSUME AddWordsNext  PROVE G
  BY <1>k, <1>26 DEF AddWordsNext
<1>27. ASSUME RefreshDashboard  PROVE G
  BY <1>u, <1>27 DEF RefreshDashboard
<1>28. ASSUME OpenReview  PROVE G
  BY <1>a, <1>l, <1>p, <1>28 DEF OpenReview, Enter, Entered
<1>29. ASSUME StartReview  PROVE G
  BY <1>a, <1>t, <1>p, <1>29 DEF StartReview
<1>30. ASSUME LeaveReview  PROVE G
  BY <1>t, <1>q, <1>30 DEF LeaveReview
<1>31. ASSUME ReviewRunPull  PROVE G
  BY <1>b, <1>31 DEF ReviewRunPull, StartPull, OnlyBegins
<1>32. ASSUME SkipCollect  PROVE G
  BY <1>a, <1>l, <1>p, <1>k, <1>32 DEF SkipCollect, LeaveCollect, DetourFromPull
<1>33. ASSUME ReviewUpdate  PROVE G
  BY <1>a, <1>l, <1>p, <1>33 DEF ReviewUpdate
<1>34. ASSUME ReviewRunPush  PROVE G
  BY <1>b, <1>34 DEF ReviewRunPush, ReviewUpdatable, StartPush, OnlyBegins
<1>35. ASSUME CloseReviewPush  PROVE G
  BY <1>l, <1>q, <1>35 DEF CloseReviewPush
<1>36. ASSUME FinishReview  PROVE G
  BY <1>36 DEF G
<1>37. ASSUME EndReview  PROVE G
  BY <1>r, <1>t, <1>37 DEF EndReview, Homewards
<1>38. ASSUME ReportHome  PROVE G
  BY <1>l, <1>n, <1>r, <1>38 DEF ReportHome, Homewards, LeaveReport
<1>39. ASSUME ReportNext  PROVE G
  BY <1>k, <1>39 DEF ReportNext
<1>40. ASSUME ReportRebuild  PROVE G
  BY <1>l, <1>n, <1>r, <1>40 DEF ReportRebuild, RebuildOffered, Homewards, LeaveReport
<1>41. ASSUME InspectRecovery  PROVE G
  BY <1>a, <1>l, <1>p, <1>u, <1>41 DEF InspectRecovery
<1>42. ASSUME RunRecovery  PROVE G
  BY <1>b, <1>42 DEF RunRecovery, Pressed, Offered, StartRecovery, OnlyBegins
<1>43. ASSUME CloseRecovery  PROVE G
  BY <1>l, <1>q, <1>43 DEF CloseRecovery
<1>44. ASSUME SetupScreens  PROVE G
  BY <1>a, <1>l, <1>p, <1>q, <1>u, <1>44 DEF SetupScreens, BeginSetup, ChooseFolder, ChooseApps, ReviewSetup, BackInSetup, Unseen
<1>45. ASSUME CreateProject  PROVE G
  BY <1>b, <1>45 DEF CreateProject
<1>46. ASSUME OpenExisting  PROVE G
  BY <1>l, <1>n, <1>r, <1>46 DEF OpenExisting, Homewards
<1>47. ASSUME SettingsScreens  PROVE G
  BY <1>a, <1>l, <1>p, <1>q, <1>u, <1>47 DEF SettingsScreens, OpenApplications, ChooseApplications, ReviewApplications, BackInApplications, Unseen
<1>48. ASSUME SaveSettings  PROVE G
  BY <1>b, <1>48 DEF SaveSettings
<1> QED
  BY <1>1, <1>2, <1>3, <1>4, <1>5, <1>6, <1>7, <1>8, <1>9, <1>10, <1>11, <1>12, <1>13, <1>14,
     <1>15, <1>16, <1>17, <1>18, <1>19, <1>20, <1>21, <1>22, <1>23, <1>24, <1>25, <1>26, <1>27, <1>28,
     <1>29, <1>30, <1>31, <1>32, <1>33, <1>34, <1>35, <1>36, <1>37, <1>38, <1>39, <1>40, <1>41, <1>42,
     <1>43, <1>44, <1>45, <1>46, <1>47, <1>48
     DEF Next, User, LoadStep

(* What is recorded and reported leaves the rest of the session as it is.            *)
LEMMA RecordIs ==
    ASSUME NEW s \in ReviewSessions, NEW step \in {"pull", "push"}, NEW outcome
    PROVE  /\ Record(s, step, outcome).on = s.on /\ Record(s, step, outcome).preview = s.preview
           /\ Record(s, step, outcome).matched = s.matched /\ Record(s, step, outcome).edits = s.edits
           /\ Record(s, step, outcome).pull = IF step = "pull" THEN outcome ELSE s.pull
           /\ Record(s, step, outcome).push = IF step = "push" THEN outcome ELSE s.push
           /\ DOMAIN Record(s, step, outcome) = DOMAIN s
           /\ Record(s, step, outcome) = [x \in DOMAIN s |-> Record(s, step, outcome)[x]]
  BY DEF Record, ReviewSessions

(* A report says whether the lists match, and of which edits.                       *)
LEMMA ReportsAre ==
    ASSUME session \in ReviewSessions, NEW s, NEW n, Reports(s, n),
           s = session \/ \E step \in {"pull", "push"} : \E outcome : s = Record(session, step, outcome)
    PROVE  /\ session'.on = session.on /\ session'.preview = session.preview /\ s.preview = session.preview
           /\ session'.matched = Matched(s) /\ session'.edits = n
<1>1. DOMAIN s = {"on", "pull", "push", "preview", "matched", "edits"} /\ s = [x \in DOMAIN s |-> s[x]]
      /\ s.on = session.on /\ s.preview = session.preview
  BY RecordIs DEF ReviewSessions
<1>2. session' = [s EXCEPT !.matched = Matched(s), !.edits = n]  BY DEF Reports
<1>3. PICK m : m = Matched(s)  OBVIOUS
<1>4. session' = [s EXCEPT !.matched = m, !.edits = n]  BY <1>2, <1>3
<1> QED  BY <1>1, <1>3, <1>4

(* The report that a finished operation leads to.                                   *)
LEMMA DismissIs ==
    ASSUME Types, ScreenInv, DismissReview, On("SessionReport")'
    PROVE  /\ On("Operation") /\ op.phase = "shown" /\ UNCHANGED <<files, changes, edits, push, load>>
           /\ \/ ~Succeeded /\ Reports(Record(session, "pull", op.outcome), op.plan.edits)
              \/ Under("ReviewPush") /\ Reports(Record(session, "push", op.outcome), op.plan.edits)
<1>1. On("Operation") /\ stack \in Seq(AllScreens) /\ Chain(stack)
  BY DEF DismissReview, Types, UiTypes, ScreenInv
<1>2. stack' # Append(Closed, "ReviewPullComplete")
  <2>1. "ReviewPullComplete" \in AllScreens  BY DEF AllScreens
  <2> QED  BY <1>1, <2>1, Tops
<1> QED  BY <1>1, <1>2 DEF DismissReview

(* Only a thread of the second step, in a session, sets the preview of the session.  *)
LEMMA LoadSession ==
    ASSUME Types, LoadStep
    PROVE  \/ UNCHANGED session
           \/ \E i \in Slot : /\ load[i].phase = "set" /\ session.on
                              /\ LoadSets(i) /\ session' = [session EXCEPT !.preview = Clean(load[i].got)]
  BY DEF LoadStep, LoadReads, LoadSets, LoadArrives, LoadFails

(* What the session keeps.                                                          *)
LEMMA SessionStep ==
    ASSUME Types, RunInv, ScreenInv, SoundInv, PlaceInv, OutcomeInv, SessionInv, Next  PROVE SessionInv'
<1>t. /\ session \in ReviewSessions /\ edits \in Nat /\ edits' \in Nat /\ edits <= edits'
      /\ stack \in Seq(AllScreens) /\ Chain(stack)
      /\ session.preview.edits \in Nat
  BY CountsGrow DEF Types, UiTypes, ScreenInv, ReviewSessions
<1>d. load \in [Slot -> Loads] /\ \A p \in Snapshots : p.edits \in Nat
  BY DEF Types, UiTypes, Snapshots
<1>1. CASE Lasts
  <2>1. session' = session /\ (On("SessionReport")' <=> On("SessionReport"))  BY <1>1 DEF Lasts
  <2>2. session.edits \in Nat /\ session.edits <= edits => session.edits <= edits'  BY <1>t
  <2> QED  BY <1>t, <2>1, <2>2 DEF SessionInv
<1>2. CASE Turns
  <2>1. session'.preview = NoPreview /\ session'.push = "none"  BY <1>2 DEF Turns, NoSession
  <2>2. NoPreview.clean = FALSE /\ NoPreview.edits = 0  BY DEF NoPreview
  <2> QED  BY <1>2, <1>t, <2>1, <2>2 DEF SessionInv, Turns
<1>3. CASE Skips
  <2>1. PICK outcome : session' = Record(session, "pull", outcome)  BY <1>3 DEF Skips, Recorded
  <2>2. session'.on = session.on /\ session'.preview = session.preview /\ session'.push = session.push
    BY <1>t, <2>1, RecordIs
  <2> QED  BY <1>3, <1>t, <2>2 DEF SessionInv, Skips
<1>4. CASE LoadStep
  <2>s. UNCHANGED <<stack, edits>>  BY <1>4, LoadGives DEF folder
  <2>1. CASE UNCHANGED session  BY <2>s, <2>1 DEF SessionInv, On
  <2>2. CASE ~UNCHANGED session
    <3>1. PICK i \in Slot : /\ load[i].phase = "set" /\ session.on
                            /\ session' = [session EXCEPT !.preview = Clean(load[i].got)]
      BY <1>4, <2>2, LoadSession
    <3>2. /\ session'.on = session.on /\ session'.push = session.push /\ session'.matched = session.matched
          /\ session'.edits = session.edits /\ session'.preview = Clean(load[i].got)
      BY <1>t, <3>1 DEF ReviewSessions
    <3>3. Clean(load[i].got).edits = load[i].got.edits  BY DEF Clean
    <3>4. load[i].got.edits <= edits  BY <3>1 DEF SoundInv, Sound, HasRead
    <3> QED  BY <2>s, <3>1, <3>2, <3>3, <3>4 DEF SessionInv, On
  <2> QED  BY <2>1, <2>2
<1>5. CASE FinishReview
  <2>1. On("ReviewPush") /\ stack' = Opened("SessionReport") /\ UNCHANGED <<edits, changes>>
    BY <1>5 DEF FinishReview, CanFinish, Unmoved, Still, folder
  <2>2. On("SessionReport")'  BY <1>t, <2>1, Tops DEF AllScreens
  <2>3. PICK s \in {session, Record(session, "push", "skipped")} : Reports(s, session.preview.edits)
    BY <1>5 DEF FinishReview
  <2>4. session'.on = session.on /\ session'.preview = session.preview /\ session'.edits = session.preview.edits
    BY <1>t, <2>3, ReportsAre
  <2> QED  BY <1>t, <2>1, <2>2, <2>4 DEF SessionInv
<1>6. CASE DismissReview /\ On("SessionReport")'
  <2>1. On("Operation") /\ UNCHANGED edits /\ op.plan # Nothing
    BY <1>6, DismissIs DEF ScreenInv
  <2>2. CASE ~Succeeded /\ Reports(Record(session, "pull", op.outcome), op.plan.edits)
    <3>1. /\ session'.on = session.on /\ session'.preview = session.preview
          /\ session'.matched = Matched(Record(session, "pull", op.outcome))
      BY <1>t, <2>2, ReportsAre
    <3>2. Record(session, "pull", op.outcome).pull # "completed"  BY <1>t, <2>2, RecordIs DEF Succeeded
    <3> QED  BY <1>6, <2>1, <3>1, <3>2 DEF SessionInv, Matched
  <2>3. CASE Under("ReviewPush") /\ Reports(Record(session, "push", op.outcome), op.plan.edits)
    <3>1. /\ session'.on = session.on /\ session'.preview = session.preview
          /\ session'.edits = op.plan.edits
      BY <1>t, <2>3, ReportsAre
    <3>2. op.plan.edits \in Nat /\ op.plan.edits <= edits  BY <1>d, <2>1, <2>3 DEF PlaceInv, SoundInv, Sound
    <3> QED  BY <1>6, <2>1, <3>1, <3>2 DEF SessionInv
  <2> QED  BY <1>6, <2>2, <2>3, DismissIs
<1> QED  BY <1>1, <1>2, <1>3, <1>4, <1>5, <1>6, SessionMoves

(* On these screens only other programs change the files.                           *)
LEMMA TopHolds ==
    ASSUME Types, RunInv, ScreenInv, Next, NEW x \in {"Pull", "Preview", "ReviewPush", "SessionReport"}, On(x)
    PROVE  Others \/ UNCHANGED <<files, changes, edits>>
<1>1. ~Writes
  <2>1. On("AddWords") => FALSE  BY DEF On
  <2> QED  BY <2>1 DEF Writes, SaveWord
<1>2. ~Worker
  <2>1. ASSUME Worker  PROVE FALSE
    <3>1. Unsettled  BY <2>1, WorkerTyped DEF GoesOn, Unsettled
    <3>2. ~Elsewhere  BY <3>1, CoveredNotElsewhere DEF RunInv, Types, UiTypes
    <3> QED  BY <3>2 DEF Elsewhere, On
  <2> QED  BY <2>1
<1>3. CASE Rests \/ Starts \/ Settles \/ Leaves \/ OperationEnds \/ Stop
  BY <1>3 DEF Rests, Starts, Settles, Leaves, OperationEnds, Stop, folder
<1> QED  BY <1>1, <1>2, <1>3, FolderMoves

(* When nothing is left out and nothing is to be updated, the applications match.   *)
LEMMA SnapshotTruth ==
    ASSUME ToUpdate(Snapshot) = {}, Skipped = {}  PROVE Truth
<1>1. /\ Snapshot.config = config /\ Snapshot.skipped = {} /\ Snapshot.list = list
      /\ \A d \in Dictionaries : Snapshot.dict[d] = IF d \in InUse(config) THEN dict[d] ELSE NoText("absent")
  BY DEF Snapshot
<1>2. \A d \in InUse(config) : d \in Dictionaries /\ Snapshot.dict[d] = dict[d]  BY <1>1 DEF InUse
<1> QED  BY <1>1, <1>2 DEF ToUpdate, Truth

(* An answer that a screen waits for has just been set, or was there.                *)
LEMMA GotStep ==
    ASSUME Types, ScreenInv, Next, NEW i \in Slot, load'[i].live, load'[i].phase = "got"
    PROVE  /\ load[i].live /\ load'[i].got = load[i].got
           /\ load[i].phase = "got" \/ (load[i].phase = "set" /\ LoadSets(i))
<1>1. CASE Quiet  BY <1>1 DEF Quiet, Carries
<1>2. CASE LoadStep
  <2>t. load \in [Slot -> Loads]  BY DEF Types, UiTypes
  <2>1. PICK k \in Slot : LoadReads(k) \/ LoadSets(k) \/ LoadArrives(k) \/ LoadFails(k)  BY <1>2 DEF LoadStep
  <2>2. load[i] \in Loads /\ Overtaken(load)[i] = [load[i] EXCEPT !.latest = FALSE]
        /\ Overtaken(load) \in [Slot -> Loads]
    BY <2>t, LoadsTyped, ScreensTyped DEF Overtaken, Types, UiTypes
  <2>3. CASE k = i /\ LoadSets(i)
    <3>1. load[i].phase = "set"  BY <2>3 DEF LoadSets
    <3>2. HasRead(i)' /\ load'[i].live => load[i].live  BY <1>2, LoadGives
    <3>3. load'[i].got = load[i].got
      <4>1. HasRead(i)'  BY DEF HasRead
      <4>2. load[i].phase # "start"  BY <3>1
      <4> QED  BY <1>2, <4>1, <4>2, LoadGives
    <3> QED  BY <2>3, <3>1, <3>2, <3>3 DEF HasRead
  <2>4. CASE k = i /\ ~LoadSets(i)
    <3>1. load'[i].phase # "got"
      <4>1. CASE LoadReads(i)
        <5>1. PICK ld \in {load, Overtaken(load)} : load' = [ld EXCEPT ![i].phase = "set", ![i].got = Snapshot]
          BY <4>1 DEF LoadReads
        <5>2. ld \in [Slot -> Loads] /\ ld[i] \in Loads  BY <2>t, <2>2, <5>1
        <5> QED  BY <5>1, <5>2 DEF Loads
      <4>2. CASE LoadArrives(i) \/ LoadFails(i)
        <5>1. load'[i] = Idle  BY <2>t, <4>2 DEF LoadArrives, LoadFails
        <5> QED  BY <5>1 DEF Idle
      <4> QED  BY <2>1, <2>4, <4>1, <4>2
    <3> QED  BY <3>1
  <2>5. CASE k # i
    <3>1. load'[i] = load[i] \/ load'[i] = [load[i] EXCEPT !.latest = FALSE]
      <4>1. CASE LoadReads(k)
        <5>1. PICK ld \in {load, Overtaken(load)} : load' = [ld EXCEPT ![k].phase = "set", ![k].got = Snapshot]
          BY <4>1 DEF LoadReads
        <5>2. ld \in [Slot -> Loads] /\ load'[i] = ld[i]  BY <2>t, <2>2, <2>5, <5>1
        <5> QED  BY <2>2, <5>1, <5>2
      <4>2. CASE LoadSets(k)
        <5>1. PICK ld \in {load, Overtaken(load)} :
                  load' = [ld EXCEPT ![k] = IF load[k].live THEN [load[k] EXCEPT !.phase = "got", !.latest = TRUE]
                                            ELSE Idle]
          BY <4>2 DEF LoadSets
        <5>2. ld \in [Slot -> Loads] /\ load'[i] = ld[i]  BY <2>t, <2>2, <2>5, <5>1
        <5> QED  BY <2>2, <5>1, <5>2
      <4>3. CASE LoadArrives(k) \/ LoadFails(k)  BY <2>t, <2>5, <4>3 DEF LoadArrives, LoadFails
      <4> QED  BY <2>1, <4>1, <4>2, <4>3
    <3>2. load'[i].phase = load[i].phase /\ load'[i].live = load[i].live /\ load'[i].got = load[i].got
      BY <2>2, <3>1 DEF Loads
    <3> QED  BY <3>2
  <2> QED  BY <2>3, <2>4, <2>5
<1> QED  BY <1>1, <1>2, LoadMoves

(* The preview of the session is that of before, none, or one that is set.           *)
LEMMA PreviewStep ==
    ASSUME Types, ScreenInv, Next, session'.preview.clean
    PROVE  \/ session'.preview = session.preview
           \/ \E i \in Slot : /\ load[i].phase = "set" /\ session.on /\ LoadSets(i)
                              /\ load[i].for = "ReviewPush" /\ session'.preview = Clean(load[i].got)
<1>t. session \in ReviewSessions  BY DEF Types, UiTypes
<1>1. CASE Lasts  BY <1>1 DEF Lasts
<1>2. CASE Turns
  <2>1. session'.preview = NoPreview  BY <1>2 DEF Turns, NoSession
  <2> QED  BY <2>1 DEF NoPreview
<1>3. CASE Skips
  <2>1. PICK outcome : session' = Record(session, "pull", outcome)  BY <1>3 DEF Skips, Recorded
  <2> QED  BY <1>t, <2>1, RecordIs
<1>4. CASE LoadStep
  <2>1. CASE UNCHANGED session  BY <2>1
  <2>2. CASE ~UNCHANGED session
    <3>1. PICK i \in Slot : /\ load[i].phase = "set" /\ session.on /\ LoadSets(i)
                            /\ session' = [session EXCEPT !.preview = Clean(load[i].got)]
      BY <1>4, <2>2, LoadSession
    <3>2. load[i].for = "ReviewPush"  BY <2>2, <3>1 DEF LoadSets
    <3> QED  BY <1>t, <3>1, <3>2 DEF ReviewSessions
  <2> QED  BY <2>1, <2>2
<1>5. CASE FinishReview
  <2>1. PICK s \in {session, Record(session, "push", "skipped")} : Reports(s, session.preview.edits)
    BY <1>5 DEF FinishReview
  <2> QED  BY <1>t, <2>1, ReportsAre
<1>6. CASE DismissReview /\ On("SessionReport")'
  <2>1. PICK step \in {"pull", "push"} : Reports(Record(session, step, op.outcome), op.plan.edits)
    BY <1>6, DismissIs
  <2> QED  BY <1>t, <2>1, ReportsAre
<1> QED  BY <1>1, <1>2, <1>3, <1>4, <1>5, <1>6, SessionMoves

(* With the preview of the session clean, and nothing edited since, the applications *)
(* match as soon as the second step shows, or is about to show, another one.        *)
LEMMA CleanStep ==
    ASSUME Types, RunInv, ScreenInv, LoadInv, SoundInv, CalmInv, CurrentInv, OrderInv, CleanInv, SessionInv, Next
    PROVE  CleanInv'
<1>t. /\ session \in ReviewSessions /\ session.preview.edits \in Nat /\ load \in [Slot -> Loads]
      /\ push \in Pushes /\ stack \in Seq(AllScreens) /\ Chain(stack)
      /\ edits \in Nat /\ edits' \in {edits, edits + 1} /\ (Others => edits' = edits + 1)
      /\ \A p \in Snapshots : p.edits \in Nat
  BY CountsGrow DEF Types, UiTypes, ScreenInv, ReviewSessions, Snapshots
<1> SUFFICES ASSUME session'.preview.clean, session'.preview.edits = edits'
             PROVE  /\ Skipped' = {}
                    /\ On("ReviewPush")' /\ push'.shown # Nothing /\ push'.shown.edits # edits' => Truth'
                    /\ \A i \in Slot :
                          load'[i].live /\ load'[i].phase = "got" /\ load'[i].got.edits # edits' => Truth'
  BY DEF CleanInv
<1>1. CASE session'.preview = session.preview
  <2>1. edits' = edits /\ ~Others  BY <1>t, <1>1 DEF SessionInv
  <2>2. /\ Skipped = {} /\ session.on
        /\ On("ReviewPush") /\ push.shown # Nothing /\ push.shown.edits # edits => Truth
        /\ \A i \in Slot : load[i].live /\ load[i].phase = "got" /\ load[i].got.edits # edits => Truth
    BY <1>1, <2>1 DEF CleanInv, SessionInv
  <2>3. Stands(stack, "ReviewPull")  BY <2>2 DEF ScreenInv
  <2>4. Skipped' = {}
    <3>1. CASE Same
      <4>1. Skipped' = Skipped  BY <3>1 DEF Same, Skipped, InUse
      <4> QED  BY <2>2, <4>1
    <3>2. CASE Ours  BY <2>2, <3>2 DEF Ours
    <3>3. CASE Makes
      <4>1. op.kind \in Kinds /\ op.plan \in PlansOf(op.kind)  BY <3>3 DEF Types, OpTypes, Makes
      <4>2. PICK root \in {"Settings", "SetupWelcome"} : Stands(stack, root)
        BY <3>3, <4>1, PlanIsThere DEF Makes, ScreenInv
      <4>3. "ReviewPull" \in Roots /\ root \in Roots /\ root # "ReviewPull"  BY DEF Roots
      <4> QED  BY <1>t, <2>3, <4>2, <4>3, RootsApart
    <3> QED  BY <2>1, <3>1, <3>2, <3>3, FileMoves
  <2>k. ASSUME NEW x \in {"Pull", "Preview", "ReviewPush", "SessionReport"}, On(x), Truth  PROVE Truth'
    <3>1. UNCHANGED files  BY <2>1, <2>k, TopHolds
    <3> QED  BY <2>k, <3>1 DEF Truth, InUse, files
  <2>5. ASSUME On("ReviewPush")', push'.shown # Nothing, push'.shown.edits # edits'  PROVE Truth'
    <3>1. CASE UNCHANGED stack /\ push'.shown = push.shown
      <4>1. On("ReviewPush")  BY <2>5, <3>1 DEF On
      <4> QED  BY <2>1, <2>2, <2>5, <2>k, <3>1, <4>1
    <3>2. CASE LoadStep /\ push'.shown # push.shown
      <4>1. PICK i \in Slot : load[i].phase = "got" /\ push'.shown = load[i].got  BY <3>2, LoadGives
      <4>2. load[i].live /\ UNCHANGED <<folder, stack>>  BY <3>2, <4>1, LoadGives DEF LoadInv
      <4>3. Truth /\ On("ReviewPush")  BY <2>1, <2>2, <2>5, <4>1, <4>2 DEF On
      <4> QED  BY <2>k, <4>3
    <3> QED  BY <2>5, <3>1, <3>2, ShownMoves, LoadGives
  <2>6. ASSUME NEW i \in Slot, load'[i].live, load'[i].phase = "got", load'[i].got.edits # edits'
        PROVE  Truth'
    <3>1. load[i].live /\ load'[i].got = load[i].got  BY <2>6, GotStep
    <3>2. On(load[i].for) /\ load[i].for \in {"Pull", "Preview", "ReviewPush"}  BY <3>1 DEF LoadInv
    <3>3. CASE load[i].phase = "got"  BY <2>1, <2>2, <2>6, <2>k, <3>1, <3>2, <3>3
    <3>4. CASE LoadSets(i)
      <4>1. load[i].for = "ReviewPush"
        <5>1. load[i].for \in ScreensOf("ReviewPull")  BY <1>t, <2>3, <3>2, OnTop DEF Roots
        <5> QED  BY <3>2, <5>1 DEF ScreensOf
      <4>2. session' = [session EXCEPT !.preview = Clean(load[i].got)]  BY <2>2, <3>4, <4>1 DEF LoadSets
      <4>3. session'.preview = Clean(load[i].got)  BY <1>t, <4>2 DEF ReviewSessions
      <4>4. session'.preview.edits = load[i].got.edits  BY <4>3 DEF Clean
      <4> QED  BY <2>6, <3>1, <4>4
    <3> QED  BY <2>6, <3>3, <3>4, GotStep
  <2> QED  BY <2>4, <2>5, <2>6
<1>2. ASSUME NEW i \in Slot, load[i].phase = "set", LoadSets(i), session'.preview = Clean(load[i].got)
      PROVE  /\ Skipped' = {}
             /\ On("ReviewPush")' /\ push'.shown # Nothing /\ push'.shown.edits # edits' => Truth'
             /\ \A j \in Slot : load'[j].live /\ load'[j].phase = "got" /\ load'[j].got.edits # edits' => Truth'
  <2>1. LoadStep  BY <1>2 DEF LoadStep
  <2>2. UNCHANGED <<folder, stack>> /\ UNCHANGED <<files, edits, changes>>  BY <2>1, LoadGives DEF folder
  <2>3. HasRead(i) /\ Current(load[i].got) /\ Usable(load[i].got) /\ load[i].got \in Snapshots
    BY <1>2, <1>t DEF HasRead, CurrentInv, Loads
  <2>4. load[i].got.edits = edits /\ ToUpdate(load[i].got) = {} /\ load[i].got.skipped = {}
    <3>1. Clean(load[i].got).edits = load[i].got.edits  BY DEF Clean
    <3>2. Clean(load[i].got).clean = (CanPush(load[i].got) /\ ToUpdate(load[i].got) = {} /\ load[i].got.skipped = {})
      BY DEF Clean
    <3>3. session'.preview.clean  OBVIOUS
    <3>4. CanPush(load[i].got) /\ ToUpdate(load[i].got) = {} /\ load[i].got.skipped = {}
      BY ONLY <1>2, <3>2, <3>3
    <3> QED  BY <1>2, <2>2, <3>1, <3>4
  <2>5. Skipped = {}  BY <2>3, <2>4 DEF Usable
  <2>6. Skipped' = {}  BY <2>2, <2>5 DEF Skipped, InUse, files
  <2>7. ASSUME load[i].got.at = changes  PROVE Truth'
    <3>1. load[i].got = Snapshot  BY <2>3, <2>4, <2>7 DEF Current
    <3>2. Truth  BY <2>4, <2>5, <3>1, SnapshotTruth
    <3> QED  BY <2>2, <3>2 DEF Truth, InUse, files
  <2>8. ASSUME On("ReviewPush")', push'.shown # Nothing, push'.shown.edits # edits'  PROVE Truth'
    <3>1. push'.shown = push.shown  BY <1>t, <1>2 DEF LoadSets, Pushes
    <3>2. On("ReviewPush") /\ push.shown \in Snapshots /\ push.shown.edits <= edits
      BY <1>t, <2>2, <2>8, <3>1 DEF On, Pushes, SoundInv, Sound
    <3>3. push.shown.edits < load[i].got.edits  BY <1>t, <2>2, <2>4, <2>8, <3>1, <3>2
    <3>4. load[i].got.at = changes  BY <2>3, <2>8, <3>1, <3>2, <3>3 DEF OrderInv, Later
    <3> QED  BY <2>7, <3>4
  <2>9. ASSUME NEW j \in Slot, load'[j].live, load'[j].phase = "got", load'[j].got.edits # edits'
        PROVE  Truth'
    <3>1. load[j].live /\ load'[j].got = load[j].got /\ HasRead(j)  BY <2>9, GotStep DEF HasRead
    <3>2. load[j].got \in Snapshots /\ load[j].got.edits <= edits
      BY <1>t, <3>1 DEF HasRead, Loads, SoundInv, Sound
    <3>3. load[j].got.edits < load[i].got.edits  BY <1>t, <2>2, <2>4, <2>9, <3>1, <3>2
    <3>4. load[i].got.at = changes  BY <2>3, <3>1, <3>3 DEF OrderInv, Later
    <3> QED  BY <2>7, <3>4
  <2> QED  BY <2>6, <2>8, <2>9
<1> QED  BY <1>1, <1>2, PreviewStep

(* A report that says that the lists match is right until something is edited.      *)
LEMMA MatchedStep ==
    ASSUME Types, RunInv, ScreenInv, FreshInv, SoundInv, CurrentInv, PlaceInv, OutcomeInv, UpdatedInv, CleanInv,
           SessionInv, MatchedIsTruthful, Next
    PROVE  MatchedIsTruthful'
<1>t. /\ session \in ReviewSessions /\ push \in Pushes /\ stack \in Seq(AllScreens) /\ Chain(stack)
      /\ edits \in Nat /\ edits' \in {edits, edits + 1} /\ (Others => edits' = edits + 1)
  BY CountsGrow DEF Types, UiTypes, ScreenInv
<1>m. MatchedIsTruthful <=> (On("SessionReport") /\ session.matched /\ session.edits = edits => Truth)
  BY DEF MatchedIsTruthful, Truth
<1>n. MatchedIsTruthful' <=> (On("SessionReport")' /\ session'.matched /\ session'.edits = edits' => Truth')
  BY DEF MatchedIsTruthful, Truth
<1> SUFFICES ASSUME On("SessionReport")', session'.matched, session'.edits = edits'  PROVE Truth'
  BY <1>n
<1>f. UNCHANGED files /\ Truth => Truth'  BY DEF Truth, InUse, files
<1>1. CASE Lasts
  <2>1. session' = session /\ On("SessionReport")  BY <1>1 DEF Lasts
  <2>2. ~Others  BY <1>t, <2>1 DEF SessionInv
  <2>3. UNCHANGED <<files, edits>>  BY <2>1, <2>2, TopHolds
  <2> QED  BY <1>f, <1>m, <2>1, <2>3
<1>2. CASE Turns \/ Skips  BY <1>2 DEF Turns, Skips
<1>4. CASE LoadStep
  <2>1. UNCHANGED <<files, edits, stack>>  BY <1>4, LoadGives DEF folder
  <2>2. session'.matched = session.matched /\ session'.edits = session.edits
    BY <1>t, <1>4, LoadSession DEF ReviewSessions
  <2> QED  BY <1>f, <1>m, <2>1, <2>2 DEF On
<1>5. CASE FinishReview
  <2>1. On("ReviewPush") /\ UNCHANGED <<files, edits, changes>> /\ ~On("SessionReport")
    <3>1. On("ReviewPush") /\ UNCHANGED <<files, edits, changes>>
      BY <1>5 DEF FinishReview, CanFinish, Unmoved, Still, folder
    <3> QED  BY <1>t, <3>1, Tops
  <2>2. PICK p : p = push.shown  OBVIOUS
  <2>3. CASE p # Nothing /\ CanPush(p) /\ ToUpdate(p) = {}
    <3>1. Reports(session, session.preview.edits)  BY <1>5, <2>2, <2>3 DEF FinishReview
    <3>2. session'.matched = Matched(session) /\ session'.edits = session.preview.edits
      BY <1>t, <3>1, ReportsAre
    <3>3. session.push = "none"  BY <2>1 DEF SessionInv
    <3>4. session.preview.clean /\ session.preview.edits = edits  BY <2>1, <3>2, <3>3 DEF Matched
    <3>5. Skipped = {} /\ (p.edits # edits => Truth)  BY <2>1, <2>2, <2>3, <3>4 DEF CleanInv
    <3>6. ASSUME p.edits = edits  PROVE Truth
      <4>1. p.at = changes  BY <2>1, <2>2, <2>3 DEF FreshInv, UpdateFresh
      <4>2. Current(p)  BY <2>1, <2>2, <2>3 DEF CurrentInv
      <4>3. p = Snapshot  BY <3>6, <4>1, <4>2 DEF Current
      <4> QED  BY <2>3, <3>5, <4>3, SnapshotTruth
    <3> QED  BY <1>f, <2>1, <3>5, <3>6
  <2>4. CASE ~(p # Nothing /\ CanPush(p) /\ ToUpdate(p) = {})
    <3>1. Reports(Record(session, "push", "skipped"), session.preview.edits)
      BY <1>5, <2>2, <2>4 DEF FinishReview
    <3>2. session'.matched = Matched(Record(session, "push", "skipped"))  BY <1>t, <3>1, ReportsAre
    <3>3. Record(session, "push", "skipped").push = "skipped"  BY <1>t, RecordIs
    <3> QED  BY <3>2, <3>3 DEF Matched
  <2> QED  BY <2>3, <2>4
<1>6. CASE DismissReview /\ On("SessionReport")'
  <2>1. On("Operation") /\ op.phase = "shown" /\ UNCHANGED <<files, edits>> /\ op.plan # Nothing
    BY <1>6, DismissIs DEF ScreenInv
  <2>2. CASE ~Succeeded /\ Reports(Record(session, "pull", op.outcome), op.plan.edits)
    <3>1. session'.matched = Matched(Record(session, "pull", op.outcome))  BY <1>t, <2>2, ReportsAre
    <3>2. Record(session, "pull", op.outcome).pull # "completed"  BY <1>t, <2>2, RecordIs DEF Succeeded
    <3> QED  BY <3>1, <3>2 DEF Matched
  <2>3. CASE Under("ReviewPush") /\ Reports(Record(session, "push", op.outcome), op.plan.edits)
    <3>1. /\ session'.matched = Matched(Record(session, "push", op.outcome))
          /\ session'.edits = op.plan.edits
      BY <1>t, <2>3, ReportsAre
    <3>2. Record(session, "push", op.outcome).push = op.outcome  BY <1>t, RecordIs
    <3>3. op.outcome # "none"  BY <2>1 DEF OutcomeInv
    <3>4. op.outcome = "completed"  BY <3>1, <3>2, <3>3 DEF Matched
    <3>5. op.kind = "push" /\ op.plan.edits = edits  BY <2>1, <2>3, <3>1 DEF PlaceInv
    <3>6. Truth  BY <2>1, <3>4, <3>5 DEF UpdatedInv
    <3> QED  BY <1>f, <2>1, <3>6
  <2> QED  BY <1>6, <2>2, <2>3, DismissIs
<1> QED  BY <1>1, <1>2, <1>4, <1>5, <1>6, SessionMoves

(* What the report of a Review session rests on.                                    *)
ReportInv == /\ SoundInv /\ CalmInv /\ CurrentInv /\ OrderInv /\ PlaceInv /\ OutcomeInv
             /\ UpdatedInv /\ CleanInv /\ SessionInv /\ MatchedIsTruthful

(* It holds at the start, where nothing has been read, shown or reported.           *)
LEMMA ReportInit ==
    ASSUME Init  PROVE ReportInv
<1>1. /\ stack = <<>> /\ op = NoOp /\ journal = NoJournal /\ push = NoPush /\ session = NoSession
      /\ edits = 0 /\ load = [i \in Slot |-> Idle]
  BY DEF Init
<1>2. /\ NoOp.kind = "none" /\ NoOp.phase = "none" /\ NoOp.plan = Nothing /\ NoJournal.wrote = {}
      /\ NoPush.shown = Nothing /\ NoSession.preview.clean = FALSE /\ NoSession.preview.edits = 0
      /\ NoSession.push = "none"
  BY DEF NoOp, NoJournal, NoPush, NoSession, NoPreview
<1>3. \A i \in Slot : load[i] = Idle /\ load[i].phase = "idle" /\ load[i].live = FALSE
  BY <1>1 DEF Idle
<1>4. \A x : ~On(x)  BY <1>1 DEF On
<1>5. SoundInv  BY <1>1, <1>2, <1>3 DEF SoundInv, HasRead
<1>6. CalmInv  BY <1>3 DEF CalmInv, Calm
<1>7. CurrentInv /\ OrderInv  BY <1>3, <1>4 DEF CurrentInv, OrderInv, HasRead
<1>8. PlaceInv /\ OutcomeInv /\ UpdatedInv
  BY <1>1, <1>2, <1>4 DEF PlaceInv, OutcomeInv, UpdatedInv
<1>9. CleanInv /\ SessionInv /\ MatchedIsTruthful
  BY <1>1, <1>2, <1>4 DEF CleanInv, SessionInv, MatchedIsTruthful
<1> QED  BY <1>5, <1>6, <1>7, <1>8, <1>9 DEF ReportInv

(* A step that changes nothing keeps it.                                            *)
LEMMA ReportStutter ==
    ASSUME ReportInv, UNCHANGED vars  PROVE ReportInv'
<1>1. UNCHANGED <<list, dict, config, journal, op, changes, edits, stack, push, session, load>>
  BY DEF vars, folder, files, ui
<1>2. UNCHANGED <<Skipped, Snapshot, Truth, Calm>> /\ (\A x : On(x)' <=> On(x)) /\ (\A x : Under(x)' <=> Under(x))
      /\ (\A i \in Slot : HasRead(i)' <=> HasRead(i))
  BY <1>1 DEF Skipped, Snapshot, Truth, Calm, InUse, On, Under, HasRead
<1>3. SoundInv'  BY <1>1, <1>2 DEF ReportInv, SoundInv, Sound
<1>4. CalmInv'  BY <1>1, <1>2 DEF ReportInv, CalmInv
<1>5. CurrentInv'  BY <1>1, <1>2 DEF ReportInv, CurrentInv, Current, Usable
<1>6. OrderInv'  BY <1>1, <1>2 DEF ReportInv, OrderInv, Later
<1>7. (PlaceInv /\ OutcomeInv /\ UpdatedInv)'
  BY <1>1, <1>2 DEF ReportInv, PlaceInv, OutcomeInv, UpdatedInv
<1>8. (CleanInv /\ SessionInv)'  BY <1>1, <1>2 DEF ReportInv, CleanInv, SessionInv
<1>9. MatchedIsTruthful'  BY <1>1, <1>2 DEF ReportInv, MatchedIsTruthful, InUse
<1> QED  BY <1>3, <1>4, <1>5, <1>6, <1>7, <1>8, <1>9 DEF ReportInv

(* Every step keeps it.                                                             *)
LEMMA ReportStep ==
    ASSUME TerminalInv, ScreenInv, FreshInv, ReportInv, [Next]_vars  PROVE ReportInv'
<1>1. CASE Next
  <2>1. Types /\ RunInv /\ LoadInv  BY DEF TerminalInv, FreshInv
  <2>2. SoundInv'  BY <1>1, <2>1, SoundStep DEF ReportInv
  <2>3. CalmInv'  BY <1>1, <2>1, CalmStep DEF ReportInv
  <2>4. CurrentInv'  BY <1>1, <2>1, CurrentStep DEF ReportInv
  <2>5. OrderInv'  BY <1>1, <2>1, OrderStep DEF ReportInv
  <2>6. PlaceInv' /\ OutcomeInv' /\ UpdatedInv'
    BY <1>1, <2>1, PlaceStep, OutcomeStep, UpdatedStep DEF ReportInv
  <2>7. CleanInv' /\ SessionInv'  BY <1>1, <2>1, CleanStep, SessionStep DEF ReportInv
  <2>8. MatchedIsTruthful'  BY <1>1, <2>1, MatchedStep DEF ReportInv
  <2> QED  BY <2>2, <2>3, <2>4, <2>5, <2>6, <2>7, <2>8 DEF ReportInv
<1>2. CASE UNCHANGED vars  BY <1>2, ReportStutter
<1> QED  BY <1>1, <1>2

(* The session report says that the applications match the word list only when they *)
(* do (_session_is_matched), other programs' changes apart since the preview the    *)
(* report rests on.                                                                 *)
THEOREM MatchedIsTruthfulHolds == Spec => []MatchedIsTruthful
<1>1. Init => ReportInv  BY ReportInit
<1>2. TerminalInv /\ ScreenInv /\ FreshInv /\ ReportInv /\ [Next]_vars => ReportInv'  BY ReportStep
<1>3. ReportInv => MatchedIsTruthful  BY DEF ReportInv
<1> QED  BY <1>1, <1>2, <1>3, FreshHolds, PTL DEF Spec
=============================================================================

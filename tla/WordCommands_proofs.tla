-------------------------- MODULE WordCommands_proofs --------------------------
(***************************************************************************)
(* What the project lock gives, for every number of sessions, words,       *)
(* dictionaries and configurations: one session at a time is at its locked *)
(* steps, an unfinished update keeps everybody but its recovery away, and  *)
(* a dictionary that was disabled before a command took the lock stays.    *)
(*                                                                         *)
(* Every step is one session going on outside the lock, taking it, going   *)
(* on inside, or leaving it; or another program's.  The module first shows *)
(* that, action by action; what the lock gives is then proved of those     *)
(* five kinds of step alone.  The types of the variables and what a        *)
(* command holds of the settings, with what follows from them, come last.  *)
(***************************************************************************)
EXTENDS WordCommands, WellFoundedInduction, TLAPS

Places    == {"idle"} \cup Previewing \cup Ready \cup Locked

\* Where a session may be inside the lock while an update is unfinished.
Recovering == {"recover_check", "recover_write", "probing"}

Placed ==
    /\ pc \in [Sessions -> Places]
    /\ view = [s \in Sessions |-> view[s]]
    /\ edits \in Nat

\* The lock is held exactly by who is inside.
Held == \A s \in Sessions : pc[s] \in Locked <=> lock = s

\* Nobody is inside beside an unfinished update but to recover it, and who
\* recovers has shown it.
OnlyRecovers == \A s \in Sessions :
    journal # NoJournal /\ pc[s] \in Locked => pc[s] \in Recovering

Shown == \A s \in Sessions :
    pc[s] = "recover_write" => journal # NoJournal /\ view[s].found = journal

LockInv == Placed /\ Held /\ OnlyRecovers /\ Shown

-----------------------------------------------------------------------------
(* The kinds of step.                                                       *)

Alone(s) ==
    /\ Placed' /\ edits' = edits
    /\ \A r \in Sessions \ {s} : pc'[r] = pc[r] /\ view'[r] = view[r]

Outside(s) ==
    /\ pc[s] \notin Locked /\ pc'[s] \notin Locked
    /\ UNCHANGED <<lock, list, dict, journal>>

Entering(s) ==
    /\ pc[s] \notin Locked /\ lock = Free /\ lock' = s
    /\ pc'[s] \in Locked \ {"recover_write"}
    /\ journal # NoJournal => pc'[s] \in Recovering
    /\ UNCHANGED <<list, dict, journal>>

Inside(s) ==
    /\ pc[s] \in Locked /\ pc'[s] \in Locked
    /\ pc[s] \in Recovering => /\ pc'[s] \in Recovering
                               /\ UNCHANGED <<list, dict>>
    /\ pc'[s] = "recover_write" => journal # NoJournal /\ view'[s].found = journal
    /\ UNCHANGED <<lock, journal>>

Leaving(s) ==
    /\ pc[s] \in Locked /\ pc'[s] \notin Locked
    /\ lock' = IF lock = s THEN Free ELSE lock
    /\ pc[s] \in Recovering \ {"recover_write"} => UNCHANGED <<list, dict>>

Others == /\ UNCHANGED <<pc, view, lock, journal>>
          /\ edits' = edits + 1

Kinds == \/ \E s \in Sessions : /\ Alone(s)
                                /\ Outside(s) \/ Entering(s) \/ Inside(s) \/ Leaving(s)
         \/ Others
         \/ UNCHANGED vars

-----------------------------------------------------------------------------
(* Every step is of one kind.                                               *)

LEMMA BackOutside ==
    \A p \in Ready \cup Locked : Back[p] \in {"idle", "extra_keep", "extra_wipe"}
BY DEF Back

LEMMA LocksInside ==
    \A p \in Ready : /\ Locks[p] \in Locked \ {"recover_write"}
                     /\ p = "recover_ready" => Locks[p] \in Recovering
BY DEF Locks, Ready, Locked, Recovering

\* A session goes on to p, with what it holds then.
LEMMA GoesOn ==
    ASSUME Placed, NEW s \in Sessions, NEW p \in Places, NEW v, Go(s, p, v), edits' = edits
    PROVE  Alone(s) /\ pc'[s] = p /\ view'[s] = v
BY DEF Placed, Go, Alone

LEMMA PreviewsOutside ==
    ASSUME Placed, NEW s \in Sessions, Preview(s)
    PROVE  Alone(s) /\ Outside(s)
<1> USE DEF Places, Previewing, Ready, Locked, Looks, Begins, Outside, files
<1>1. CASE BeginPull(s)
  BY <1>1, GoesOn DEF BeginPull
<1>2. CASE PullSources(s)
  BY <1>2, GoesOn DEF PullSources
<1>3. CASE PullFile(s)
  BY <1>3, GoesOn DEF PullFile
<1>4. CASE PullHash(s)
  BY <1>4, GoesOn DEF PullHash
<1>5. CASE BeginPush(s)
  BY <1>5, GoesOn DEF BeginPush
<1>6. CASE PlanPush(s)
  BY <1>6, GoesOn DEF PlanPush
<1>7. CASE PlanRewrite(s)
  BY <1>7, GoesOn DEF PlanRewrite
<1>8. CASE PushHash(s)
  BY <1>8, GoesOn DEF PushHash
<1>9. CASE BeginExtra(s)
  BY <1>9, GoesOn DEF BeginExtra
<1>10. CASE ExtraSources(s)
  BY <1>10, GoesOn DEF ExtraSources
<1>11. CASE Rescan(s)
  BY <1>11, GoesOn DEF Rescan
<1>12. CASE KeepWords(s)
  BY <1>12, GoesOn DEF KeepWords
<1>13. CASE SkipKeeping(s)
  BY <1>13, GoesOn DEF SkipKeeping
<1>14. CASE RejectWords(s)
  BY <1>14, GoesOn DEF RejectWords
<1>15. CASE BeginAdd(s)
  BY <1>15, GoesOn DEF BeginAdd
<1>16. CASE BeginLint(s)
  BY <1>16, GoesOn DEF BeginLint
<1>17. CASE InspectRecovery(s)
  BY <1>17, GoesOn DEF InspectRecovery
<1>18. CASE Decline(s)
  BY <1>18, GoesOn DEF Decline
<1> QED
  BY <1>1, <1>2, <1>3, <1>4, <1>5, <1>6, <1>7, <1>8, <1>9, <1>10, <1>11, <1>12, <1>13,
     <1>14, <1>15, <1>16, <1>17, <1>18 DEF Preview

LEMMA RefuseOutside ==
    ASSUME Placed, NEW s \in Sessions, Refuse(s)
    PROVE  Alone(s) /\ Outside(s)
<1>1. Back[pc[s]] \in {"idle", "extra_keep", "extra_wipe"} /\ pc[s] \in Ready
  BY BackOutside DEF Refuse
<1>2. Back[pc[s]] \in Places /\ Back[pc[s]] \notin Locked /\ pc[s] \notin Locked
  BY <1>1 DEF Places, Previewing, Ready, Locked
<1> QED
  BY <1>2, GoesOn DEF Refuse, Looks, Outside, files

LEMMA AcquireEnters ==
    ASSUME Placed, NEW s \in Sessions, Acquire(s)
    PROVE  Alone(s) /\ Entering(s)
<1>1. pc[s] \in Ready /\ Locks[pc[s]] \in Locked \ {"recover_write"}
  BY LocksInside DEF Acquire
<1>2. pc[s] \notin Locked /\ Locks[pc[s]] \in Places
  BY <1>1 DEF Ready, Locked, Places
<1>3. journal # NoJournal => Locks[pc[s]] \in Recovering
  BY <1>1, LocksInside DEF Acquire, ScopeOpen
<1>5. /\ Go(s, Locks[pc[s]], [view[s] EXCEPT !.todo = Needed(view[s])])
      /\ edits' = edits /\ lock = Free /\ lock' = s /\ UNCHANGED <<list, dict, journal>>
  BY DEF Acquire, files
<1>6. Alone(s) /\ pc'[s] = Locks[pc[s]]
  BY <1>2, <1>5, GoesOn
<1> QED
  BY <1>1, <1>2, <1>3, <1>5, <1>6 DEF Entering

LEMMA ProbeEnters ==
    ASSUME Placed, NEW s \in Sessions, Probe(s)
    PROVE  Alone(s) /\ Entering(s)
BY GoesOn DEF Probe, Entering, Places, Locked, Recovering, files

\* A command that ends inside, or stops there, leaves the lock.
LEMMA DoneLeaves ==
    ASSUME Placed, NEW s \in Sessions, pc[s] \in Locked, Done(s), edits' = edits,
           pc[s] \in Recovering \ {"recover_write"} => UNCHANGED <<list, dict>>
    PROVE  Alone(s) /\ Leaving(s)
BY GoesOn DEF Done, Unlock, Leaving, Places, Locked

LEMMA StopLeaves ==
    ASSUME Placed, NEW s \in Sessions, pc[s] \in Locked, Stop(s), edits' = edits
    PROVE  Alone(s) /\ Leaving(s)
<1>1. Back[pc[s]] \in {"idle", "extra_keep", "extra_wipe"}
  BY BackOutside
<1>2. Back[pc[s]] \in Places /\ Back[pc[s]] \notin Locked
  BY <1>1 DEF Places, Previewing, Locked
<1> QED
  BY <1>2, GoesOn DEF Stop, Unlock, Leaving

\* Any other goes on inside.
LEMMA WorksOn ==
    ASSUME Placed, NEW s \in Sessions, pc[s] \in Locked \ Recovering, edits' = edits,
           NEW p \in Locked \ {"recover_write"}, NEW v, Go(s, p, v), UNCHANGED <<lock, journal>>
    PROVE  Alone(s) /\ Inside(s)
BY GoesOn DEF Inside, Places, Locked, Recovering

LEMMA ActsInside ==
    ASSUME Placed, NEW s \in Sessions, Act(s)
    PROVE  Alone(s) /\ (Inside(s) \/ Leaving(s))
<1> USE DEF Acts, Locked, Places, Recovering
<1>1. CASE PullCheck(s)
  BY <1>1, WorksOn, StopLeaves DEF PullCheck
<1>2. CASE PullWrite(s)
  BY <1>2, DoneLeaves, StopLeaves DEF PullWrite, Write
<1>3. CASE AddRead(s)
  BY <1>3, WorksOn, StopLeaves DEF AddRead
<1>4. CASE AddWrite(s)
  BY <1>4, DoneLeaves, StopLeaves DEF AddWrite, Write
<1>5. CASE LintRead(s)
  BY <1>5, WorksOn, StopLeaves DEF LintRead
<1>6. CASE LintWrite(s)
  BY <1>6, DoneLeaves, StopLeaves DEF LintWrite, WriteFixed, Write
<1>7. CASE KeepRead(s)
  BY <1>7, WorksOn, StopLeaves DEF KeepRead
<1>8. CASE KeepWrite(s)
  <2>1. CASE Stop(s)
    BY <1>8, <2>1, StopLeaves DEF KeepWrite
  <2>2. CASE Go(s, "extra_wipe", [Returned(s) EXCEPT !.kept = Keys(view[s].out)]) /\ Unlock(s)
    BY <1>8, <2>2, GoesOn DEF KeepWrite, Unlock, Leaving, Previewing
  <2> QED
    BY <1>8, <2>1, <2>2 DEF KeepWrite
<1>9. CASE ExtraCheck(s)
  BY <1>9, WorksOn, StopLeaves DEF ExtraCheck
<1>10. CASE ExtraRead(s)
  BY <1>10, WorksOn, StopLeaves DEF ExtraRead
<1>11. CASE ExtraWrite(s)
  BY <1>11, WorksOn, StopLeaves DEF ExtraWrite
<1>12. CASE PushCommit(s)
  BY <1>12, DoneLeaves, StopLeaves
  DEF PushCommit, PushDryRun, PushDone, PushAborted, PushUnfinished
<1>13. CASE RecoverCheck(s)
  BY <1>13, GoesOn, StopLeaves DEF RecoverCheck, Inside
<1>14. CASE Recover(s)
  BY <1>14, DoneLeaves DEF Recover
<1>15. CASE EndProbe(s)
  BY <1>15, DoneLeaves DEF EndProbe, files
<1> QED
  BY <1>1, <1>2, <1>3, <1>4, <1>5, <1>6, <1>7, <1>8, <1>9, <1>10, <1>11, <1>12, <1>13,
     <1>14, <1>15 DEF Act

LEMMA StepKinds == Placed /\ [Next]_vars => Kinds
<1> SUFFICES ASSUME Placed, [Next]_vars PROVE Kinds
  OBVIOUS
<1>1. ASSUME NEW s \in Sessions, Preview(s) \/ Refuse(s) PROVE Kinds
  BY <1>1, PreviewsOutside, RefuseOutside DEF Kinds
<1>2. ASSUME NEW s \in Sessions, Acquire(s) \/ Probe(s) PROVE Kinds
  BY <1>2, AcquireEnters, ProbeEnters DEF Kinds
<1>3. ASSUME NEW s \in Sessions, Act(s) PROVE Kinds
  BY <1>3, ActsInside DEF Kinds
<1>4. ASSUME NEW s \in Sessions, Die(s) PROVE Kinds
  <2>1. Alone(s) /\ Leaving(s)
    BY <1>4, DoneLeaves DEF Die, files
  <2> QED
    BY <2>1 DEF Kinds
<1>5. CASE EditList \/ EditDict \/ EditConfig
  BY <1>5 DEF EditList, EditDict, EditConfig, Edits, Kinds, Others
<1> QED
  BY <1>1, <1>2, <1>3, <1>4, <1>5 DEF Next, Kinds

-----------------------------------------------------------------------------
(* What the kinds of step keep.                                             *)

LEMMA InitLockInv == Init => LockInv
<1> SUFFICES ASSUME Init PROVE LockInv
  OBVIOUS
<1>1. \A s \in Sessions : pc[s] = "idle"
  BY DEF Init
<1>2. Placed
  BY DEF Init, Placed, Places
<1> QED
  BY <1>1, <1>2, CommandAssumption
  DEF Init, LockInv, Held, OnlyRecovers, Shown, Locked

\* Free is no session, so at most one is inside; what it does there cannot
\* bring a journal in beside another.
LEMMA KindsKeepLockInv == LockInv /\ Kinds => LockInv'
<1> SUFFICES ASSUME LockInv, Kinds PROVE LockInv'
  OBVIOUS
<1>1. ASSUME NEW s \in Sessions, Alone(s),
             Outside(s) \/ Entering(s) \/ Inside(s) \/ Leaving(s)
      PROVE  LockInv'
  <2>1. ASSUME NEW r \in Sessions, r # s PROVE pc'[r] = pc[r] /\ view'[r] = view[r]
    BY <1>1, <2>1 DEF Alone
  <2>2. ASSUME lock = s \/ lock = Free PROVE \A r \in Sessions \ {s} : pc[r] \notin Locked
    BY <2>2, CommandAssumption DEF LockInv, Held
  <2>3. CASE Outside(s)
    BY <1>1, <2>1, <2>3 DEF LockInv, Held, OnlyRecovers, Shown, Alone, Outside, Locked
  <2>4. CASE Entering(s)
    BY <1>1, <2>1, <2>2, <2>4, CommandAssumption
    DEF LockInv, Held, OnlyRecovers, Shown, Alone, Entering, Locked
  <2>5. CASE Inside(s)
    BY <1>1, <2>1, <2>2, <2>5 DEF LockInv, Held, OnlyRecovers, Shown, Alone, Inside, Locked
  <2>6. CASE Leaving(s)
    BY <1>1, <2>1, <2>2, <2>6, CommandAssumption
    DEF LockInv, Held, OnlyRecovers, Shown, Alone, Leaving, Locked
  <2> QED
    BY <1>1, <2>3, <2>4, <2>5, <2>6
<1>2. CASE Others \/ UNCHANGED vars
  BY <1>2 DEF LockInv, Placed, Held, OnlyRecovers, Shown, Others, vars, files, session
<1> QED
  BY <1>1, <1>2 DEF Kinds

LEMMA LockInvHolds == Spec => []LockInv
<1>1. LockInv /\ [Next]_vars => LockInv'
  BY StepKinds, KindsKeepLockInv DEF LockInv
<1> QED
  BY InitLockInv, <1>1, PTL DEF Spec

-----------------------------------------------------------------------------

\* Two sessions are never at their locked steps together, however many there are:
\* a process that died or was refused does not hold the lock, and a probe gives
\* back what it took.
THEOREM ExclusiveHolds == Spec => []Exclusive
<1>1. LockInv => Exclusive
  BY DEF LockInv, Held, Exclusive
<1> QED
  BY LockInvHolds, <1>1, PTL

\* While an update is unfinished only the recovery that has shown it changes a
\* file: the journal cannot appear between a command's look at it and its writes.
THEOREM BlockedHolds == Spec => BlockedWhileUnfinished
<1> DEFINE Blocked == journal # NoJournal /\ <<list, dict>>' # <<list, dict>> /\ edits' = edits
              => \E s \in Sessions : pc[s] = "recover_write" /\ view[s].found = journal
<1>1. LockInv /\ [Next]_vars => Blocked
  <2> SUFFICES ASSUME LockInv, Kinds, journal # NoJournal,
                      <<list, dict>>' # <<list, dict>>, edits' = edits
               PROVE  \E s \in Sessions : pc[s] = "recover_write" /\ view[s].found = journal
    BY StepKinds DEF LockInv
  <2>1. ~Others
    BY DEF Others, LockInv, Placed
  <2>2. PICK s \in Sessions : Outside(s) \/ Entering(s) \/ Inside(s) \/ Leaving(s)
    BY <2>1 DEF Kinds, vars, files
  <2>3. pc[s] \in Recovering
    BY <2>2 DEF Outside, Entering, Inside, Leaving, LockInv, OnlyRecovers
  <2>4. pc[s] = "recover_write"
    BY <2>2, <2>3 DEF Outside, Entering, Inside, Leaving
  <2> QED
    BY <2>4 DEF LockInv, Shown
<1> QED
  BY LockInvHolds, <1>1, PTL DEF Spec, BlockedWhileUnfinished

-----------------------------------------------------------------------------
(* Types.                                                                   *)

\* A session that reads or writes a dictionary has one to do.
Removing == {"extra_read", "extra_write"}
Chosen   == \A s \in Sessions : pc[s] \in Removing => view[s].todo # {}

TypeInv == TypeOK /\ journal \in Journals \cup {NoJournal} /\ Chosen

\* A set of dictionaries that is not empty has a first one.
LEMMA LeastMember ==
    ASSUME NEW S \in SUBSET Dicts, S # {}
    PROVE  Least(S) \in S
<1>1. S \subseteq Nat
  BY WordAssumption DEF Dicts
<1>2. IsWellFoundedOn(OpToRel(<, Nat), Nat)
  BY NatLessThanWellFounded
<1>3. PICK x \in S : \A y \in S : ~(<<y, x>> \in OpToRel(<, Nat))
  BY <1>1, <1>2, WFMin
<1>4. ASSUME NEW y \in S, y < x PROVE FALSE
  <2>1. y \in Nat /\ x \in Nat
    BY <1>1
  <2>2. <<y, x>> \in OpToRel(<, Nat)
    BY <1>4, <2>1, <<y, x>>[1] = y, <<y, x>>[2] = x, <<y, x>> \in Nat \X Nat DEF OpToRel
  <2> QED
    BY <1>3, <2>2
<1>5. \A y \in S : x <= y
  BY <1>1, <1>4
<1> QED
  BY <1>5, Zenon DEF Least

LEMMA ContentTypes ==
    /\ Missing \in Content /\ SUBSET Word \subseteq Content
    /\ \A c \in Content : WordsOf(c) \subseteq Word
    /\ \A S \in SUBSET Word : Keys(S) \subseteq Key
<1>1. Missing \in Content /\ SUBSET Word \subseteq Content
  BY DEF Content
<1>2. \A c \in Content : WordsOf(c) \subseteq Word
  BY DEF Content, WordsOf
<1>3. \A S \in SUBSET Word : Keys(S) \subseteq Key
  BY WordAssumption DEF Keys
<1> QED
  BY <1>1, <1>2, <1>3

LEMMA NoViewType == NoView \in Views
<1>1. \E c \in Config \ BadConfig : TRUE
  BY CommandAssumption
<1>2. (CHOOSE c \in Config \ BadConfig : TRUE) \in Config
  BY <1>1
<1>3. [d \in Dicts |-> Missing] \in [Dicts -> Content]
  BY ContentTypes
<1> QED
  BY <1>2, <1>3, ContentTypes DEF NoView, Views

\* What the operators on words return is words.
LEMMA WordOperators ==
    ASSUME NEW S \in SUBSET Word, NEW I \in SUBSET Word
    PROVE  /\ \A T \in Dedups(S) : T \subseteq Word
           /\ \A T \in Added(S, I) : T \subseteq Word
           /\ Subtract(S, I) \subseteq Word
           /\ Unknown(S, I) \subseteq Word
BY DEF Dedups, Added, Unknown, Subtract

LEMMA CollectedType ==
    ASSUME NEW S \in SUBSET Word, NEW source, \A d \in DOMAIN source : source[d] \subseteq Word,
           NEW T \in Collected(S, source)
    PROVE  T \subseteq Word /\ Keys(S) \subseteq Keys(T)
<1> DEFINE all == S \cup UNION {source[d] : d \in DOMAIN source}
<1>1. T \in Dedups(all) /\ all \subseteq Word
  BY DEF Collected
<1> QED
  BY <1>1 DEF Dedups, Keys

\* A session goes on to p with v.
LEMMA GoTypes ==
    ASSUME TypeInv, NEW s \in Sessions, NEW p \in Places, NEW v \in Views, Go(s, p, v),
           p \in Removing => v.todo # {}
    PROVE  pc' \in [Sessions -> Places] /\ view' \in [Sessions -> Views] /\ Chosen'
BY DEF TypeInv, TypeOK, Go, Places, Chosen

LEMMA LooksTypes ==
    ASSUME TypeInv, NEW s \in Sessions, NEW p \in Places, NEW v \in Views, Go(s, p, v),
           p \in Removing => v.todo # {}, Looks(s)
    PROVE  TypeInv'
BY GoTypes DEF TypeInv, TypeOK, Looks, files, Places

LEMMA BeginsTypes ==
    ASSUME TypeInv, NEW s \in Sessions, NEW p \in Places, NEW v \in Views, Go(s, p, v),
           p \in Removing => v.todo # {}, Begins(s)
    PROVE  TypeInv'
<1>1. commands' \in 0..MaxCommands
  BY CommandAssumption DEF Begins, TypeInv, TypeOK
<1>2. late' \in [Sessions -> SUBSET Word]
  BY DEF Begins, TypeInv, TypeOK
<1> QED
  BY <1>1, <1>2, GoTypes DEF TypeInv, TypeOK, Begins, files, Places

\* What a session sees of the dictionaries its configuration enables.
LEMMA SeenTypes ==
    ASSUME TypeInv, NEW v \in Views
    PROVE  /\ UsedBy(v) \in SUBSET Dicts /\ Seen(v) \in [Dicts -> Content]
           /\ \A d \in UsedBy(v) : WordsOf(dict[d]) \subseteq Word
<1>1. UsedBy(v) \in SUBSET Dicts
  BY CommandAssumption DEF UsedBy, Sources, Views
<1>2. \A d \in Dicts : dict[d] \in Content
  BY DEF TypeInv, TypeOK
<1> QED
  BY <1>1, <1>2, ContentTypes DEF Seen

LEMMA PreviewTypes ==
    ASSUME TypeInv, NEW s \in Sessions, Preview(s) PROVE TypeInv'
<1> USE DEF Places, Previewing, Ready, Removing
<1>v. view[s] \in Views /\ list \in Content /\ config \in Config /\ WordsOf(list) \subseteq Word
  BY ContentTypes DEF TypeInv, TypeOK
<1>b. [NoView EXCEPT !.words = WordsOf(list), !.settings = config] \in Views
  BY <1>v, NoViewType DEF Views
<1>1. CASE BeginPull(s)
  BY <1>1, <1>b, BeginsTypes DEF BeginPull
<1>2. CASE PullSources(s)
  <2> DEFINE source == [d \in UsedBy(view[s]) |-> WordsOf(dict[d])]
  <2>1. PICK merged \in Collected(view[s].words, source) :
           Go(s, "pull_hash", [view[s] EXCEPT !.used = UsedBy(view[s]),
                                              !.dicts = Seen(view[s]), !.out = merged])
    BY <1>2 DEF PullSources
  <2>0. \A d \in DOMAIN source : source[d] \subseteq Word
    BY <1>v, SeenTypes
  <2> HIDE DEF source
  <2>2. merged \subseteq Word
    BY <1>v, <2>0, <2>1, CollectedType DEF Views
  <2>3. [view[s] EXCEPT !.used = UsedBy(view[s]), !.dicts = Seen(view[s]), !.out = merged] \in Views
    BY <1>v, <2>2, SeenTypes DEF Views
  <2> QED
    BY <1>2, <2>1, <2>3, LooksTypes DEF PullSources
<1>3. CASE PullFile(s)
  <2>0. PICK file \in Typed : \E merged \in Collected(view[s].words, <<file>>) :
           Go(s, "pull_hash", [view[s] EXCEPT !.out = merged])
    BY <1>3 DEF PullFile
  <2>1. PICK merged \in Collected(view[s].words, <<file>>) :
           Go(s, "pull_hash", [view[s] EXCEPT !.out = merged])
    BY <2>0
  <2>2. file \subseteq Word
    BY CommandAssumption
  <2>3. merged \subseteq Word
    <3> DEFINE source == <<file>>
    <3>1. \A d \in DOMAIN source : source[d] \subseteq Word
      BY <2>2
    <3>2. merged \in Collected(view[s].words, source)
      BY <2>1
    <3> HIDE DEF source
    <3> QED
      BY <1>v, <3>1, <3>2, CollectedType DEF Views
  <2>4. [view[s] EXCEPT !.out = merged] \in Views
    BY <1>v, <2>3 DEF Views
  <2> QED
    BY <1>3, <2>1, <2>4, LooksTypes DEF PullFile
<1>4. CASE PullHash(s) \/ PushHash(s)
  <2>1. [view[s] EXCEPT !.hash = list, !.digest = config] \in Views
    BY <1>v DEF Views
  <2> QED
    BY <1>4, <2>1, LooksTypes DEF PullHash, PushHash
<1>5. CASE BeginPush(s)
  BY <1>5, <1>b, BeginsTypes DEF BeginPush
<1>6. CASE PlanPush(s)
  <2>1. [view[s] EXCEPT !.used = UsedBy(view[s]), !.dicts = Seen(view[s])] \in Views
    BY <1>v, SeenTypes DEF Views
  <2>2. \/ Go(s, "idle", NoView)
        \/ Go(s, "push_rewrite", [view[s] EXCEPT !.used = UsedBy(view[s]), !.dicts = Seen(view[s])])
    BY <1>6 DEF PlanPush
  <2> QED
    BY <1>6, <2>1, <2>2, NoViewType, LooksTypes DEF PlanPush
<1>7. CASE PlanRewrite(s)
  <2>1. \A b \in BOOLEAN : [view[s] EXCEPT !.rewrite = b] \in Views
    BY <1>v DEF Views
  <2> QED
    BY <1>7, <2>1, LooksTypes DEF PlanRewrite
<1>8. CASE BeginExtra(s)
  BY <1>8, <1>b, BeginsTypes DEF BeginExtra
<1>9. CASE ExtraSources(s)
  <2> DEFINE v == [view[s] EXCEPT !.used = UsedBy(view[s]), !.dicts = Seen(view[s]),
                                  !.digest = config]
  <2>1. v \in Views
    BY <1>v, SeenTypes DEF Views
  <2>5. Go(s, "extra_keep", [v EXCEPT !.rows = Extras(v), !.words = {}])
    BY <1>9 DEF ExtraSources
  <2> HIDE DEF v
  <2>a. v.words \in SUBSET Word /\ v.used \subseteq Dicts
    BY <2>1 DEF Views
  <2>c. \A d \in Dicts : WordsOf(v.dicts[d]) \in SUBSET Word
    BY <2>1, ContentTypes DEF Views
  <2>2. \A d \in Dicts : Unknown(v.words, WordsOf(v.dicts[d])) \subseteq Word
    BY <2>a, <2>c, WordOperators
  <2>3. Extras(v) \in SUBSET Word
    BY <2>a, <2>2 DEF Extras
  <2>4. [v EXCEPT !.rows = Extras(v), !.words = {}] \in Views
    BY <2>1, <2>3 DEF Views
  <2> QED
    BY <1>9, <2>4, <2>5, LooksTypes DEF ExtraSources
<1>10. CASE Rescan(s)
  BY <1>10, <1>b, LooksTypes DEF Rescan
<1>11. CASE KeepWords(s) \/ RejectWords(s)
  <2>1. \A S \in SUBSET view[s].rows : [view[s] EXCEPT !.out = S] \in Views
    BY <1>v DEF Views
  <2>2. Remaining(view[s]) \subseteq view[s].rows
    BY DEF Remaining
  <2> QED
    BY <1>11, <2>1, <2>2, LooksTypes DEF KeepWords, RejectWords
<1>12. CASE SkipKeeping(s)
  BY <1>12, <1>v, LooksTypes DEF SkipKeeping
<1>13. CASE BeginAdd(s)
  <2>1. \A typed \in Typed : [NoView EXCEPT !.out = typed] \in Views
    BY NoViewType, CommandAssumption DEF Views
  <2> QED
    BY <1>13, <2>1, BeginsTypes DEF BeginAdd
<1>14. CASE BeginLint(s)
  BY <1>14, NoViewType, BeginsTypes DEF BeginLint
<1>15. CASE InspectRecovery(s)
  <2>1. [NoView EXCEPT !.found = journal] \in Views
    BY NoViewType DEF Views, TypeInv
  <2> QED
    BY <1>15, <2>1, LooksTypes DEF InspectRecovery
<1>16. CASE Decline(s)
  BY <1>16, NoViewType, LooksTypes DEF Decline
<1> QED
  BY <1>1, <1>2, <1>3, <1>4, <1>5, <1>6, <1>7, <1>8, <1>9, <1>10, <1>11, <1>12, <1>13,
     <1>14, <1>15, <1>16 DEF Preview

\* The kinds of change inside the lock.
LEMMA ActTypes ==
    ASSUME TypeInv, NEW s \in Sessions, NEW p \in Places, NEW v \in Views, Go(s, p, v),
           p \in Removing => v.todo # {},
           lock' \in Sessions \cup {Free}, list' \in Content, dict' \in [Dicts -> Content],
           journal' \in Journals \cup {NoJournal}, late' \in [Sessions -> SUBSET Word],
           UNCHANGED <<config, edits, commands>>
    PROVE  TypeInv'
BY GoTypes DEF TypeInv, TypeOK, Places

LEMMA UnlockType ==
    ASSUME TypeInv, NEW s \in Sessions, Unlock(s) PROVE lock' \in Sessions \cup {Free}
BY DEF TypeInv, TypeOK, Unlock

LEMMA MissTypes ==
    ASSUME TypeInv, NEW c \in Content
    PROVE  /\ MissList(c) => late' \in [Sessions -> SUBSET Word]
           /\ \A d \in Dicts : MissDict(d, c) => late' \in [Sessions -> SUBSET Word]
<1>1. WordsOf(c) \subseteq Word /\ \A s \in Sessions : late[s] \subseteq Word
  BY ContentTypes DEF TypeInv, TypeOK
<1> QED
  BY <1>1 DEF MissList, MissDict

LEMMA ResetType ==
    ASSUME TypeInv, NEW s \in Sessions
    PROVE  [late EXCEPT ![s] = {}] \in [Sessions -> SUBSET Word]
BY DEF TypeInv, TypeOK

LEMMA DoneTypes ==
    ASSUME TypeInv, NEW s \in Sessions, Done(s),
           list' \in Content, dict' \in [Dicts -> Content],
           journal' \in Journals \cup {NoJournal}, late' \in [Sessions -> SUBSET Word],
           UNCHANGED <<config, edits, commands>>
    PROVE  TypeInv'
BY NoViewType, ActTypes, UnlockType DEF Done, Places, Removing

LEMMA ReturnedType ==
    ASSUME TypeInv, NEW s \in Sessions PROVE Returned(s) \in Views
BY NoViewType DEF Returned, Views, TypeInv, TypeOK

LEMMA StopTypes ==
    ASSUME TypeInv, NEW s \in Sessions, pc[s] \in Locked, Stop(s),
           UNCHANGED <<config, journal, edits, commands>>
    PROVE  TypeInv'
<1>1. Back[pc[s]] \in Places /\ Back[pc[s]] \notin Removing
  BY BackOutside DEF Places, Previewing, Removing
<1>2. /\ list' \in Content /\ dict' \in [Dicts -> Content]
      /\ journal' \in Journals \cup {NoJournal} /\ late' \in [Sessions -> SUBSET Word]
  BY DEF Stop, TypeInv, TypeOK
<1> QED
  BY <1>1, <1>2, ReturnedType, ActTypes, UnlockType DEF Stop

\* list' is c, and the command ends.
LEMMA WriteTypes ==
    ASSUME TypeInv, NEW s \in Sessions, NEW c \in Content, Write(s, c), Acts(s)
    PROVE  TypeInv'
BY DoneTypes, MissTypes DEF Write, Acts, TypeInv, TypeOK

\* A file is read, or compared, and the session goes on inside.
LEMMA ReadTypes ==
    ASSUME TypeInv, NEW s \in Sessions, NEW p \in Places, NEW v \in Views, Go(s, p, v),
           p \in Removing => v.todo # {},
           late' \in {late, [late EXCEPT ![s] = {}]}, UNCHANGED <<list, dict, lock>>, Acts(s)
    PROVE  TypeInv'
<1>1. late' \in [Sessions -> SUBSET Word]
  BY ResetType DEF TypeInv, TypeOK
<1> QED
  BY <1>1, ActTypes DEF Acts, TypeInv, TypeOK

LEMMA PushTypes ==
    ASSUME TypeInv, NEW s \in Sessions, PushCommit(s) PROVE TypeInv'
<1> DEFINE v == view[s]
<1>1. v \in Views /\ v.words \in SUBSET Word /\ v.used \in SUBSET Dicts /\ pc[s] = "push_commit"
  BY DEF PushCommit, TypeInv, TypeOK, Views
<1>2. NewList(v) \in Content /\ list \in Content
  BY <1>1, ContentTypes DEF NewList, TypeInv, TypeOK
<1>3. ASSUME NEW S PROVE Updated(v, S) \in [Dicts -> Content]
  BY <1>1, ContentTypes DEF Updated, Target, TypeInv, TypeOK
<1> HIDE DEF v
<1>4. CASE PushDryRun(s) \/ PushAborted(s)
  BY <1>1, <1>4, StopTypes DEF PushCommit, PushDryRun, PushAborted, Locked
<1>5. CASE PushDone(s)
  <2>1. /\ dict' \in [Dicts -> Content] /\ list' \in Content /\ Done(s) /\ MissList(NewList(v))
        /\ UNCHANGED journal
    BY <1>2, <1>3, <1>5 DEF PushDone, v
  <2>2. journal' \in Journals \cup {NoJournal}
    BY <2>1 DEF TypeInv
  <2> QED
    BY <1>2, <2>1, <2>2, DoneTypes, MissTypes DEF PushCommit
<1>6. CASE PushUnfinished(s)
  <2>1. /\ dict' \in [Dicts -> Content] /\ list' \in Content /\ Done(s) /\ MissList(list')
        /\ journal' = [list |-> {list, NewList(v)},
                       dict |-> [d \in Dicts |-> {dict[d], Updated(v, v.used)[d]}],
                       before |-> [list |-> list, dict |-> dict]]
    BY <1>2, <1>3, <1>6 DEF PushUnfinished, v
  <2>2. dict \in [Dicts -> Content]
    BY DEF TypeInv, TypeOK
  <2>3. [d \in Dicts |-> {dict[d], Updated(v, v.used)[d]}] \in [Dicts -> SUBSET Content]
    BY <2>2, <1>3
  <2>4. journal' \in Journals
    BY <1>2, <2>1, <2>2, <2>3 DEF Journals
  <2> QED
    BY <2>1, <2>4, DoneTypes, MissTypes DEF PushCommit
<1> QED
  BY <1>4, <1>5, <1>6 DEF PushCommit

LEMMA RecoverTypes ==
    ASSUME TypeInv, LockInv, NEW s \in Sessions, Recover(s) PROVE TypeInv'
<1>1. journal \in Journals
  BY DEF Recover, LockInv, Shown, TypeInv
<1>2. list' \in Content /\ journal' \in Journals \cup {NoJournal}
  BY <1>1 DEF Recover, Journals, TypeInv, TypeOK
<1>3. dict' \in [Dicts -> Content]
  BY <1>1 DEF Recover, Journals, TypeInv, TypeOK
<1> QED
  BY <1>2, <1>3, DoneTypes, MissTypes DEF Recover

LEMMA ActionTypes ==
    ASSUME TypeInv, LockInv, NEW s \in Sessions, Act(s) PROVE TypeInv'
<1> USE DEF Places, Locked, Removing
<1>v. /\ view[s] \in Views /\ view[s].words \in SUBSET Word /\ view[s].out \in SUBSET Word
      /\ view[s] = view[s] /\ WordsOf(list) \in SUBSET Word
      /\ list \in Content /\ dict \in [Dicts -> Content]
  BY ContentTypes DEF TypeInv, TypeOK, Views
<1>w. \A S \in SUBSET Word : [view[s] EXCEPT !.words = S] \in Views
  BY <1>v DEF Views
<1>1. CASE PullCheck(s) \/ RecoverCheck(s)
  <2>1. CASE Stop(s)
    BY <1>1, <2>1, StopTypes DEF PullCheck, RecoverCheck, Acts
  <2>2. CASE \E p \in {"pull_write", "recover_write"} :
                Go(s, p, view[s]) /\ UNCHANGED <<list, dict, lock, late>>
    BY <1>1, <1>v, <2>2, ReadTypes DEF PullCheck, RecoverCheck
  <2> QED
    BY <1>1, <2>1, <2>2 DEF PullCheck, RecoverCheck
<1>2. CASE PullWrite(s)
  BY <1>2, <1>v, ContentTypes, WriteTypes, StopTypes DEF PullWrite, Acts
<1>3. CASE AddRead(s) \/ LintRead(s) \/ KeepRead(s)
  <2>1. CASE Stop(s)
    BY <1>3, <2>1, StopTypes DEF AddRead, LintRead, KeepRead, Acts
  <2>2. CASE /\ \E p \in {"add_write", "lint_write", "keep_write"} :
                   Go(s, p, [view[s] EXCEPT !.words = WordsOf(list)])
             /\ late' = [late EXCEPT ![s] = {}] /\ UNCHANGED <<list, dict, lock>>
    BY <1>3, <1>v, <1>w, <2>2, ReadTypes DEF AddRead, LintRead, KeepRead
  <2> QED
    BY <1>3, <2>1, <2>2 DEF AddRead, LintRead, KeepRead
<1>4. CASE AddWrite(s)
  <2>1. \A added \in Added(view[s].words, view[s].out) : view[s].words \cup added \in Content
    BY <1>v, WordOperators, ContentTypes
  <2> QED
    BY <1>4, <2>1, WriteTypes, StopTypes DEF AddWrite, Acts
<1>5. CASE LintWrite(s)
  <2>1. \A fixed \in Dedups(view[s].words) : fixed \in Content
    BY <1>v, WordOperators, ContentTypes
  <2> QED
    BY <1>5, <2>1, WriteTypes, StopTypes DEF LintWrite, WriteFixed, Acts
<1>6. CASE KeepWrite(s)
  <2>1. CASE Stop(s)
    BY <1>6, <2>1, StopTypes DEF KeepWrite, Acts
  <2>2. ASSUME NEW added \in Added(view[s].words, view[s].out),
               IF added = {} THEN UNCHANGED <<list, late>>
               ELSE list' = view[s].words \cup added /\ MissList(list'),
               Go(s, "extra_wipe", [Returned(s) EXCEPT !.kept = Keys(view[s].out)]),
               Unlock(s), UNCHANGED dict
        PROVE  TypeInv'
    <3>1. list' \in Content
      BY <1>v, <2>2, WordOperators, ContentTypes
    <3>2. late' \in [Sessions -> SUBSET Word]
      BY <2>2, <3>1, MissTypes DEF TypeInv, TypeOK
    <3>3. [Returned(s) EXCEPT !.kept = Keys(view[s].out)] \in Views
      BY <1>v, ReturnedType, ContentTypes DEF Views
    <3> QED
      BY <1>6, <1>v, <2>2, <3>1, <3>2, <3>3, UnlockType, ActTypes
      DEF KeepWrite, Acts, TypeInv, Previewing
  <2> QED
    BY <1>6, <2>1, <2>2 DEF KeepWrite
<1>7. CASE ExtraCheck(s)
  BY <1>7, <1>v, ReadTypes, StopTypes DEF ExtraCheck, Acts
<1>8. CASE ExtraRead(s)
  <2> DEFINE d == Least(view[s].todo)
  <2>1. CASE Stop(s)
    BY <1>8, <2>1, StopTypes DEF ExtraRead, Acts
  <2>2. CASE /\ Go(s, "extra_write", [view[s] EXCEPT !.words = WordsOf(dict[d])])
             /\ late' = [late EXCEPT ![s] = {}] /\ UNCHANGED <<list, dict, lock>>
    <3>1. view[s].todo # {} /\ d \in Dicts
      BY <1>8, <1>v, LeastMember DEF ExtraRead, TypeInv, Chosen, Views
    <3>2. WordsOf(dict[d]) \in SUBSET Word
      BY <1>v, <3>1, ContentTypes
    <3>3. [view[s] EXCEPT !.words = WordsOf(dict[d])] \in Views
      BY <1>w, <3>2
    <3>4. [view[s] EXCEPT !.words = WordsOf(dict[d])].todo # {}
      BY <1>v, <3>1 DEF Views
    <3> HIDE DEF d
    <3> QED
      BY <1>8, <2>2, <3>3, <3>4, ReadTypes DEF ExtraRead
  <2> QED
    BY <1>8, <2>1, <2>2 DEF ExtraRead
<1>12. CASE ExtraWrite(s)
  <2> DEFINE d    == Least(view[s].todo)
             left == Subtract(view[s].words, view[s].out)
  <2>1. CASE Stop(s)
    BY <1>12, <2>1, StopTypes DEF ExtraWrite, Acts
  <2>2. CASE /\ IF left = view[s].words THEN UNCHANGED <<dict, late>>
                ELSE dict' = [dict EXCEPT ![d] = left] /\ MissDict(d, left)
             /\ Go(s, "extra_check", [view[s] EXCEPT !.todo = @ \ {d}])
             /\ UNCHANGED <<list, lock>>
    <3>1. d \in Dicts
      BY <1>12, <1>v, LeastMember DEF ExtraWrite, TypeInv, Chosen, Views
    <3>2. left \in Content
      BY <1>v, WordOperators, ContentTypes
    <3>3. dict' \in [Dicts -> Content] /\ late' \in [Sessions -> SUBSET Word]
      BY <1>v, <2>2, <3>1, <3>2, MissTypes DEF TypeInv, TypeOK
    <3>4. [view[s] EXCEPT !.todo = @ \ {d}] \in Views
      BY <1>v DEF Views
    <3> QED
      BY <1>12, <1>v, <2>2, <3>3, <3>4, ActTypes DEF ExtraWrite, Acts, TypeInv, TypeOK
  <2> QED
    BY <1>12, <2>1, <2>2 DEF ExtraWrite
<1>9. CASE PushCommit(s)
  BY <1>9, PushTypes
<1>10. CASE Recover(s)
  BY <1>10, RecoverTypes
<1>11. CASE EndProbe(s)
  BY <1>11, DoneTypes DEF EndProbe, files, TypeInv, TypeOK
<1> QED
  BY <1>1, <1>2, <1>3, <1>4, <1>5, <1>6, <1>7, <1>8, <1>9, <1>10, <1>11, <1>12 DEF Act

LEMMA EditTypes ==
    ASSUME TypeInv, EditList \/ EditDict \/ EditConfig PROVE TypeInv'
<1>1. edits' \in 0..MaxEdits
  BY CommandAssumption DEF EditList, EditDict, EditConfig, Edits, TypeInv, TypeOK
<1>2. Chosen' /\ UNCHANGED <<journal, lock, pc, view, commands>>
  BY DEF EditList, EditDict, EditConfig, Edits, TypeInv, Chosen
<1>3. CASE EditList
  <2>1. PICK c \in EditLists : list' = c /\ MissList(c)
    BY <1>3 DEF EditList
  <2>2. c \in Content
    BY CommandAssumption
  <2> QED
    BY <1>1, <1>2, <1>3, <2>1, <2>2, MissTypes DEF EditList, TypeInv, TypeOK
<1>4. CASE EditDict
  <2>1. PICK d \in Dicts : \E c \in EditDicts : dict' = [dict EXCEPT ![d] = c] /\ MissDict(d, c)
    BY <1>4 DEF EditDict
  <2>2. PICK c \in EditDicts : dict' = [dict EXCEPT ![d] = c] /\ MissDict(d, c)
    BY <2>1
  <2>3. c \in Content
    BY CommandAssumption
  <2> QED
    BY <1>1, <1>2, <1>4, <2>2, <2>3, MissTypes DEF EditDict, TypeInv, TypeOK
<1>5. CASE EditConfig
  BY <1>1, <1>2, <1>5 DEF EditConfig, TypeInv, TypeOK
<1> QED
  BY <1>3, <1>4, <1>5

LEMMA RefuseTypes ==
    ASSUME TypeInv, NEW s \in Sessions, Refuse(s) PROVE TypeInv'
<1>1. Back[pc[s]] \in Places /\ Back[pc[s]] \notin Removing
  BY BackOutside DEF Refuse, Places, Previewing, Removing
<1> QED
  BY <1>1, ReturnedType, LooksTypes DEF Refuse

LEMMA LockTypes ==
    ASSUME TypeInv, NEW s \in Sessions, Acquire(s) \/ Probe(s) \/ Die(s) PROVE TypeInv'
<1>1. CASE Acquire(s)
  <2>1. view[s] \in Views /\ pc[s] \in Ready
    BY <1>1 DEF Acquire, TypeInv, TypeOK
  <2>2. Needed(view[s]) \in SUBSET Dicts
    BY <2>1 DEF Needed, Views
  <2>3. [view[s] EXCEPT !.todo = Needed(view[s])] \in Views
    BY <2>1, <2>2 DEF Views
  <2>4. Locks[pc[s]] \in Places /\ Locks[pc[s]] \notin Removing
    BY <2>1 DEF Locks, Places, Locked, Ready, Removing
  <2> QED
    BY <1>1, <2>3, <2>4, ActTypes DEF Acquire, files, TypeInv, TypeOK
<1>2. CASE Probe(s)
  BY <1>2, NoViewType, ActTypes DEF Probe, files, Places, Locked, Removing, TypeInv, TypeOK
<1>3. CASE Die(s)
  BY <1>3, DoneTypes DEF Die, files, TypeInv, TypeOK
<1> QED
  BY <1>1, <1>2, <1>3

LEMMA InitTypes == Init => TypeInv
<1> SUFFICES ASSUME Init PROVE TypeInv
  OBVIOUS
<1>1. list \in Content /\ dict \in [Dicts -> Content]
  BY CommandAssumption DEF Init
<1> QED
  BY <1>1, NoViewType, CommandAssumption DEF Init, TypeInv, TypeOK, Chosen, Removing

LEMMA TypeInvHolds == Spec => []TypeInv
<1>1. TypeInv /\ LockInv /\ [Next]_vars => TypeInv'
  <2> SUFFICES ASSUME TypeInv, LockInv, [Next]_vars PROVE TypeInv'
    OBVIOUS
  <2>1. CASE UNCHANGED vars
    BY <2>1 DEF vars, files, session, TypeInv, TypeOK, Chosen
  <2>2. ASSUME NEW s \in Sessions,
               Preview(s) \/ Acquire(s) \/ Refuse(s) \/ Act(s) \/ Probe(s) \/ Die(s)
        PROVE  TypeInv'
    BY <2>2, PreviewTypes, RefuseTypes, LockTypes, ActionTypes
  <2> QED
    BY <2>1, <2>2, EditTypes DEF Next
<1> QED
  BY InitTypes, LockInvHolds, <1>1, PTL DEF Spec

\* Every variable keeps its type, for every number of sessions and words.
THEOREM TypeOKHolds == Spec => []TypeOK
<1>1. TypeInv => TypeOK
  BY DEF TypeInv
<1> QED
  BY TypeInvHolds, <1>1, PTL

-----------------------------------------------------------------------------
(* What a command holds of the settings.                                    *)

Removal  == {"extra_check", "extra_read", "extra_write"}
Enforced == Removal \cup {"push_commit"}

\* What a session at p with v holds: the dictionaries its preview used were
\* enabled by the settings it had read; once it writes dictionaries these are the
\* settings in force at the lock, and what is left to do was in the preview.
UnderSettings(p, v) ==
    /\ v.used \subseteq enabled[v.settings]
    /\ p \in Enforced => v.settings = v.digest
    /\ p \in Removal  => v.todo \subseteq v.used

SettingsInv == \A s \in Sessions : UnderSettings(pc[s], view[s])

\* A session that goes on, with the others where they were.
LEMMA GoSettings ==
    ASSUME TypeInv, SettingsInv, NEW s \in Sessions, NEW p, NEW v, Go(s, p, v),
           UnderSettings(p, v)
    PROVE  SettingsInv'
BY DEF SettingsInv, Go, TypeInv, TypeOK

\* It writes nothing there, and starts anew or keeps what it used.
LEMMA QuietSettings ==
    ASSUME TypeInv, SettingsInv, NEW s \in Sessions, NEW p, p \notin Enforced,
           NEW v, Go(s, p, v),
           \/ v.used = {}
           \/ v.settings = view[s].settings /\ v.used \in {view[s].used, UsedBy(view[s])}
    PROVE  SettingsInv'
<1>1. v.used \subseteq enabled[v.settings]
  BY DEF SettingsInv, UnderSettings, UsedBy, Sources
<1> QED
  BY <1>1, GoSettings DEF UnderSettings, Enforced

LEMMA PreviewSettings ==
    ASSUME TypeInv, SettingsInv, NEW s \in Sessions, Preview(s) PROVE SettingsInv'
<1> USE DEF Enforced, Removal
<1>v. view[s] \in Views /\ NoView \in Views /\ NoView.used = {}
  BY NoViewType DEF TypeInv, TypeOK, NoView
<1>b. [NoView EXCEPT !.words = WordsOf(list), !.settings = config].used = {}
  BY DEF NoView
<1>1. CASE BeginPull(s) \/ BeginPush(s) \/ BeginExtra(s) \/ Rescan(s)
  BY <1>1, <1>b, QuietSettings DEF BeginPull, BeginPush, BeginExtra, Rescan
<1>2. CASE PullSources(s)
  <2>1. PICK merged : Go(s, "pull_hash", [view[s] EXCEPT !.used = UsedBy(view[s]),
                                              !.dicts = Seen(view[s]), !.out = merged])
    BY <1>2 DEF PullSources
  <2> QED
    BY <1>v, <2>1, QuietSettings DEF Views
<1>3. CASE PullFile(s)
  <2>1. PICK file \in Typed : \E merged \in Collected(view[s].words, <<file>>) :
           Go(s, "pull_hash", [view[s] EXCEPT !.out = merged])
    BY <1>3 DEF PullFile
  <2> QED
    BY <1>v, <2>1, QuietSettings DEF Views
<1>12. CASE KeepWords(s) \/ RejectWords(s)
  BY <1>12, <1>v, QuietSettings DEF KeepWords, RejectWords, Views
<1>4. CASE PullHash(s) \/ PushHash(s)
  BY <1>4, <1>v, QuietSettings DEF PullHash, PushHash, Views
<1>5. CASE PlanPush(s)
  <2>1. \/ Go(s, "idle", NoView)
        \/ Go(s, "push_rewrite", [view[s] EXCEPT !.used = UsedBy(view[s]), !.dicts = Seen(view[s])])
    BY <1>5 DEF PlanPush
  <2> QED
    BY <1>v, <2>1, QuietSettings DEF Views
<1>6. CASE PlanRewrite(s)
  BY <1>6, <1>v, QuietSettings DEF PlanRewrite, Views
<1>7. CASE ExtraSources(s)
  <2>1. PICK S : Go(s, "extra_keep",
              [[view[s] EXCEPT !.used = UsedBy(view[s]), !.dicts = Seen(view[s]),
                               !.digest = config] EXCEPT !.rows = S, !.words = {}])
    BY <1>7 DEF ExtraSources
  <2> QED
    BY <1>v, <2>1, QuietSettings DEF Views
<1>8. CASE SkipKeeping(s)
  BY <1>8, <1>v, QuietSettings DEF SkipKeeping
<1>9. CASE BeginAdd(s)
  <2>1. PICK typed : Go(s, "add_ready", [NoView EXCEPT !.out = typed])
    BY <1>9 DEF BeginAdd
  <2> QED
    BY <1>v, <2>1, QuietSettings DEF Views
<1>10. CASE InspectRecovery(s)
  BY <1>10, <1>v, QuietSettings DEF InspectRecovery, Views
<1>11. CASE BeginLint(s) \/ Decline(s)
  BY <1>11, <1>v, QuietSettings DEF BeginLint, Decline
<1> QED
  BY <1>1, <1>2, <1>3, <1>4, <1>5, <1>6, <1>7, <1>8, <1>9, <1>10, <1>11, <1>12
  DEF Preview

\* A refused, stopped or ended command writes no more.
LEMMA ReturnSettings ==
    ASSUME TypeInv, SettingsInv, NEW s \in Sessions, pc[s] \in Ready \cup Locked,
           Go(s, Back[pc[s]], Returned(s))
    PROVE  SettingsInv'
<1>1. Back[pc[s]] \notin Enforced
  BY BackOutside DEF Enforced, Removal
<1>2. \/ Returned(s).used = {}
      \/ Returned(s).settings = view[s].settings /\ Returned(s).used = view[s].used
  BY DEF Returned, NoView, TypeInv, TypeOK, Views
<1> QED
  BY <1>1, <1>2, QuietSettings

LEMMA DoneSettings ==
    ASSUME TypeInv, SettingsInv, NEW s \in Sessions, Done(s) PROVE SettingsInv'
<1>1. NoView.used = {}
  BY DEF NoView
<1> QED
  BY <1>1, QuietSettings DEF Done, Enforced, Removal

\* At the lock the settings of the preview are those in force, and what is to
\* be done was used.
LEMMA AcquireSettings ==
    ASSUME TypeInv, SettingsInv, NEW s \in Sessions, Acquire(s) PROVE SettingsInv'
<1> DEFINE v == [view[s] EXCEPT !.todo = Needed(view[s])]
<1>1. /\ v.used = view[s].used /\ v.settings = view[s].settings
      /\ v.digest = view[s].digest /\ v.todo \subseteq v.used
  BY DEF TypeInv, TypeOK, Views, Needed
<1>2. Go(s, Locks[pc[s]], v) /\ pc[s] \in Ready /\ Confirms(s)
  BY DEF Acquire
<1> HIDE DEF v
<1>3. Locks[pc[s]] \in Enforced => v.settings = v.digest
  BY <1>1, <1>2 DEF Confirms, SameRuntime, Locks, Ready, Enforced, Removal
<1>4. v.used \subseteq enabled[v.settings]
  BY <1>1 DEF SettingsInv, UnderSettings
<1> QED
  BY <1>1, <1>2, <1>3, <1>4, GoSettings DEF UnderSettings

LEMMA ActSettings ==
    ASSUME TypeInv, SettingsInv, NEW s \in Sessions, Act(s) PROVE SettingsInv'
<1> USE DEF Locked
<1>v. view[s] \in Views /\ UnderSettings(pc[s], view[s])
  BY DEF TypeInv, TypeOK, SettingsInv
<1>s. ASSUME Stop(s), pc[s] \in Locked PROVE SettingsInv'
  BY <1>s, ReturnSettings DEF Stop
<1>1. CASE PullCheck(s) \/ RecoverCheck(s)
  BY <1>1, <1>s, QuietSettings DEF PullCheck, RecoverCheck, Enforced, Removal
<1>2. CASE PullWrite(s) \/ AddWrite(s)
  BY <1>2, <1>s, DoneSettings DEF PullWrite, AddWrite, Write
<1>3. CASE AddRead(s) \/ LintRead(s) \/ KeepRead(s)
  <2>1. CASE Stop(s)
    BY <1>3, <1>s, <2>1 DEF AddRead, LintRead, KeepRead
  <2>2. CASE \E p \in {"add_write", "lint_write", "keep_write"} :
                Go(s, p, [view[s] EXCEPT !.words = WordsOf(list)])
    BY <1>v, <2>2, QuietSettings DEF Views, Enforced, Removal
  <2> QED
    BY <1>3, <2>1, <2>2 DEF AddRead, LintRead, KeepRead
<1>4. CASE LintWrite(s)
  BY <1>4, <1>s, DoneSettings DEF LintWrite, WriteFixed, Write
<1>5. CASE KeepWrite(s)
  <2>1. CASE Stop(s)
    BY <1>5, <1>s, <2>1 DEF KeepWrite
  <2>2. CASE Go(s, "extra_wipe", [Returned(s) EXCEPT !.kept = Keys(view[s].out)])
    <3>1. /\ [Returned(s) EXCEPT !.kept = Keys(view[s].out)].used = Returned(s).used
          /\ [Returned(s) EXCEPT !.kept = Keys(view[s].out)].settings = Returned(s).settings
      BY ReturnedType DEF Views
    <3>2. Returned(s).settings = view[s].settings /\ Returned(s).used = view[s].used
      BY <1>5, <1>v DEF KeepWrite, Returned, Back, Ready, Views
    <3> QED
      BY <2>2, <3>1, <3>2, QuietSettings DEF Enforced, Removal
  <2> QED
    BY <1>5, <2>1, <2>2 DEF KeepWrite
<1>6. CASE ExtraCheck(s) \/ ExtraRead(s) \/ ExtraWrite(s)
  <2>1. CASE Stop(s)
    BY <1>6, <1>s, <2>1 DEF ExtraCheck, ExtraRead, ExtraWrite
  <2>2. CASE \E p \in Removal :
                \/ Go(s, p, view[s])
                \/ \E S : Go(s, p, [view[s] EXCEPT !.words = S])
                \/ \E d : Go(s, p, [view[s] EXCEPT !.todo = @ \ {d}])
    <3>1. PICK p \in Removal :
                \/ Go(s, p, view[s])
                \/ \E S : Go(s, p, [view[s] EXCEPT !.words = S])
                \/ \E d : Go(s, p, [view[s] EXCEPT !.todo = @ \ {d}])
      BY <2>2
    <3>2. UnderSettings(p, view[s])
      BY <1>6, <1>v DEF ExtraCheck, ExtraRead, ExtraWrite, UnderSettings, Enforced, Removal
    <3>3. ASSUME NEW S PROVE UnderSettings(p, [view[s] EXCEPT !.words = S])
      BY <1>v, <3>2 DEF UnderSettings, Views
    <3>4. ASSUME NEW d PROVE UnderSettings(p, [view[s] EXCEPT !.todo = @ \ {d}])
      BY <1>v, <3>2 DEF UnderSettings, Views
    <3> QED
      BY <3>1, <3>2, <3>3, <3>4, GoSettings
  <2> QED
    BY <1>6, <2>1, <2>2 DEF ExtraCheck, ExtraRead, ExtraWrite, Removal
<1>7. CASE PushCommit(s)
  BY <1>7, <1>s, DoneSettings
  DEF PushCommit, PushDryRun, PushDone, PushAborted, PushUnfinished
<1>8. CASE Recover(s) \/ EndProbe(s)
  BY <1>8, DoneSettings DEF Recover, EndProbe
<1> QED
  BY <1>1, <1>2, <1>3, <1>4, <1>5, <1>6, <1>7, <1>8 DEF Act

LEMMA SettingsInvHolds == Spec => []SettingsInv
<1>1. Init => SettingsInv
  BY DEF Init, SettingsInv, UnderSettings, NoView, Enforced, Removal
<1>2. TypeInv /\ SettingsInv /\ [Next]_vars => SettingsInv'
  <2> SUFFICES ASSUME TypeInv, SettingsInv, [Next]_vars PROVE SettingsInv'
    OBVIOUS
  <2>1. CASE EditList \/ EditDict \/ EditConfig \/ UNCHANGED vars
    BY <2>1 DEF EditList, EditDict, EditConfig, Edits, vars, session, SettingsInv
  <2>2. ASSUME NEW s \in Sessions, Preview(s) \/ Acquire(s) \/ Act(s) PROVE SettingsInv'
    BY <2>2, PreviewSettings, AcquireSettings, ActSettings
  <2>3. ASSUME NEW s \in Sessions, Refuse(s) PROVE SettingsInv'
    BY <2>3, ReturnSettings DEF Refuse
  <2>4. ASSUME NEW s \in Sessions, Die(s) PROVE SettingsInv'
    BY <2>4, DoneSettings DEF Die
  <2>5. ASSUME NEW s \in Sessions, Probe(s) PROVE SettingsInv'
    BY <2>5, QuietSettings DEF Probe, NoView, Enforced, Removal
  <2> QED
    BY <2>1, <2>2, <2>3, <2>4, <2>5 DEF Next
<1> QED
  BY TypeInvHolds, <1>1, <1>2, PTL DEF Spec

\* Who leaves the write of an update, or of a dictionary of a removal, does it in
\* that write, or dies.
LEMMA WriterSteps ==
    ASSUME TypeInv, LockInv, [Next]_vars, NEW s \in Sessions,
           pc[s] \in {"push_commit", "extra_write"}, pc'[s] # pc[s]
    PROVE  PushCommit(s) \/ ExtraWrite(s) \/ Die(s)
<1> USE DEF Locked
<1>1. PICK r \in Sessions : Preview(r) \/ Acquire(r) \/ Refuse(r) \/ Act(r) \/ Probe(r) \/ Die(r)
  BY DEF Next, EditList, EditDict, EditConfig, Edits, vars, session
<1>2. Alone(r) /\ (pc[r] \notin Locked \/ Act(r) \/ Die(r))
  <2>1. CASE Preview(r) \/ Refuse(r)
    BY <2>1, PreviewsOutside, RefuseOutside DEF Outside, LockInv
  <2>2. CASE Acquire(r) \/ Probe(r)
    BY <2>2, AcquireEnters, ProbeEnters DEF Entering, LockInv
  <2>3. CASE Act(r)
    BY <2>3, ActsInside DEF LockInv
  <2>4. CASE Die(r)
    BY <2>4, DoneLeaves DEF Die, files, LockInv
  <2> QED
    BY <1>1, <2>1, <2>2, <2>3, <2>4
<1>3. r = s
  BY <1>2 DEF Alone
<1> QED
  BY <1>2, <1>3
  DEF Act, PullCheck, PullWrite, AddRead, AddWrite, LintRead, LintWrite, KeepRead,
      KeepWrite, ExtraCheck, ExtraRead, RecoverCheck, Recover, EndProbe

\* An update or a removal writes no dictionary that was disabled when it took the
\* lock: what its preview used was enabled by the settings the preview had read,
\* and under the lock these are compared with those in force.
THEOREM DisabledStaysHolds == Spec => DisabledStays
<1> DEFINE Stay == \A s \in Sessions : Ends(s, "push_commit") \/ Ends(s, "extra_write") =>
              \A d \in Dicts : dict'[d] # dict[d] => d \in enabled[view[s].digest]
<1>1. TypeInv /\ LockInv /\ SettingsInv /\ [Next]_vars => Stay
  <2> SUFFICES ASSUME TypeInv, LockInv, SettingsInv, [Next]_vars, NEW s \in Sessions,
                      Ends(s, "push_commit") \/ Ends(s, "extra_write"),
                      NEW d \in Dicts, dict'[d] # dict[d]
               PROVE  d \in enabled[view[s].digest]
    OBVIOUS
  <2>1. view[s].used \subseteq enabled[view[s].digest] /\ UnderSettings(pc[s], view[s])
    BY DEF Ends, SettingsInv, UnderSettings, Enforced, Removal
  <2>2. CASE PushCommit(s)
    <3>1. CASE Stop(s)
      BY <3>1 DEF Stop
    <3>2. CASE \E S \in SUBSET view[s].used : dict' = Updated(view[s], S)
      BY <2>1, <3>2 DEF Updated
    <3> QED
      BY <2>2, <3>1, <3>2 DEF PushCommit, PushDryRun, PushDone, PushAborted, PushUnfinished
  <2>3. CASE ExtraWrite(s)
    <3> DEFINE e == Least(view[s].todo)
    <3>1. CASE Stop(s)
      BY <3>1 DEF Stop
    <3>2. CASE \/ dict' = dict
               \/ dict' = [dict EXCEPT ![e] = Subtract(view[s].words, view[s].out)]
      <4>1. view[s].todo \in SUBSET Dicts /\ view[s].todo # {}
        BY <2>3 DEF ExtraWrite, TypeInv, TypeOK, Views, Chosen, Removing
      <4>2. e \in view[s].todo
        BY <4>1, LeastMember
      <4>3. d = e
        <5> HIDE DEF e
        <5> QED BY <3>2 DEF TypeInv, TypeOK
      <4> QED
        BY <2>1, <2>3, <4>2, <4>3 DEF ExtraWrite, UnderSettings, Removal
    <3> QED
      BY <2>3, <3>1, <3>2 DEF ExtraWrite
  <2>4. ~Die(s)
    BY DEF Die, files
  <2> QED
    BY <2>2, <2>3, <2>4, WriterSteps DEF Ends
<1> QED
  BY TypeInvHolds, LockInvHolds, SettingsInvHolds, <1>1, PTL DEF Spec, DisabledStays
=============================================================================

---------------------------- MODULE WordsKept_proofs ----------------------------
(***************************************************************************)
(* No word is lost, for every number of sessions, words and dictionaries:  *)
(* no command makes the list forget one, an update takes from a dictionary *)
(* only what it showed, removing extra words only what was rejected - save *)
(* words that came between two looks at the file.                          *)
(*                                                                         *)
(* The first invariant says of each session what it has of the list: in a  *)
(* window the words themselves, after the preview the words of the hash it *)
(* will compare.  It survives the steps of the others because who changes  *)
(* the list tells every session that is not looking (MissList).  The last  *)
(* part is about the merge of a collect: the set it is taken from has what *)
(* the loop over the dictionaries makes, and nothing else.                 *)
(***************************************************************************)
EXTENDS WordCommands_proofs

Collecting == {"pull_hash", "pull_ready", "pull_check", "pull_write"}
Hashed     == {"pull_ready", "pull_check", "push_ready", "push_commit"}
Unhashed   == {"push_ready", "push_commit"}

\* What session s goes on with at p, holding v, keeps the words of the list.
Keeps(s, p, v) ==
    /\ p \in ListWindows => WordsOf(list) \ late[s] \subseteq v.words
    /\ p \in Hashed => WordsOf(v.hash) \ late[s] \subseteq v.words
    /\ p \in Unhashed /\ v.hash = Missing => WordsOf(list) \ late[s] \subseteq v.words
    /\ p \in Collecting => Keys(v.words) \subseteq Keys(v.out)

Kept == \A s \in Sessions : Keeps(s, pc[s], view[s])

\* Session r is told of what it does not notice.
Told(r) == /\ late[r] \subseteq late'[r]
           /\ Blind(r) => WordsOf(list') \subseteq WordsOf(list) \cup late'[r]

-----------------------------------------------------------------------------
(* Steps of the others.                                                     *)

LEMMA ToldKeeps ==
    ASSUME NEW r \in Sessions, Keeps(r, pc[r], view[r]), Told(r),
           pc'[r] = pc[r], view'[r] = view[r]
    PROVE  Keeps(r, pc[r], view[r])'
BY DEF Keeps, Told, Blind, Unhashed

LEMMA MissTells ==
    ASSUME TypeInv, NEW r \in Sessions
    PROVE  /\ MissList(list') => Told(r)
           /\ \A d \in Dicts, c \in Content : MissDict(d, c) /\ list' = list => Told(r)
<1>1. \A c : MissList(c) => /\ late[r] \subseteq late'[r]
                            /\ Blind(r) => WordsOf(c) \subseteq WordsOf(list) \cup late'[r]
  BY DEF MissList
<1>2. \A d, c : MissDict(d, c) => late[r] \subseteq late'[r]
  BY DEF MissDict
<1> QED
  BY <1>1, <1>2 DEF Told

\* While the list stays there is nothing to tell r, and nobody forgets for it.
LEMMA StaysTells ==
    ASSUME TypeInv, NEW s \in Sessions, NEW r \in Sessions \ {s}, list' = list,
           late' = late \/ \E S : late' = [late EXCEPT ![s] = S]
    PROVE  Told(r)
BY DEF Told, TypeInv, TypeOK

LEMMA PreviewTells ==
    ASSUME TypeInv, NEW s \in Sessions, Preview(s) \/ Acquire(s) \/ Refuse(s) \/ Probe(s) \/ Die(s),
           NEW r \in Sessions \ {s}
    PROVE  Told(r)
<1>1. list' = list /\ (late' = late \/ late' = [late EXCEPT ![s] = {}])
  BY DEF Preview, BeginPull, PullSources, PullFile, PullHash, BeginPush, PlanPush, PlanRewrite,
         PushHash, BeginExtra, ExtraSources, Rescan, KeepWords, SkipKeeping, RejectWords, BeginAdd,
         BeginLint, InspectRecovery, Decline, Acquire, Refuse, Probe, Die, Begins, Looks, files
<1> QED
  BY <1>1, StaysTells

LEMMA ActTells ==
    ASSUME TypeInv, LockInv, NEW s \in Sessions, Act(s), NEW r \in Sessions \ {s}
    PROVE  Told(r)
<1>1. CASE PullCheck(s) \/ RecoverCheck(s) \/ ExtraCheck(s) \/ EndProbe(s)
  BY <1>1, StaysTells DEF PullCheck, RecoverCheck, ExtraCheck, EndProbe, Stop, files
<1>2. CASE AddRead(s) \/ LintRead(s) \/ KeepRead(s) \/ ExtraRead(s)
  <2>1. list' = list /\ (late' = late \/ late' = [late EXCEPT ![s] = {}])
    BY <1>2 DEF AddRead, LintRead, KeepRead, ExtraRead, Stop
  <2> QED
    BY <2>1, StaysTells
<1>3. CASE PullWrite(s) \/ AddWrite(s) \/ LintWrite(s) \/ KeepWrite(s)
  <2>1. MissList(list') \/ (list' = list /\ late' = late)
    BY <1>3 DEF PullWrite, AddWrite, LintWrite, WriteFixed, KeepWrite, Write, Stop
  <2> QED
    BY <2>1, StaysTells, MissTells
<1>4. CASE ExtraWrite(s)
  <2> DEFINE d    == Least(view[s].todo)
             left == Subtract(view[s].words, view[s].out)
  <2>1. view[s] \in Views /\ view[s].todo # {}
    BY <1>4 DEF ExtraWrite, TypeInv, TypeOK, Chosen, Removing
  <2>2. d \in Dicts
    BY <2>1, LeastMember DEF Views
  <2>3. view[s].words \in SUBSET Word /\ view[s].out \in SUBSET Word
    BY <2>1 DEF Views
  <2>4. left \in Content
    BY <2>3, WordOperators, ContentTypes
  <2>5. list' = list /\ (late' = late \/ MissDict(d, left))
    BY <1>4 DEF ExtraWrite, Stop
  <2> HIDE DEF d, left
  <2> QED
    BY <2>2, <2>4, <2>5, StaysTells, MissTells
<1>5. CASE PushCommit(s)
  <2>1. MissList(list') \/ (list' = list /\ late' = late)
    BY <1>5 DEF PushCommit, PushDryRun, PushDone, PushAborted, PushUnfinished, Stop
  <2> QED
    BY <2>1, StaysTells, MissTells
<1>6. CASE Recover(s)
  BY <1>6, MissTells DEF Recover
<1> QED
  BY <1>1, <1>2, <1>3, <1>4, <1>5, <1>6 DEF Act

-----------------------------------------------------------------------------
(* A session's own steps.                                                   *)

\* At these places nothing is asked of what the session holds.
Careless == (Places \ ListWindows) \ (Hashed \cup Collecting)

LEMMA CarelessKeeps ==
    ASSUME NEW s, NEW p \in Careless, NEW v PROVE Keeps(s, p, v)'
BY DEF Careless, Keeps, Unhashed, Hashed

\* It is known where the session goes, and with what.
LEMMA GoKeeps ==
    ASSUME Placed, NEW s \in Sessions, NEW p \in Places, NEW v, Go(s, p, v), Keeps(s, p, v)'
    PROVE  Keeps(s, pc[s], view[s])'
BY DEF Placed, Go, Keeps

\* It only looks: nothing is written, and it remembers the words that came.
LEMMA LooksKeeps ==
    ASSUME Placed, NEW s \in Sessions, NEW p \in Places, NEW v, Go(s, p, v), Keeps(s, p, v),
           list' = list, late' = late
    PROVE  Keeps(s, pc[s], view[s])'
BY GoKeeps DEF Keeps

\* It begins, or reads the list again: it has all the words of the list.
LEMMA ReadsKeeps ==
    ASSUME TypeInv, Placed, NEW s \in Sessions, NEW p \in Places \ (Hashed \cup Collecting), NEW v,
           Go(s, p, v), p \in ListWindows => v.words = WordsOf(list),
           list' = list, late' = [late EXCEPT ![s] = {}]
    PROVE  Keeps(s, pc[s], view[s])'
<1>1. late'[s] = {}
  BY DEF TypeInv, TypeOK
<1> QED
  BY <1>1, GoKeeps DEF Keeps, Unhashed, Hashed

\* It goes on where nothing is asked of it.
LEMMA EndsKeeps ==
    ASSUME Placed, NEW s \in Sessions, NEW p \in Careless, NEW v, Go(s, p, v)
    PROVE  Keeps(s, pc[s], view[s])'
BY CarelessKeeps, GoKeeps DEF Careless

LEMMA StopKeeps ==
    ASSUME Placed, NEW s \in Sessions, pc[s] \in Ready \cup Locked, NEW v, Go(s, Back[pc[s]], v)
    PROVE  Keeps(s, pc[s], view[s])'
<1>1. Back[pc[s]] \in Careless
  BY BackOutside DEF Careless, Places, Previewing, ListWindows, Hashed, Collecting
<1> QED
  BY <1>1, EndsKeeps

LEMMA OwnPreviewKeeps ==
    ASSUME TypeInv, Placed, NEW s \in Sessions, Keeps(s, pc[s], view[s]), Preview(s)
    PROVE  Keeps(s, pc[s], view[s])'
<1> USE DEF Places, Previewing, Ready, ListWindows, Hashed, Collecting, Unhashed
<1>v. /\ view[s] \in Views /\ view[s].words \in SUBSET Word /\ view[s].out \in SUBSET Word
      /\ WordsOf(list) \in SUBSET Word
  BY ContentTypes DEF TypeInv, TypeOK, Views
<1>n. /\ [NoView EXCEPT !.words = WordsOf(list), !.settings = config].words = WordsOf(list)
      /\ \A c : [NoView EXCEPT !.found = c].words = {}
  BY NoViewType DEF Views, NoView
<1>1. CASE BeginPull(s) \/ BeginPush(s)
  BY <1>1, <1>n, ReadsKeeps DEF BeginPull, BeginPush, Begins, files
<1>2. CASE PullSources(s)
  <2> DEFINE source == [d \in UsedBy(view[s]) |-> WordsOf(dict[d])]
  <2>1. PICK merged \in Collected(view[s].words, source) :
           Go(s, "pull_hash", [view[s] EXCEPT !.used = UsedBy(view[s]),
                                              !.dicts = Seen(view[s]), !.out = merged])
    BY <1>2 DEF PullSources
  <2>2. \A d \in DOMAIN source : source[d] \subseteq Word
    BY <1>v, SeenTypes
  <2> HIDE DEF source
  <2>3. Keys(view[s].words) \subseteq Keys(merged)
    BY <1>v, <2>1, <2>2, CollectedType
  <2> DEFINE v == [view[s] EXCEPT !.used = UsedBy(view[s]), !.dicts = Seen(view[s]),
                                  !.out = merged]
  <2>4. v.words = view[s].words /\ v.out = merged
    BY <1>v DEF Views
  <2>5. Go(s, "pull_hash", v) /\ Looks(s) /\ pc[s] = "pull_sources"
    BY <1>2, <2>1 DEF PullSources
  <2> HIDE DEF v
  <2>6. Keeps(s, "pull_hash", v)
    BY <2>3, <2>4, <2>5 DEF Keeps
  <2> QED
    BY <2>5, <2>6, LooksKeeps DEF Looks, files
<1>3. CASE PullFile(s)
  <2>0. PICK file \in Typed : \E merged \in Collected(view[s].words, <<file>>) :
           Go(s, "pull_hash", [view[s] EXCEPT !.out = merged])
    BY <1>3 DEF PullFile
  <2> DEFINE source == <<file>>
  <2>1. PICK merged \in Collected(view[s].words, source) :
           Go(s, "pull_hash", [view[s] EXCEPT !.out = merged])
    BY <2>0
  <2>2. \A d \in DOMAIN source : source[d] \subseteq Word
    BY CommandAssumption
  <2> HIDE DEF source
  <2>3. Keys(view[s].words) \subseteq Keys(merged)
    BY <1>v, <2>1, <2>2, CollectedType
  <2> DEFINE v == [view[s] EXCEPT !.out = merged]
  <2>4. v.words = view[s].words /\ v.out = merged
    BY <1>v DEF Views
  <2>5. Go(s, "pull_hash", v) /\ Looks(s) /\ pc[s] = "pull_sources"
    BY <1>3, <2>1 DEF PullFile
  <2> HIDE DEF v
  <2>6. Keeps(s, "pull_hash", v)
    BY <2>3, <2>4, <2>5 DEF Keeps
  <2> QED
    BY <2>5, <2>6, LooksKeeps DEF Looks, files
<1>4. CASE PullHash(s) \/ PushHash(s)
  <2> DEFINE v == [view[s] EXCEPT !.hash = list, !.digest = config]
  <2>1. v.words = view[s].words /\ v.out = view[s].out /\ v.hash = list
    BY <1>v DEF Views
  <2>2. \/ Go(s, "pull_ready", v) /\ pc[s] = "pull_hash"
        \/ Go(s, "push_ready", v) /\ pc[s] = "push_hash"
    BY <1>4 DEF PullHash, PushHash
  <2> HIDE DEF v
  <2>3. /\ pc[s] = "pull_hash" => Keeps(s, "pull_ready", v)
        /\ pc[s] = "push_hash" => Keeps(s, "push_ready", v)
    BY <2>1 DEF Keeps
  <2>4. list' = list /\ late' = late
    BY <1>4 DEF PullHash, PushHash, Looks, files
  <2> QED
    BY <2>2, <2>3, <2>4, LooksKeeps
<1>5. CASE PlanPush(s)
  <2> DEFINE v == [view[s] EXCEPT !.used = UsedBy(view[s]), !.dicts = Seen(view[s])]
  <2>1. v.words = view[s].words
    BY <1>v DEF Views
  <2>2. Go(s, "idle", NoView) \/ Go(s, "push_rewrite", v)
    BY <1>5 DEF PlanPush
  <2> HIDE DEF v
  <2>3. Keeps(s, "push_rewrite", v) /\ list' = list /\ late' = late
    BY <1>5, <2>1 DEF Keeps, PlanPush, Looks, files
  <2> QED
    BY <2>2, <2>3, EndsKeeps, LooksKeeps DEF Careless
<1>6. CASE PlanRewrite(s)
  <2>0. PICK b \in BOOLEAN : Go(s, "push_hash", [view[s] EXCEPT !.rewrite = b])
    BY <1>6 DEF PlanRewrite
  <2> DEFINE v == [view[s] EXCEPT !.rewrite = b]
  <2>1. v.words = view[s].words /\ Go(s, "push_hash", v)
    BY <1>v, <2>0 DEF Views
  <2> HIDE DEF v
  <2>2. Keeps(s, "push_hash", v) /\ list' = list /\ late' = late
    BY <1>6, <2>1 DEF Keeps, PlanRewrite, Looks, files
  <2> QED
    BY <2>1, <2>2, LooksKeeps
<1>7. CASE BeginExtra(s) \/ ExtraSources(s) \/ Rescan(s) \/ KeepWords(s) \/ SkipKeeping(s)
           \/ RejectWords(s) \/ BeginAdd(s) \/ BeginLint(s) \/ InspectRecovery(s) \/ Decline(s)
  <2>1. \E p \in {"extra_sources", "extra_keep", "extra_wipe", "keep_ready", "extra_ready",
                  "add_ready", "lint_ready", "recover_ready", "idle"} : \E v : Go(s, p, v)
    BY <1>7 DEF BeginExtra, ExtraSources, Rescan, KeepWords, SkipKeeping, RejectWords, BeginAdd,
                BeginLint, InspectRecovery, Decline
  <2> QED
    BY <2>1, EndsKeeps DEF Careless
<1> QED
  BY <1>1, <1>2, <1>3, <1>4, <1>5, <1>6, <1>7 DEF Preview

LEMMA OwnLockKeeps ==
    ASSUME TypeInv, Placed, NEW s \in Sessions, Keeps(s, pc[s], view[s]),
           Acquire(s) \/ Refuse(s) \/ Probe(s) \/ Die(s)
    PROVE  Keeps(s, pc[s], view[s])'
<1> USE DEF Places, Locked, Ready, Previewing, ListWindows, Hashed, Collecting, Unhashed
<1>1. CASE Acquire(s)
  <2> DEFINE v == [view[s] EXCEPT !.todo = Needed(view[s])]
  <2>1. v.words = view[s].words /\ v.out = view[s].out /\ v.hash = view[s].hash
    BY DEF TypeInv, TypeOK, Views
  <2>2. Go(s, Locks[pc[s]], v) /\ list' = list /\ late' = late /\ pc[s] \in Ready
    BY <1>1 DEF Acquire, files
  <2> HIDE DEF v
  <2>3. Keeps(s, Locks[pc[s]], v)
    BY <2>1, <2>2 DEF Keeps, Locks
  <2>4. Locks[pc[s]] \in Places
    BY <2>2 DEF Locks
  <2> QED
    BY <2>2, <2>3, <2>4, LooksKeeps
<1>2. CASE Refuse(s)
  BY <1>2, StopKeeps DEF Refuse
<1>3. CASE Probe(s) \/ Die(s)
  BY <1>3, EndsKeeps DEF Probe, Die, Done, Careless
<1> QED
  BY <1>1, <1>2, <1>3

LEMMA OwnActKeeps ==
    ASSUME TypeInv, Placed, NEW s \in Sessions, Keeps(s, pc[s], view[s]), Act(s)
    PROVE  Keeps(s, pc[s], view[s])'
<1> USE DEF Places, Locked, Previewing, ListWindows, Hashed, Collecting, Unhashed
<1>v. view[s] \in Views
  BY DEF TypeInv, TypeOK
<1>1. CASE PullCheck(s)
  <2>1. CASE Go(s, "pull_write", view[s]) /\ UNCHANGED <<list, late>> /\ list = view[s].hash
    BY <1>1, <2>1, LooksKeeps DEF PullCheck, Keeps
  <2> QED
    BY <1>1, <2>1, StopKeeps DEF PullCheck, Stop
<1>2. CASE AddRead(s) \/ LintRead(s) \/ KeepRead(s)
  <2> DEFINE v == [view[s] EXCEPT !.words = WordsOf(list)]
  <2>1. v.words = WordsOf(list)
    BY <1>v DEF Views
  <2>2. CASE Stop(s)
    BY <1>2, <2>2, StopKeeps DEF AddRead, LintRead, KeepRead, Stop
  <2>3. CASE /\ \E p \in {"add_write", "lint_write", "keep_write"} : Go(s, p, v)
             /\ late' = [late EXCEPT ![s] = {}] /\ list' = list
    <3> HIDE DEF v
    <3> QED
      BY <2>1, <2>3, ReadsKeeps
  <2> QED
    BY <1>2, <2>2, <2>3 DEF AddRead, LintRead, KeepRead
<1>3. CASE PullWrite(s) \/ AddWrite(s) \/ LintWrite(s) \/ KeepWrite(s) \/ ExtraCheck(s)
           \/ ExtraRead(s) \/ ExtraWrite(s) \/ PushCommit(s) \/ RecoverCheck(s) \/ Recover(s)
           \/ EndProbe(s)
  <2>1. CASE Stop(s)
    BY <1>3, <2>1, StopKeeps
    DEF PullWrite, AddWrite, LintWrite, KeepWrite, ExtraCheck, ExtraRead, ExtraWrite,
        PushCommit, RecoverCheck, Recover, EndProbe, Stop
  <2>2. CASE \E p \in {"idle", "extra_wipe", "extra_read", "extra_write", "extra_check",
                       "recover_write"} : \E v : Go(s, p, v)
    BY <2>2, EndsKeeps DEF Careless
  <2> QED
    BY <1>3, <2>1, <2>2
    DEF PullWrite, AddWrite, LintWrite, WriteFixed, KeepWrite, ExtraCheck, ExtraRead, ExtraWrite,
        PushCommit, PushDryRun, PushDone, PushAborted, PushUnfinished, RecoverCheck, Recover,
        EndProbe, Write, Done
<1> QED
  BY <1>1, <1>2, <1>3 DEF Act

-----------------------------------------------------------------------------

LEMMA KeptHolds == Spec => []Kept
<1>1. Init => Kept
  <2>1. Init => \A s \in Sessions : pc[s] = "idle"
    BY DEF Init
  <2> QED
    BY <2>1 DEF Kept, Keeps, ListWindows, Hashed, Collecting, Unhashed
<1>2. TypeInv /\ LockInv /\ Kept /\ [Next]_vars => Kept'
  <2> SUFFICES ASSUME TypeInv, LockInv, Kept, [Next]_vars, NEW r \in Sessions
               PROVE  Keeps(r, pc[r], view[r])'
    BY DEF Kept
  <2>0. Keeps(r, pc[r], view[r]) /\ Placed
    BY DEF Kept, LockInv
  <2>1. ASSUME NEW s \in Sessions, Preview(s) \/ Acquire(s) \/ Refuse(s) \/ Act(s) \/ Probe(s) \/ Die(s)
        PROVE  Keeps(r, pc[r], view[r])'
    <3>1. CASE r = s
      BY <2>0, <2>1, <3>1, OwnPreviewKeeps, OwnLockKeeps, OwnActKeeps
    <3>2. CASE r # s
      <4>1. Told(r)
        BY <2>1, <3>2, PreviewTells, ActTells
      <4>2. Alone(s)
        BY <2>0, <2>1, PreviewsOutside, RefuseOutside, AcquireEnters, ProbeEnters, ActsInside,
           DoneLeaves DEF Die, files
      <4> QED
        BY <2>0, <3>2, <4>1, <4>2, ToldKeeps DEF Alone
    <3> QED
      BY <3>1, <3>2
  <2>2. ASSUME EditList \/ EditDict \/ EditConfig PROVE Keeps(r, pc[r], view[r])'
    <3>1. Told(r)
      <4>1. CASE EditList
        BY <4>1, MissTells DEF EditList
      <4>2. CASE EditDict
        <5>1. PICK d \in Dicts : \E c \in EditDicts : MissDict(d, c)
          BY <4>2 DEF EditDict
        <5>2. PICK c \in EditDicts : MissDict(d, c)
          BY <5>1
        <5>3. c \in Content /\ list' = list
          BY <4>2, CommandAssumption DEF EditDict
        <5> QED
          BY <5>2, <5>3, MissTells
      <4>3. CASE EditConfig
        BY <4>3 DEF EditConfig, Told
      <4> QED
        BY <2>2, <4>1, <4>2, <4>3
    <3> QED
      BY <2>0, <2>2, <3>1, ToldKeeps DEF EditList, EditDict, EditConfig, Edits
  <2>3. CASE UNCHANGED vars
    BY <2>0, <2>3 DEF vars, files, session, Keeps
  <2> QED
    BY <2>1, <2>2, <2>3 DEF Next
<1> QED
  BY <1>1, <1>2, TypeInvHolds, LockInvHolds, PTL DEF Spec

\* No command makes the list forget a word that did not come between two of its
\* looks at the list: what it writes is what it read, or the words its preview
\* merged with them, and the hash it compares is younger than the words.
THEOREM ListKept == Spec => ListKeepsItsWords
<1> DEFINE Forgets(s) == /\ list' # list /\ pc'[s] # pc[s] /\ pc[s] # "recover_write"
                         /\ \E w \in WordsOf(list) \ late[s] :
                               casefold[w] \notin Keys(WordsOf(list'))
<1>1. ASSUME TypeInv, LockInv, Kept, NEW s \in Sessions, Act(s), list' # list,
             pc[s] # "recover_write"
      PROVE  \A w \in WordsOf(list) \ late[s] : casefold[w] \in Keys(WordsOf(list'))
  <2> DEFINE v == view[s]
  <2>v. /\ v.words \in SUBSET Word /\ v.out \in SUBSET Word
        /\ v.words \subseteq Word /\ Keeps(s, pc[s], v)
    BY <1>1 DEF TypeInv, TypeOK, Views, Kept
  <2>w. \A S \in SUBSET Word : WordsOf(S) = S
    BY WordAssumption DEF WordsOf, Missing, Garbled
  <2>k. \A S, T : S \subseteq T => Keys(S) \subseteq Keys(T)
    BY DEF Keys
  <2>l. \A S : \A w \in S : casefold[w] \in Keys(S)
    BY DEF Keys
  <2> HIDE DEF v
  <2>1. CASE /\ WordsOf(list) \ late[s] \subseteq v.words
             /\ \E S \in SUBSET Word : list' = S /\ Keys(v.words) \subseteq Keys(S)
    BY <2>1, <2>w, <2>l
  <2>2. CASE PullWrite(s)
    BY <1>1, <2>2, <2>v, <2>1 DEF PullWrite, Write, Stop, Keeps, ListWindows, Collecting, v
  <2>3. CASE AddWrite(s) \/ KeepWrite(s)
    <3>1. /\ \E added \in Added(v.words, v.out) : list' = v.words \cup added
          /\ pc[s] \in ListWindows
      BY <1>1, <2>3 DEF AddWrite, KeepWrite, Write, Stop, ListWindows, v
    <3>2. PICK added \in Added(v.words, v.out) : list' = v.words \cup added
      BY <3>1
    <3>3. added \subseteq Word
      BY <2>v, WordOperators
    <3>4. list' \in SUBSET Word /\ Keys(v.words) \subseteq Keys(list')
      BY <2>v, <2>k, <3>2, <3>3
    <3> QED
      BY <2>v, <2>1, <3>1, <3>4 DEF Keeps
  <2>4. CASE LintWrite(s)
    <3>1. (\E fixed \in Dedups(v.words) : list' = fixed) /\ pc[s] \in ListWindows
      BY <1>1, <2>4 DEF LintWrite, WriteFixed, Write, Stop, ListWindows, v
    <3>2. list' \in SUBSET Word /\ Keys(v.words) \subseteq Keys(list')
      BY <2>v, <3>1 DEF Dedups
    <3> QED
      BY <2>v, <2>1, <3>1, <3>2 DEF Keeps
  <2>5. CASE PushCommit(s)
    <3>1. ~Conflict(v) /\ list' = v.words /\ pc[s] = "push_commit"
      BY <1>1, <2>5
      DEF PushCommit, PushDryRun, PushDone, PushAborted, PushUnfinished, NewList, Stop, v
    <3>2. WordsOf(list) \ late[s] \subseteq v.words
      BY <2>v, <3>1 DEF Conflict, Keeps, Hashed, Unhashed
    <3> QED
      BY <2>v, <2>1, <3>1, <3>2
  <2> QED
    BY <1>1, <2>2, <2>3, <2>4, <2>5
    DEF Act, PullCheck, AddRead, LintRead, KeepRead, ExtraCheck, ExtraRead, ExtraWrite,
        RecoverCheck, Recover, EndProbe, Stop, files
<1>2. TypeInv /\ LockInv /\ Kept /\ [Next]_vars => \A s \in Sessions : ~Forgets(s)
  <2> SUFFICES ASSUME TypeInv, LockInv, Kept, [Next]_vars, NEW s \in Sessions, Forgets(s)
               PROVE  FALSE
    OBVIOUS
  <2>1. PICK r \in Sessions : Preview(r) \/ Acquire(r) \/ Refuse(r) \/ Act(r) \/ Probe(r) \/ Die(r)
    BY DEF Next, vars, files, session, EditList, EditDict, EditConfig, Edits
  <2>2. CASE Act(r)
    <3>1. Alone(r)
      BY <2>2, ActsInside DEF LockInv
    <3>2. r = s
      BY <3>1 DEF Alone
    <3> QED
      BY <1>1, <2>2, <3>2
  <2>3. CASE Preview(r) \/ Acquire(r) \/ Refuse(r) \/ Probe(r) \/ Die(r)
    BY <2>3 DEF Preview, BeginPull, PullSources, PullFile, PullHash, BeginPush, PlanPush, PlanRewrite,
         PushHash, BeginExtra, ExtraSources, Rescan, KeepWords, SkipKeeping, RejectWords, BeginAdd,
         BeginLint, InspectRecovery, Decline, Acquire, Refuse, Probe, Die, Begins, Looks, files
  <2> QED
    BY <2>1, <2>2, <2>3
<1>3. (\A s \in Sessions : ~Forgets(s)) =>
        \A s \in Sessions : list' # list /\ pc'[s] # pc[s] /\ pc[s] # "recover_write" =>
          \A w \in WordsOf(list) \ late[s] : casefold[w] \in Keys(WordsOf(list'))
  OBVIOUS
<1> HIDE DEF Forgets
<1> QED
  BY KeptHolds, TypeInvHolds, LockInvHolds, <1>2, <1>3, PTL DEF Spec, ListKeepsItsWords

\* An update takes away what its plan showed and the list does not hold: the
\* dictionaries still hash as when they were read, and the list as when its words
\* were.
THEOREM OnlyShownRemoved == Spec => UpdateRemovesOnlyShown
<1> DEFINE OnlyShown(s) == Ends(s, "push_commit") =>
              \A d \in Dicts : \A w \in WordsOf(dict[d]) \ WordsOf(dict'[d]) :
                 /\ w \in WordsOf(view[s].dicts[d])
                 /\ w \in WordsOf(list) \cap filter[d] => w \in late[s]
<1>1. ASSUME TypeInv, Kept, NEW s \in Sessions, PushCommit(s) PROVE OnlyShown(s)
  <2> SUFFICES ASSUME NEW d \in Dicts, NEW w \in WordsOf(dict[d]) \ WordsOf(dict'[d])
               PROVE  /\ w \in WordsOf(view[s].dicts[d])
                      /\ w \in WordsOf(list) \cap filter[d] => w \in late[s]
    OBVIOUS
  <2> DEFINE v == view[s]
  <2>v. /\ v.words \in SUBSET Word /\ v.words \subseteq Word /\ Keeps(s, pc[s], v)
        /\ v.used \subseteq Dicts
    BY <1>1 DEF TypeInv, TypeOK, Views, Kept
  <2>0. dict' # dict
    OBVIOUS
  <2> HIDE DEF v
  <2>1. ~Conflict(v) /\ \E S \in SUBSET v.used : dict' = Updated(v, S)
    BY <1>1, <2>0 DEF PushCommit, PushDryRun, PushDone, PushAborted, PushUnfinished, Stop, v
  <2>2. PICK S \in SUBSET v.used : dict' = Updated(v, S)
    BY <2>1
  <2>3. d \in S /\ dict'[d] = v.words \cap filter[d]
    BY <2>2 DEF Updated, Target
  <2>4. dict[d] = v.dicts[d]
    BY <2>1, <2>2, <2>3 DEF Conflict
  <2>5. WordsOf(dict'[d]) = v.words \cap filter[d]
    BY <2>v, <2>3, WordAssumption DEF WordsOf, Missing, Garbled
  <2>6. pc[s] = "push_commit" /\ WordsOf(list) \ late[s] \subseteq v.words
    BY <1>1, <2>v, <2>1 DEF PushCommit, Conflict, Keeps, Hashed, Unhashed
  <2> QED
    BY <2>4, <2>5, <2>6 DEF v
<1>2. TypeInv /\ LockInv /\ Kept /\ [Next]_vars => \A s \in Sessions : OnlyShown(s)
  <2> SUFFICES ASSUME TypeInv, LockInv, Kept, [Next]_vars, NEW s \in Sessions,
                      Ends(s, "push_commit"), dict' # dict
               PROVE  OnlyShown(s)
    OBVIOUS
  <2>1. PICK r \in Sessions : Preview(r) \/ Acquire(r) \/ Refuse(r) \/ Act(r) \/ Probe(r) \/ Die(r)
    BY DEF Ends, Next, vars, files, session, EditList, EditDict, EditConfig, Edits
  <2>2. r = s
    BY <2>1, PreviewsOutside, RefuseOutside, AcquireEnters, ProbeEnters, ActsInside, DoneLeaves
    DEF LockInv, Alone, Ends, Die, files
  <2>3. Act(s)
    BY <2>1, <2>2
    DEF Preview, BeginPull, PullSources, PullFile, PullHash, BeginPush, PlanPush, PlanRewrite,
        PushHash, BeginExtra, ExtraSources, Rescan, KeepWords, SkipKeeping, RejectWords, BeginAdd,
        BeginLint, InspectRecovery, Decline, Acquire, Refuse, Probe, Die, Begins, Looks, files
  <2>4. PushCommit(s)
    BY <2>3 DEF Ends, Act, PullCheck, PullWrite, AddRead, AddWrite, LintRead, LintWrite, KeepRead,
                KeepWrite, ExtraCheck, ExtraRead, ExtraWrite, RecoverCheck, Recover, EndProbe
  <2> QED
    BY <1>1, <2>4
<1> HIDE DEF OnlyShown
<1>3. (\A s \in Sessions : OnlyShown(s)) =>
        \A s \in Sessions : Ends(s, "push_commit") =>
          \A d \in Dicts : \A w \in WordsOf(dict[d]) \ WordsOf(dict'[d]) :
             /\ w \in WordsOf(view[s].dicts[d])
             /\ w \in WordsOf(list) \cap filter[d] => w \in late[s]
  BY DEF OnlyShown
<1> QED
  BY KeptHolds, TypeInvHolds, LockInvHolds, <1>2, <1>3, PTL DEF Spec, UpdateRemovesOnlyShown

-----------------------------------------------------------------------------
(* Removing extra words.                                                    *)

Rejecting == {"extra_ready", "extra_check", "extra_read", "extra_write"}

\* Who removes words has read the dictionary he writes, and rejects none that
\* were kept before.
Spares(s, p, v) ==
    /\ p = "extra_write" => WordsOf(dict[Least(v.todo)]) \ late[s] \subseteq v.words
    /\ p \in Rejecting => Keys(v.out) \cap v.kept = {}

Spared == \A s \in Sessions : Spares(s, pc[s], view[s])

\* ... in the state a step ends in, for what s holds now.
WillSpare(s, p, v) ==
    /\ p = "extra_write" => WordsOf(dict'[Least(v.todo)]) \ late'[s] \subseteq v.words
    /\ p \in Rejecting => Keys(v.out) \cap v.kept = {}

LEMMA GoSpares ==
    ASSUME Placed, NEW s \in Sessions, NEW p \in Places, NEW v, Go(s, p, v), WillSpare(s, p, v)
    PROVE  Spares(s, pc[s], view[s])'
BY DEF Placed, Go, Spares, WillSpare

LEMMA EndSpares ==
    ASSUME Placed, NEW s \in Sessions, NEW p \in Places \ Rejecting, NEW v, Go(s, p, v)
    PROVE  Spares(s, pc[s], view[s])'
BY GoSpares DEF WillSpare, Rejecting

LEMMA StopSpares ==
    ASSUME Placed, NEW s \in Sessions, pc[s] \in Ready \cup Locked, NEW v, Go(s, Back[pc[s]], v)
    PROVE  Spares(s, pc[s], view[s])'
<1>1. Back[pc[s]] \in Places \ Rejecting
  BY BackOutside DEF Places, Previewing, Rejecting
<1> QED
  BY <1>1, EndSpares

\* The lock keeps the others from the dictionaries; another program tells.
LEMMA OtherSpares ==
    ASSUME LockInv, NEW r \in Sessions, Spares(r, pc[r], view[r]), late[r] \subseteq late'[r],
           pc'[r] = pc[r], view'[r] = view[r], pc[r] = "extra_write" => dict' = dict
    PROVE  Spares(r, pc[r], view[r])'
BY DEF Spares

LEMMA OwnSpares ==
    ASSUME TypeInv, LockInv, NEW s \in Sessions, Spares(s, pc[s], view[s]),
           Preview(s) \/ Acquire(s) \/ Refuse(s) \/ Act(s) \/ Probe(s) \/ Die(s)
    PROVE  Spares(s, pc[s], view[s])'
<1> USE DEF Places, Locked, Previewing, Ready, Rejecting, LockInv
<1>v. view[s] \in Views /\ view[s].out \in SUBSET Word
  BY DEF TypeInv, TypeOK, Views
<1>1. CASE RejectWords(s)
  <2>1. PICK S \in SUBSET Remaining(view[s]) : Go(s, "extra_ready", [view[s] EXCEPT !.out = S])
    BY <1>1 DEF RejectWords
  <2> DEFINE v == [view[s] EXCEPT !.out = S]
  <2>2. v.out = S /\ v.kept = view[s].kept
    BY <1>v DEF Views
  <2>3. Keys(v.out) \cap v.kept = {}
    BY <2>2 DEF Remaining, Keys
  <2> HIDE DEF v
  <2>4. WillSpare(s, "extra_ready", v)
    BY <2>3 DEF Spares, WillSpare
  <2> QED
    BY <2>1, <2>4, GoSpares DEF v
<1>2. CASE Preview(s) /\ ~RejectWords(s)
  <2>1. \E p \in ({"idle"} \cup Previewing \cup Ready) \ {"extra_ready"} : \E v : Go(s, p, v)
    BY <1>2 DEF Preview, BeginPull, PullSources, PullFile, PullHash, BeginPush, PlanPush, PlanRewrite,
         PushHash, BeginExtra, ExtraSources, Rescan, KeepWords, SkipKeeping, BeginAdd, BeginLint,
         InspectRecovery, Decline
  <2> QED
    BY <2>1, EndSpares
<1>3. CASE Acquire(s)
  <2> DEFINE v == [view[s] EXCEPT !.todo = Needed(view[s])]
  <2>1. v.out = view[s].out /\ v.kept = view[s].kept
    BY <1>v DEF Views
  <2>2. Go(s, Locks[pc[s]], v) /\ pc[s] \in Ready
    BY <1>3 DEF Acquire
  <2> HIDE DEF v
  <2>3. Locks[pc[s]] \in Places /\ Locks[pc[s]] # "extra_write"
    BY <2>2 DEF Locks
  <2>4. Locks[pc[s]] \in Rejecting => pc[s] = "extra_ready"
    BY <2>2 DEF Locks
  <2>5. WillSpare(s, Locks[pc[s]], v)
    BY <2>1, <2>3, <2>4 DEF Spares, WillSpare
  <2> QED
    BY <2>2, <2>3, <2>5, GoSpares
<1>4. CASE Refuse(s)
  BY <1>4, StopSpares DEF Refuse
<1>5. CASE Probe(s) \/ Die(s)
  BY <1>5, EndSpares DEF Probe, Die, Done
<1>6. CASE Stop(s) /\ Act(s)
  <2>1. pc[s] \in Locked
    BY <1>6 DEF Act, PullCheck, PullWrite, AddRead, AddWrite, LintRead, LintWrite, KeepRead, KeepWrite,
         ExtraCheck, ExtraRead, ExtraWrite, PushCommit, RecoverCheck, Recover, EndProbe
  <2> QED
    BY <1>6, <2>1, StopSpares DEF Stop
<1>7. CASE ExtraCheck(s) /\ ~Stop(s)
  BY <1>7, GoSpares DEF ExtraCheck, Spares, WillSpare
<1>8. CASE ExtraRead(s) /\ ~Stop(s)
  <2> DEFINE v == [view[s] EXCEPT !.words = WordsOf(dict[Least(view[s].todo)])]
  <2>1. /\ v.words = WordsOf(dict[Least(v.todo)]) /\ v.out = view[s].out /\ v.kept = view[s].kept
    BY <1>v DEF Views
  <2>2. Go(s, "extra_write", v) /\ dict' = dict /\ pc[s] = "extra_read"
    BY <1>8 DEF ExtraRead
  <2> HIDE DEF v
  <2>3. WillSpare(s, "extra_write", v)
    BY <2>1, <2>2 DEF Spares, WillSpare
  <2> QED
    BY <2>2, <2>3, GoSpares
<1>9. CASE ExtraWrite(s) /\ ~Stop(s)
  <2> DEFINE v == [view[s] EXCEPT !.todo = @ \ {Least(view[s].todo)}]
  <2>1. v.out = view[s].out /\ v.kept = view[s].kept
    BY <1>v DEF Views
  <2>2. Go(s, "extra_check", v) /\ pc[s] = "extra_write"
    BY <1>9 DEF ExtraWrite
  <2> HIDE DEF v
  <2>3. WillSpare(s, "extra_check", v)
    BY <2>1, <2>2 DEF Spares, WillSpare
  <2> QED
    BY <2>2, <2>3, GoSpares
<1>10. CASE Act(s) /\ ~ExtraCheck(s) /\ ~ExtraRead(s) /\ ~ExtraWrite(s) /\ ~Stop(s)
  <2>1. \E p \in Places \ Rejecting : \E v : Go(s, p, v)
    BY <1>10 DEF Act, PullCheck, PullWrite, AddRead, AddWrite, LintRead, LintWrite, WriteFixed, KeepRead,
         KeepWrite, PushCommit, PushDryRun, PushDone, PushAborted, PushUnfinished, RecoverCheck,
         Recover, EndProbe, Write, Done
  <2> QED
    BY <2>1, EndSpares
<1> QED
  BY <1>1, <1>2, <1>3, <1>4, <1>5, <1>6, <1>7, <1>8, <1>9, <1>10

LEMMA SparedHolds == Spec => []Spared
<1>1. Init => Spared
  <2>1. Init => \A s \in Sessions : pc[s] = "idle"
    BY DEF Init
  <2> QED
    BY <2>1 DEF Spared, Spares, Rejecting
<1>2. TypeInv /\ LockInv /\ Spared /\ [Next]_vars => Spared'
  <2> SUFFICES ASSUME TypeInv, LockInv, Spared, [Next]_vars, NEW r \in Sessions
               PROVE  Spares(r, pc[r], view[r])'
    BY DEF Spared
  <2>0. Spares(r, pc[r], view[r]) /\ Placed
    BY DEF Spared, LockInv
  <2>1. ASSUME NEW s \in Sessions, Preview(s) \/ Acquire(s) \/ Refuse(s) \/ Act(s) \/ Probe(s) \/ Die(s)
        PROVE  Spares(r, pc[r], view[r])'
    <3>1. CASE r = s
      BY <2>0, <2>1, <3>1, OwnSpares
    <3>2. CASE r # s
      <4>1. Told(r)
        BY <2>1, <3>2, PreviewTells, ActTells
      <4>2. Alone(s)
        BY <2>0, <2>1, PreviewsOutside, RefuseOutside, AcquireEnters, ProbeEnters, ActsInside,
           DoneLeaves DEF Die, files
      <4>3. pc[r] = "extra_write" => ~Act(s)
        BY <3>2 DEF LockInv, Held, Locked, Act, PullCheck, PullWrite, AddRead, AddWrite, LintRead,
           LintWrite, KeepRead, KeepWrite, ExtraCheck, ExtraRead, ExtraWrite, PushCommit,
           RecoverCheck, Recover, EndProbe
      <4>4. pc[r] = "extra_write" => dict' = dict
        BY <2>1, <4>3
        DEF Preview, BeginPull, PullSources, PullFile, PullHash, BeginPush, PlanPush, PlanRewrite,
            PushHash, BeginExtra, ExtraSources, Rescan, KeepWords, SkipKeeping, RejectWords, BeginAdd,
            BeginLint, InspectRecovery, Decline, Acquire, Refuse, Probe, Die, Begins, Looks, files
      <4> QED
        BY <2>0, <3>2, <4>1, <4>2, <4>4, OtherSpares DEF Alone, Told
    <3> QED
      BY <3>1, <3>2
  <2>2. CASE EditList \/ EditConfig
    <3>1. late[r] \subseteq late'[r] /\ dict' = dict
      BY <2>2, MissTells DEF EditList, EditConfig, Told
    <3> QED
      BY <2>0, <2>2, <3>1, OtherSpares DEF EditList, EditConfig, Edits
  <2>3. CASE EditDict
    <3>1. PICK d \in Dicts : \E c \in EditDicts : dict' = [dict EXCEPT ![d] = c] /\ MissDict(d, c)
      BY <2>3 DEF EditDict
    <3>2. PICK c \in EditDicts : dict' = [dict EXCEPT ![d] = c] /\ MissDict(d, c)
      BY <3>1
    <3>3. c \in Content /\ list' = list /\ pc' = pc /\ view' = view
      BY <2>3, CommandAssumption DEF EditDict, Edits
    <3>4. Told(r)
      BY <3>2, <3>3, MissTells
    <3>5. CASE pc[r] = "extra_write" /\ d = Least(view[r].todo)
      <4>1. /\ late'[r] = late[r] \cup (WordsOf(c) \ WordsOf(dict[d]))
            /\ dict'[d] = c
        BY <3>2, <3>5 DEF MissDict, TypeInv, TypeOK
      <4>2. WordsOf(dict'[d]) \ late'[r] \subseteq WordsOf(dict[d]) \ late[r]
        BY <4>1
      <4> QED
        BY <2>0, <3>3, <3>5, <4>2 DEF Spares
    <3>6. CASE ~(pc[r] = "extra_write" /\ d = Least(view[r].todo))
      <4>1. pc[r] = "extra_write" => dict'[Least(view[r].todo)] = dict[Least(view[r].todo)]
        <5>1. pc[r] = "extra_write" => Least(view[r].todo) \in Dicts
          BY LeastMember DEF TypeInv, TypeOK, Chosen, Removing, Views
        <5> QED
          BY <3>2, <3>6, <5>1 DEF TypeInv, TypeOK
      <4> QED
        BY <2>0, <3>3, <3>4, <4>1 DEF Spares, Told
    <3> QED
      BY <3>5, <3>6
  <2>4. CASE UNCHANGED vars
    BY <2>0, <2>4 DEF vars, files, session, Spares
  <2> QED
    BY <2>1, <2>2, <2>3, <2>4 DEF Next
<1> QED
  BY <1>1, <1>2, TypeInvHolds, LockInvHolds, PTL DEF Spec

\* Removing extra words takes away rejected words only, none that was kept, and
\* nothing another program put in before the last look at the dictionary.
THEOREM RestKept == Spec => ExtraKeepsTheRest
<1> DEFINE Rest(s) == Ends(s, "extra_write") =>
              \A d \in Dicts : \A w \in WordsOf(dict[d]) \ WordsOf(dict'[d]) :
                 casefold[w] \in Keys(view[s].out) \ view[s].kept \/ w \in late[s]
<1>1. ASSUME TypeInv, Spared, NEW s \in Sessions, ExtraWrite(s) PROVE Rest(s)
  <2> SUFFICES ASSUME NEW d \in Dicts, NEW w \in WordsOf(dict[d]) \ WordsOf(dict'[d])
               PROVE  casefold[w] \in Keys(view[s].out) \ view[s].kept \/ w \in late[s]
    OBVIOUS
  <2> DEFINE v    == view[s]
             left == Subtract(v.words, v.out)
  <2>v. /\ v.words \in SUBSET Word /\ v.out \in SUBSET Word
        /\ Spares(s, pc[s], v)
    BY <1>1 DEF TypeInv, TypeOK, Views, Spared
  <2>1. dict' = [dict EXCEPT ![Least(v.todo)] = left] /\ pc[s] = "extra_write"
    BY <1>1 DEF ExtraWrite, Stop
  <2>2. d = Least(v.todo) /\ dict'[d] = left
    BY <2>1 DEF TypeInv, TypeOK
  <2>3. left \subseteq Word
    BY <2>v, WordOperators
  <2>4. WordsOf(left) = left
    BY <2>3, WordAssumption DEF WordsOf, Missing, Garbled
  <2>5. left = {x \in v.words : casefold[x] \notin Keys(v.out)}
    BY DEF Subtract, Unknown
  <2>6. w \in WordsOf(dict[Least(v.todo)]) /\ w \notin left
    BY <2>2, <2>4
  <2>7. w \in late[s] \/ casefold[w] \in Keys(v.out)
    BY <2>v, <2>1, <2>5, <2>6 DEF Spares
  <2>8. Keys(v.out) \cap v.kept = {}
    BY <2>v, <2>1 DEF Spares, Rejecting
  <2> QED
    BY <2>7, <2>8
<1>2. TypeInv /\ LockInv /\ Spared /\ [Next]_vars => \A s \in Sessions : Rest(s)
  <2> SUFFICES ASSUME TypeInv, LockInv, Spared, [Next]_vars, NEW s \in Sessions,
                      Ends(s, "extra_write"), dict' # dict
               PROVE  Rest(s)
    OBVIOUS
  <2>1. PICK r \in Sessions : Preview(r) \/ Acquire(r) \/ Refuse(r) \/ Act(r) \/ Probe(r) \/ Die(r)
    BY DEF Ends, Next, vars, files, session, EditList, EditDict, EditConfig, Edits
  <2>2. r = s
    BY <2>1, PreviewsOutside, RefuseOutside, AcquireEnters, ProbeEnters, ActsInside, DoneLeaves
    DEF LockInv, Alone, Ends, Die, files
  <2>3. Act(s)
    BY <2>1, <2>2
    DEF Preview, BeginPull, PullSources, PullFile, PullHash, BeginPush, PlanPush, PlanRewrite,
        PushHash, BeginExtra, ExtraSources, Rescan, KeepWords, SkipKeeping, RejectWords, BeginAdd,
        BeginLint, InspectRecovery, Decline, Acquire, Refuse, Probe, Die, Begins, Looks, files
  <2>4. ExtraWrite(s)
    BY <2>3 DEF Ends, Act, PullCheck, PullWrite, AddRead, AddWrite, LintRead, LintWrite, KeepRead,
                KeepWrite, ExtraCheck, ExtraRead, PushCommit, RecoverCheck, Recover, EndProbe
  <2> QED
    BY <1>1, <2>4
<1> HIDE DEF Rest
<1>3. (\A s \in Sessions : Rest(s)) =>
        \A s \in Sessions : Ends(s, "extra_write") =>
          \A d \in Dicts : \A w \in WordsOf(dict[d]) \ WordsOf(dict'[d]) :
             casefold[w] \in Keys(view[s].out) \ view[s].kept \/ w \in late[s]
  BY DEF Rest
<1> QED
  BY SparedHolds, TypeInvHolds, LockInvHolds, <1>2, <1>3, PTL DEF Spec, ExtraKeepsTheRest

-----------------------------------------------------------------------------
(* The merge of a collect.                                                  *)

\* The words of the list and of the dictionaries in D.
AllOf(words, source, D) == words \cup UNION {source[d] : d \in D}

\* w is new, and d is the first dictionary of D that holds it in a spelling.
Brings(w, words, source, D) ==
    /\ casefold[w] \notin Keys(words)
    /\ \E d \in D : w \in source[d] /\ \A e \in D : e < d => casefold[w] \notin Keys(source[e])

\* T is a merge of the words with the dictionaries in D.
Merges(T, words, source, D) ==
    /\ T \subseteq AllOf(words, source, D) /\ OnePerKey(T)
    /\ Keys(T) = Keys(AllOf(words, source, D))
    /\ \A w \in T : w \in words \/ Brings(w, words, source, D)

\* T is what dictionary k may add to the merge have of those in D.
Grown(T, have, words, source, D, k) ==
    /\ Merges(have, words, source, D)
    /\ T \ have \in Added(have, source[k]) /\ have \subseteq T

\* One dictionary more: what is in the merge already is a merge of the others, and
\* the rest is what this one adds to it.
LEMMA MergeSplits ==
    ASSUME NEW words, NEW source, NEW D \in SUBSET Dicts, NEW k \in Dicts, \A d \in D : d < k,
           NEW T, Merges(T, words, source, D \cup {k})
    PROVE  \E have : Grown(T, have, words, source, D, k)
<1> DEFINE all  == AllOf(words, source, D)
           more == AllOf(words, source, D \cup {k})
           have == {w \in T : casefold[w] \in Keys(all)}
           new  == T \ have
<1>1. more = all \cup source[k]  BY DEF AllOf
<1>2. /\ T \subseteq more /\ OnePerKey(T) /\ Keys(T) = Keys(more)
      /\ \A w \in T : w \in words \/ Brings(w, words, source, D \cup {k})
  BY DEF Merges
<1>3. \A d \in D : source[d] \subseteq all /\ Keys(source[d]) \subseteq Keys(all)
  BY DEF AllOf, Keys
<1>4. words \subseteq all /\ Keys(words) \subseteq Keys(all)
  BY DEF AllOf, Keys
<1>5. ASSUME NEW w \in have  PROVE w \in words \/ Brings(w, words, source, D)
  <2>1. CASE w \in words  BY <2>1
  <2>2. CASE w \notin words
    <3>1. Brings(w, words, source, D \cup {k})  BY <1>2, <1>5, <2>2
    <3>2. PICK d \in D \cup {k} :
              w \in source[d] /\ \A e \in D \cup {k} : e < d => casefold[w] \notin Keys(source[e])
      BY <3>1 DEF Brings
    <3>3. casefold[w] \notin Keys(words)  BY <3>1 DEF Brings
    <3>4. d # k
      <4>1. SUFFICES ASSUME d = k PROVE FALSE  OBVIOUS
      <4>2. \A e \in D : casefold[w] \notin Keys(source[e])  BY <3>2, <4>1
      <4>3. casefold[w] \notin Keys(all)  BY <3>3, <4>2 DEF AllOf, Keys
      <4> QED  BY <4>3, <1>5
    <3> QED  BY <3>2, <3>3, <3>4 DEF Brings
  <2> QED  BY <2>1, <2>2
<1>6. have \subseteq all
  BY <1>3, <1>4, <1>5 DEF Brings
<1>7. Keys(have) = Keys(all)
  <2>1. \A w \in all : \E v \in T : casefold[v] = casefold[w]  BY <1>1, <1>2 DEF Keys
  <2>2. \A w \in all : casefold[w] \in Keys(all)  BY DEF Keys
  <2>3. \A w \in all : \E v \in have : casefold[v] = casefold[w]
    <3> HIDE DEF all
    <3> QED  BY <2>1, <2>2
  <2>4. \A v \in have : \E w \in all : casefold[v] = casefold[w]  BY DEF Keys
  <2> HIDE DEF have, all
  <2> QED  BY <2>3, <2>4 DEF Keys
<1>8. OnePerKey(have) /\ OnePerKey(new)  BY <1>2 DEF OnePerKey
<1>9. Merges(have, words, source, D)
  <2> HIDE DEF have
  <2> QED  BY <1>5, <1>6, <1>7, <1>8 DEF Merges
<1>10. new \subseteq Unknown(have, source[k])
  <2>1. ASSUME NEW w \in new  PROVE casefold[w] \notin Keys(all) /\ w \in source[k]
    <3>1. casefold[w] \notin Keys(all) /\ w \in more  BY <1>2, <2>1
    <3>2. w \notin all  BY <3>1 DEF Keys
    <3> QED  BY <3>1, <3>2, <1>1
  <2> QED  BY <2>1, <1>7 DEF Unknown
<1>11. \A u \in Unknown(have, source[k]) : \E w \in new : casefold[w] = casefold[u]
  <2>1. \A u \in Unknown(have, source[k]) : u \in more /\ casefold[u] \notin Keys(have)
    BY <1>1 DEF Unknown
  <2>2. \A u \in more : \E w \in T : casefold[w] = casefold[u]  BY <1>2 DEF Keys
  <2>3. \A w \in T : w \in have => casefold[w] \in Keys(have)  BY DEF Keys
  <2> HIDE DEF have
  <2> QED  BY <2>1, <2>2, <2>3
<1>12. new \in Added(have, source[k])
  <2> HIDE DEF new, have
  <2>1. Keys(new) = Keys(Unknown(have, source[k]))  BY <1>10, <1>11 DEF Keys
  <2> QED  BY <2>1, <1>8, <1>10 DEF Added, Dedups
<1> QED  BY <1>9, <1>12 DEF Grown

\* And the other way round: what the dictionary adds to a merge of the others makes a
\* merge with it.
LEMMA MergeGrows ==
    ASSUME NEW words, NEW source, NEW D \in SUBSET Dicts, NEW k \in Dicts, \A d \in D : d < k,
           NEW have, Merges(have, words, source, D), NEW new \in Added(have, source[k])
    PROVE  Merges(have \cup new, words, source, D \cup {k})
<1> DEFINE all  == AllOf(words, source, D)
           more == AllOf(words, source, D \cup {k})
<1>1. more = all \cup source[k]  BY DEF AllOf
<1>2. /\ have \subseteq all /\ OnePerKey(have) /\ Keys(have) = Keys(all)
      /\ \A w \in have : w \in words \/ Brings(w, words, source, D)
  BY DEF Merges
<1>3. /\ new \subseteq source[k] /\ OnePerKey(new)
      /\ \A w \in new : casefold[w] \notin Keys(all)
      /\ Keys(new) = Keys(Unknown(have, source[k]))
  BY <1>2 DEF Added, Dedups, Unknown
<1>4. OnePerKey(have \cup new)
  <2>1. \A v \in have, w \in new : casefold[v] # casefold[w]
    <3>1. \A v \in have : casefold[v] \in Keys(all)  BY <1>2 DEF Keys
    <3> HIDE DEF all
    <3> QED  BY <1>3, <3>1
  <2> QED  BY <1>2, <1>3, <2>1 DEF OnePerKey
<1>5. Keys(have \cup new) = Keys(more)
  <2>1. Keys(have \cup new) = Keys(have) \cup Keys(new) /\ Keys(more) = Keys(all) \cup Keys(source[k])
    BY <1>1 DEF Keys
  <2>2. Keys(source[k]) \subseteq Keys(have) \cup Keys(new)  BY <1>3 DEF Keys, Unknown
  <2>3. Keys(new) \subseteq Keys(source[k])  BY <1>3 DEF Keys
  <2> QED  BY <1>2, <2>1, <2>2, <2>3
<1>6. ASSUME NEW w \in have, Brings(w, words, source, D)
      PROVE  Brings(w, words, source, D \cup {k})
  <2>1. PICK d \in D : w \in source[d] /\ \A e \in D : e < d => casefold[w] \notin Keys(source[e])
    BY <1>6 DEF Brings
  <2>2. d < k /\ ~(k < d)  BY DEF Dicts
  <2> QED  BY <1>6, <2>1, <2>2 DEF Brings
<1>7. ASSUME NEW w \in new  PROVE Brings(w, words, source, D \cup {k})
  <2>1. casefold[w] \notin Keys(all) /\ w \in source[k]  BY <1>3, <1>7
  <2>2. Keys(words) \subseteq Keys(all) /\ \A d \in D : Keys(source[d]) \subseteq Keys(all)
    BY DEF AllOf, Keys
  <2>3. ~(k < k)  BY DEF Dicts
  <2> HIDE DEF all
  <2> QED  BY <2>1, <2>2, <2>3 DEF Brings
<1>8. have \cup new \subseteq more  BY <1>1, <1>2, <1>3
<1>9. \A w \in have \cup new : w \in words \/ Brings(w, words, source, D \cup {k})
  BY <1>2, <1>6, <1>7
<1> QED  BY <1>4, <1>5, <1>8, <1>9 DEF Merges

\* The merges so far are f[n] after n dictionaries.
Loops(f, words, source) ==
    f = [d \in 0 .. NDicts |->
            IF d = 0 THEN Dedups(words)
            ELSE IF d \notin DOMAIN source THEN f[d - 1]
            ELSE UNION {{have \cup new : new \in Added(have, source[d])} : have \in f[d - 1]}]

\* The dictionaries the loop has seen.
SoFar(source, n) == {d \in DOMAIN source : d <= n}

AllMerges(words, source, n) ==
    {T \in SUBSET AllOf(words, source, SoFar(source, n)) : Merges(T, words, source, SoFar(source, n))}

\* What the loop makes of the merges of n dictionaries are those of n + 1.
LEMMA OneMoreDictionary ==
    ASSUME NEW words, NEW source, DOMAIN source \subseteq Dicts, NEW n \in Nat, n + 1 \in DOMAIN source
    PROVE  AllMerges(words, source, n + 1) =
               UNION {{have \cup new : new \in Added(have, source[n + 1])}
                        : have \in AllMerges(words, source, n)}
<1> DEFINE D == SoFar(source, n)
           k == n + 1
<1>1. D \in SUBSET Dicts /\ k \in Dicts /\ (\A d \in D : d < k) /\ SoFar(source, k) = D \cup {k}
  BY DEF SoFar, Dicts
<1> HIDE DEF D, k
<1>2. ASSUME NEW T \in AllMerges(words, source, k)
      PROVE  \E have \in AllMerges(words, source, n) :
                \E new \in Added(have, source[k]) : T = have \cup new
  <2>1. Merges(T, words, source, D \cup {k})  BY <1>1, <1>2 DEF AllMerges
  <2>2. \E have : Grown(T, have, words, source, D, k)
    <3>1. D \in SUBSET Dicts /\ k \in Dicts  BY <1>1
    <3>2. \A d \in D : d < k  BY <1>1
    <3> QED  BY ONLY <3>1, <3>2, <2>1, MergeSplits
  <2>p. PICK have : Grown(T, have, words, source, D, k)  BY <2>2
  <2>3. have \in AllMerges(words, source, n)  BY <2>p DEF AllMerges, D, Merges, Grown
  <2> QED  BY <2>p, <2>3 DEF Grown
<1>3. ASSUME NEW have \in AllMerges(words, source, n), NEW new \in Added(have, source[k])
      PROVE  have \cup new \in AllMerges(words, source, k)
  <2>1. Merges(have, words, source, D)  BY <1>3 DEF AllMerges, D
  <2>2. Merges(have \cup new, words, source, D \cup {k})  BY <1>1, <2>1, MergeGrows
  <2> QED  BY <1>1, <2>2 DEF AllMerges, Merges
<1>4. AllMerges(words, source, k) =
          UNION {{have \cup new : new \in Added(have, source[k])} : have \in AllMerges(words, source, n)}
  BY <1>2, <1>3
<1> QED  BY <1>4 DEF k

\* Before the first dictionary there is only the list without its duplicates.
LEMMA NoDictionary ==
    ASSUME NEW words, NEW source, DOMAIN source \subseteq Dicts
    PROVE  AllMerges(words, source, 0) = Dedups(words)
<1>1. SoFar(source, 0) = {}  BY DEF SoFar, Dicts
<1>2. AllOf(words, source, {}) = words  BY DEF AllOf
<1> QED  BY <1>1, <1>2 DEF AllMerges, Merges, Dedups

\* After the last one there are the merges the preview allows for.
LEMMA EveryDictionary ==
    ASSUME NEW words, NEW source, DOMAIN source \subseteq Dicts
    PROVE  AllMerges(words, source, NDicts) = Collected(words, source)
<1>1. SoFar(source, NDicts) = DOMAIN source
  <2>1. \A d \in Dicts : d <= NDicts  BY WordAssumption DEF Dicts
  <2> QED  BY <2>1 DEF SoFar
<1> DEFINE D == DOMAIN source
           all == AllOf(words, source, D)
<1>2. Collected(words, source) =
          {T \in Dedups(all) : \A w \in T :
              w \in words \/ ((\E d \in D : w \in source[d]
                                 /\ \A e \in D : e < d => casefold[w] \notin Keys(source[e]))
                              /\ casefold[w] \notin Keys(words))}
  BY DEF Collected, AllOf
<1>3. AllMerges(words, source, NDicts) = {T \in SUBSET all : Merges(T, words, source, D)}
  BY <1>1 DEF AllMerges
<1> HIDE DEF D
<1> QED  BY <1>2, <1>3 DEF Merges, Dedups, Brings

\* Induction up to a bound, for a set.
LEMMA InductionUpTo ==
    ASSUME NEW m \in Nat, NEW S, 0 \in S, \A n \in 0 .. m - 1 : n \in S => n + 1 \in S
    PROVE  0 .. m \subseteq S
<1> DEFINE R == {n \in Nat : n > m \/ n \in S}
<1>1. 0 \in R  OBVIOUS
<1>2. \A n \in Nat : n \in R => n + 1 \in R  OBVIOUS
<1>3. Nat \subseteq R
  <2> HIDE DEF R
  <2> SUFFICES ASSUME Nat \ R # {} PROVE FALSE  OBVIOUS
  <2>1. \E x \in Nat \ R : \A y \in Nat \ R : ~ (<<y, x>> \in OpToRel(<, Nat))
    BY NatLessThanWellFounded, WFMin
  <2>2. PICK x \in Nat \ R : \A y \in Nat \ R : ~ (y < x)
    BY <2>1 DEF OpToRel
  <2>3. x # 0 /\ x - 1 \in Nat  BY <1>1
  <2>4. x - 1 \in R  BY <2>2, <2>3
  <2> QED  BY <1>2, <2>3, <2>4
<1> QED  BY <1>3

\* The loop has a result for every list and all dictionaries, and it is the merges.
LEMMA LoopResult ==
    ASSUME NEW words, NEW source, DOMAIN source \subseteq Dicts
    PROVE  Stepwise(words, source) = AllMerges(words, source, NDicts)
<1> DEFINE g == [d \in 0 .. NDicts |-> AllMerges(words, source, d)]
<1>n. NDicts \in Nat  BY WordAssumption
<1>1. ASSUME NEW d \in 1 .. NDicts, d \notin DOMAIN source
      PROVE  AllMerges(words, source, d) = AllMerges(words, source, d - 1)
  <2>1. SoFar(source, d) = SoFar(source, d - 1)
    BY <1>1 DEF SoFar, Dicts
  <2> QED  BY <2>1 DEF AllMerges
<1>2. ASSUME NEW d \in 1 .. NDicts, d \in DOMAIN source
      PROVE  AllMerges(words, source, d) =
               UNION {{have \cup new : new \in Added(have, source[d])}
                        : have \in AllMerges(words, source, d - 1)}
  <2>1. PICK n \in Nat : d = n + 1 /\ n = d - 1  BY <1>n
  <2> QED  BY <1>2, <2>1, OneMoreDictionary
<1>3. Loops(g, words, source)
  <2>1. \A d \in 0 .. NDicts : AllMerges(words, source, d) =
            IF d = 0 THEN Dedups(words)
            ELSE IF d \notin DOMAIN source THEN AllMerges(words, source, d - 1)
            ELSE UNION {{have \cup new : new \in Added(have, source[d])}
                          : have \in AllMerges(words, source, d - 1)}
    <3>1. \A d \in 0 .. NDicts : d = 0 \/ d \in 1 .. NDicts  BY <1>n
    <3> QED  BY <1>1, <1>2, <3>1, NoDictionary
  <2>2. \A d \in 0 .. NDicts : g[d] = AllMerges(words, source, d)
                               /\ (d # 0 => g[d - 1] = AllMerges(words, source, d - 1))
    BY <1>n
  <2>3. g = [d \in 0 .. NDicts |-> g[d]]  OBVIOUS
  <2> HIDE DEF g
  <2>4. \A d \in 0 .. NDicts : g[d] =
            IF d = 0 THEN Dedups(words)
            ELSE IF d \notin DOMAIN source THEN g[d - 1]
            ELSE UNION {{have \cup new : new \in Added(have, source[d])} : have \in g[d - 1]}
    BY <2>1, <2>2
  <2> QED  BY <2>3, <2>4 DEF Loops
<1> DEFINE f == CHOOSE h : Loops(h, words, source)
<1>4. Loops(f, words, source)  BY <1>3
<1>5. Stepwise(words, source) = f[NDicts]  BY DEF Stepwise, Loops
<1> HIDE DEF f
<1> DEFINE S == {n \in 0 .. NDicts : f[n] = AllMerges(words, source, n)}
<1>6. \A d \in 0 .. NDicts : f[d] =
          IF d = 0 THEN Dedups(words)
          ELSE IF d \notin DOMAIN source THEN f[d - 1]
          ELSE UNION {{have \cup new : new \in Added(have, source[d])} : have \in f[d - 1]}
  BY <1>4 DEF Loops
<1>7. 0 \in S
  <2>1. 0 \in 0 .. NDicts  BY <1>n
  <2>2. f[0] = Dedups(words)  BY <1>6, <2>1, Zenon
  <2>3. f[0] = AllMerges(words, source, 0)  BY <2>2, NoDictionary
  <2> QED  BY <2>1, <2>3
<1>8. ASSUME NEW n \in 0 .. NDicts - 1, n \in S  PROVE n + 1 \in S
  <2>1. PICK d \in 1 .. NDicts : d = n + 1 /\ n = d - 1  BY <1>n
  <2>2. d \in 0 .. NDicts /\ d # 0 /\ f[d - 1] = AllMerges(words, source, d - 1)  BY <1>n, <1>8, <2>1
  <2>3. f[d] = AllMerges(words, source, d)
    BY <1>1, <1>2, <1>6, <2>2
  <2> QED  BY <2>1, <2>2, <2>3
<1>9. 0 .. NDicts \subseteq S
  <2> HIDE DEF S
  <2> QED  BY <1>n, <1>7, <1>8, InductionUpTo
<1>10. f[NDicts] = AllMerges(words, source, NDicts)  BY <1>n, <1>9
<1> QED  BY <1>5, <1>10

\* The merge of a collect is what its loop over the dictionaries makes, for every
\* list and every number of dictionaries: no spelling is allowed for that the loop
\* could not choose, and none it could choose is missed.
THEOREM CollectIsStepwiseHolds == Spec => []CollectIsStepwise
<1>1. TypeOK => CollectIsStepwise
  <2> SUFFICES ASSUME TypeOK, NEW s \in Sessions, pc[s] = "pull_sources"
               PROVE  LET v == view[s]
                          source == [d \in UsedBy(v) |-> WordsOf(dict[d])]
                      IN  Collected(v.words, source) = Stepwise(v.words, source)
    BY DEF CollectIsStepwise
  <2> DEFINE v == view[s]
             source == [d \in UsedBy(v) |-> WordsOf(dict[d])]
  <2>1. v.settings \in Config  BY DEF TypeOK, Views
  <2>2. enabled[v.settings] \in SUBSET Dicts  BY <2>1, CommandAssumption
  <2>3. UsedBy(v) \subseteq Dicts  BY <2>2 DEF UsedBy, Sources
  <2>4. DOMAIN source \subseteq Dicts  BY <2>3
  <2> HIDE DEF v, source
  <2>5. Collected(v.words, source) = Stepwise(v.words, source)
    BY <2>4, LoopResult, EveryDictionary
  <2> QED  BY <2>5 DEF v, source
<1> QED
  BY TypeOKHolds, <1>1, PTL
=============================================================================

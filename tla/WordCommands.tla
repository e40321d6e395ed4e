----------------------------- MODULE WordCommands -----------------------------
(***************************************************************************)
(* The commands that change the word list and the dictionaries - collect,  *)
(* update, add, lint --fix, removing extra words - run by several sessions *)
(* (a terminal interface and command lines) beside other programs.  What a *)
(* command reads before it takes the project lock, what it checks under it *)
(* and what it writes are steps of their own, so that other sessions and   *)
(* programs come in between.                                               *)
(*                                                                         *)
(* The write phase of an update is one step here, all or nothing or left   *)
(* to recovery with its journal: PushTransaction shows that it is.         *)
(***************************************************************************)
EXTENDS WordList, FiniteSets

CONSTANTS
    Sessions, Free,      \* processes; nobody has the lock
    Screens,             \* the processes that are terminal interfaces
    Config, BadConfig,   \* contents of spell-sync.toml; those that block changes
    enabled,             \* the dictionaries a configuration enables
    NoJournal,
    GuardListMax, GuardLocalMin,      \* [push] guard_wordlist_max, guard_local_min
    InitialLists, InitialDicts, EditLists, EditDicts, Typed,
    MaxEdits, MaxCommands             \* bounds of a behaviour

ASSUME CommandAssumption ==
    /\ Free \notin Sessions /\ Screens \subseteq Sessions /\ BadConfig \subseteq Config /\ BadConfig # Config
    /\ enabled \in [Config -> SUBSET Dicts]
    /\ InitialLists \cup EditLists \cup EditDicts \subseteq Content
    /\ InitialDicts \subseteq [Dicts -> Content]
    /\ Typed \subseteq SUBSET Word
    /\ MaxEdits \in Nat /\ MaxCommands \in Nat
    /\ GuardListMax \in Nat /\ GuardLocalMin \in Nat

VARIABLES
    list, dict, config,  \* the files: wordlist.txt, the dictionaries, spell-sync.toml
    journal,             \* what an unfinished update replaced, and by what
    lock,                \* the session that holds the flock of .spell-sync.lock
    pc, view,            \* where each session is; what it has read and prepared
    late,                \* words that came while a session was not looking (auxiliary)
    edits, commands      \* how much of each bound is spent

files    == <<list, dict, config, journal>>
session  == <<lock, pc, view, late>>
vars     == <<files, session, edits, commands>>

Previewing == {"pull_sources", "pull_hash", "push_plan", "push_rewrite", "push_hash",
               "extra_sources", "extra_keep", "extra_wipe"}
Ready      == {"pull_ready", "push_ready", "extra_ready", "keep_ready", "add_ready",
               "lint_ready", "recover_ready"}
Locked     == {"pull_check", "pull_write", "push_commit", "extra_check", "extra_read",
               "extra_write", "keep_read", "keep_write", "add_read", "add_write",
               "lint_read", "lint_write", "recover_check", "recover_write", "probing"}

\* Between two looks at the list no change of it is noticed.
ListWindows == {"pull_sources", "pull_hash", "pull_write", "push_plan", "push_rewrite",
                "push_hash", "add_write", "keep_write", "lint_write"}

NoView == [words |-> {}, hash |-> Missing, dicts |-> [d \in Dicts |-> Missing],
           used |-> {}, settings |-> CHOOSE c \in Config \ BadConfig : TRUE,
           digest |-> CHOOSE c \in Config \ BadConfig : TRUE,
           out |-> {}, rewrite |-> FALSE, todo |-> {},
           rows |-> {}, kept |-> {}, found |-> NoJournal]

\* What an unfinished update leaves: the contents each file may hold, and what it
\* held before.
Journals == [list : SUBSET Content, dict : [Dicts -> SUBSET Content],
             before : [list : Content, dict : [Dicts -> Content]]]

Views == [words : SUBSET Word, hash : Content, dicts : [Dicts -> Content],
          used : SUBSET Dicts, settings : Config, digest : Config,
          out : SUBSET Word, rewrite : BOOLEAN, todo : SUBSET Dicts,
          rows : SUBSET Word, kept : SUBSET Key, found : Journals \cup {NoJournal}]

Init ==
    /\ list \in InitialLists /\ dict \in InitialDicts
    /\ config \in Config \ BadConfig /\ journal = NoJournal
    /\ lock = Free /\ pc = [s \in Sessions |-> "idle"]
    /\ view = [s \in Sessions |-> NoView] /\ late = [s \in Sessions |-> {}]
    /\ edits = 0 /\ commands = 0

-----------------------------------------------------------------------------
(* Helpers.                                                                 *)

Least(S) == CHOOSE d \in S : \A e \in S : d <= e

\* Move session s on with what it holds now; Done ends its command.
Go(s, phase, v) == pc' = [pc EXCEPT ![s] = phase] /\ view' = [view EXCEPT ![s] = v]
Unlock(s) == lock' = IF lock = s THEN Free ELSE lock
Done(s)   == Go(s, "idle", NoView) /\ Unlock(s)

\* Session s does not notice a change of the list.  An update that found no list
\* to take the hash of does not look at it again.
Blind(s) == \/ pc[s] \in ListWindows
            \/ pc[s] \in {"push_ready", "push_commit"} /\ view[s].hash = Missing

\* Who misses the change of the list to c, of dictionary d to c.
MissList(c) == late' = [s \in Sessions |->
    IF Blind(s) THEN late[s] \cup (WordsOf(c) \ WordsOf(list)) ELSE late[s]]
MissDict(d, c) == late' = [s \in Sessions |->
    IF pc[s] = "extra_write" /\ d = Least(view[s].todo)
    THEN late[s] \cup (WordsOf(c) \ WordsOf(dict[d])) ELSE late[s]]

Begins(s) == /\ pc[s] = "idle" /\ commands < MaxCommands /\ commands' = commands + 1
             /\ late' = [late EXCEPT ![s] = {}]
             /\ UNCHANGED <<files, lock, edits>>
Looks(s)  == UNCHANGED <<files, lock, late, edits, commands>>
Acts(s)   == UNCHANGED <<config, journal, edits, commands>>

Sources(v) == enabled[v.settings]
UsedBy(v)  == {d \in Sources(v) : Readable(dict[d])}
Seen(v)    == [d \in Dicts |-> IF d \in UsedBy(v) THEN dict[d] ELSE Missing]

-----------------------------------------------------------------------------
(* Other programs: an editor, an application, a synced folder.              *)

Edits == edits < MaxEdits /\ edits' = edits + 1 /\ UNCHANGED <<journal, lock, pc, view, commands>>

EditList == Edits /\ \E c \in EditLists \ {list} :
                list' = c /\ MissList(c) /\ UNCHANGED <<dict, config>>
EditDict == Edits /\ \E d \in Dicts : \E c \in EditDicts \ {dict[d]} :
                dict' = [dict EXCEPT ![d] = c] /\ MissDict(d, c) /\ UNCHANGED <<list, config>>
EditConfig == Edits /\ config' \in Config \ {config} /\ UNCHANGED <<list, dict, late>>

-----------------------------------------------------------------------------
(* Previews, made without the lock.                                         *)

\* build_pull_preview: the list, then the dictionaries, then the list's hash.
BeginPull(s) ==
    /\ Begins(s) /\ config \notin BadConfig /\ Readable(list)
    /\ Go(s, "pull_sources", [NoView EXCEPT !.words = WordsOf(list), !.settings = config])

PullSources(s) ==
    /\ pc[s] = "pull_sources" /\ Looks(s)
    /\ LET v == view[s] IN \E merged \in Collected(v.words, [d \in UsedBy(v) |-> WordsOf(dict[d])]) :
         Go(s, "pull_hash", [v EXCEPT !.used = UsedBy(v), !.dicts = Seen(v), !.out = merged])

\* build_pull_add_from_preview: the words of a file the user names.
PullFile(s) ==
    /\ pc[s] = "pull_sources" /\ Looks(s)
    /\ \E file \in Typed : \E merged \in Collected(view[s].words, <<file>>) :
         Go(s, "pull_hash", [view[s] EXCEPT !.out = merged])

PullHash(s) ==
    /\ pc[s] = "pull_hash" /\ Looks(s)
    /\ Go(s, "pull_ready", [view[s] EXCEPT !.hash = list, !.digest = config])

\* prepare_push: the words, the dictionaries, whether the list has to be
\* rewritten, the list's hash.
BeginPush(s) ==
    /\ Begins(s) /\ config \notin BadConfig
    /\ list # Missing /\ Readable(list) /\ list # {}
    /\ Go(s, "push_plan", [NoView EXCEPT !.words = WordsOf(list), !.settings = config])

WouldWipe(words, largest) == /\ Cardinality(words) <= GuardListMax
                             /\ largest > GuardLocalMin /\ Cardinality(words) < largest

Wipes(v) == \E d \in UsedBy(v) : WouldWipe(v.words, Cardinality(WordsOf(dict[d])))

PlanPush(s) ==
    /\ pc[s] = "push_plan" /\ Looks(s)
    /\ LET v == view[s]
       IN  \E strict \in BOOLEAN :
             IF Wipes(v) \/ (strict /\ UsedBy(v) # Sources(v))
             THEN Go(s, "idle", NoView)
             ELSE Go(s, "push_rewrite", [v EXCEPT !.used = UsedBy(v), !.dicts = Seen(v)])

PlanRewrite(s) ==
    /\ pc[s] = "push_rewrite" /\ Looks(s)
    /\ LET v == view[s]
           same == list # Missing /\ Readable(list) /\ WordsOf(list) = v.words
       IN  Go(s, "push_hash", [v EXCEPT !.rewrite = ~same])

PushHash(s) ==
    /\ pc[s] = "push_hash" /\ Looks(s)
    /\ Go(s, "push_ready", [view[s] EXCEPT !.hash = list, !.digest = config])

\* build_extra_word_inventory, of a screen; its hash of the list is never compared.
BeginExtra(s) ==
    /\ s \in Screens /\ Begins(s) /\ Readable(list)
    /\ Go(s, "extra_sources", [NoView EXCEPT !.words = WordsOf(list), !.settings = config])

Extras(v) == UNION {Unknown(v.words, WordsOf(v.dicts[d])) : d \in v.used}

ExtraSources(s) ==
    /\ pc[s] = "extra_sources" /\ Looks(s)
    /\ LET v == [view[s] EXCEPT !.used = UsedBy(view[s]), !.dicts = Seen(view[s]),
                                !.digest = config]
       IN  Go(s, "extra_keep", [v EXCEPT !.rows = Extras(v), !.words = {}])

\* Find: the inventory is made again, in the first phase only.
Rescan(s) ==
    /\ pc[s] = "extra_keep" /\ Readable(list) /\ Looks(s)
    /\ Go(s, "extra_sources", [NoView EXCEPT !.words = WordsOf(list), !.settings = config])

\* First phase: some of the words are to be kept, or none.
KeepWords(s) ==
    /\ pc[s] = "extra_keep" /\ Looks(s)
    /\ \E kept \in (SUBSET view[s].rows) \ {{}} :
          OnePerKey(kept) /\ Go(s, "keep_ready", [view[s] EXCEPT !.out = kept])

SkipKeeping(s) == pc[s] = "extra_keep" /\ Go(s, "extra_wipe", view[s]) /\ Looks(s)

\* Second phase: what was not kept may be rejected.
Remaining(v) == {w \in v.rows : casefold[w] \notin v.kept}

RejectWords(s) ==
    /\ pc[s] = "extra_wipe" /\ Looks(s)
    /\ \E rejected \in (SUBSET Remaining(view[s])) \ {{}} :
          Go(s, "extra_ready", [view[s] EXCEPT !.out = rejected])

BeginAdd(s)  == /\ Begins(s) /\ list # Missing
                /\ \E typed \in Typed : Go(s, "add_ready", [NoView EXCEPT !.out = typed])
BeginLint(s) == s \notin Screens /\ Begins(s) /\ Go(s, "lint_ready", NoView)

\* The user declines, or the process is killed before it has the lock.
Decline(s) == pc[s] \in Ready \cup Previewing /\ Go(s, "idle", NoView) /\ Looks(s)

-----------------------------------------------------------------------------
(* Taking the lock, and what mutation_scope_for looks at under it.          *)

Locks == [pull_ready |-> "pull_check", push_ready |-> "push_commit",
          extra_ready |-> "extra_check", keep_ready |-> "keep_read", add_ready |-> "add_read",
          lint_ready |-> "lint_read", recover_ready |-> "recover_check"]

\* Where a command goes on that was refused or could not do its work: the screen
\* of the extra words stays, the others end.
Back == [p \in Ready \cup Locked |->
            CASE p \in {"keep_ready", "keep_read", "keep_write"} -> "extra_keep"
              [] p \in {"extra_ready", "extra_check", "extra_read", "extra_write"} -> "extra_wipe"
              [] OTHER -> "idle"]
Returned(s) == IF Back[pc[s]] = "idle" THEN NoView
               ELSE [view[s] EXCEPT !.out = {}, !.todo = {}, !.words = {}]

\* Only recovery is let in while an update is unfinished.
ScopeOpen(s) == /\ config \notin BadConfig
                /\ journal # NoJournal => pc[s] = "recover_ready"

\* The dictionaries that hold a rejected word, among those still enabled.
Needed(v) == {d \in v.used \cap enabled[config] :
                Keys(WordsOf(v.dicts[d])) \cap Keys(v.out) # {}}

\* Mutant of SameRuntime: only the configuration's hash is compared.
SameDigest(v) == v.digest = config

SameRuntime(v) == v.settings = config /\ v.digest = config

Confirms(s) == pc[s] \in {"pull_ready", "push_ready", "extra_ready"} => SameRuntime(view[s])

\* Mutant of Acquire: the lock is taken whoever holds it.
AcquireAnyway(s) ==
    /\ pc[s] \in Ready /\ ScopeOpen(s) /\ Confirms(s)
    /\ lock' = s /\ Go(s, Locks[pc[s]], [view[s] EXCEPT !.todo = Needed(view[s])])
    /\ UNCHANGED <<files, late, edits, commands>>

Acquire(s) ==
    /\ pc[s] \in Ready /\ lock = Free /\ ScopeOpen(s) /\ Confirms(s)
    /\ lock' = s /\ Go(s, Locks[pc[s]], [view[s] EXCEPT !.todo = Needed(view[s])])
    /\ UNCHANGED <<files, late, edits, commands>>

\* The flock is taken, by a command or by a probe, or the scope is refused.
Refuse(s) ==
    /\ pc[s] \in Ready /\ ~(lock = Free /\ ScopeOpen(s) /\ Confirms(s))
    /\ Go(s, Back[pc[s]], Returned(s)) /\ Looks(s)

\* read_active_operation_lock takes a free lock to learn that it is free.
Probe(s) == /\ pc[s] = "idle" /\ lock = Free /\ lock' = s
            /\ Go(s, "probing", NoView) /\ UNCHANGED <<files, late, edits, commands>>

\* Mutant of EndProbe: the probe keeps the lock it took.
EndProbeLocked(s) == /\ pc[s] = "probing" /\ Go(s, "idle", NoView)
                     /\ UNCHANGED <<files, lock, late, edits, commands>>

EndProbe(s) == pc[s] = "probing" /\ Done(s) /\ UNCHANGED <<files, late, edits, commands>>

\* The kernel gives the lock of a dead process back.
Die(s) == pc[s] \in Locked /\ Done(s) /\ UNCHANGED <<files, late, edits, commands>>

-----------------------------------------------------------------------------
(* Changing the files, with the lock.                                       *)

Stop(s)     == Go(s, Back[pc[s]], Returned(s)) /\ Unlock(s) /\ UNCHANGED <<list, dict, late>>
Write(s, c) == list' = c /\ MissList(c) /\ Done(s) /\ UNCHANGED dict

\* verify_pull_source_fingerprints
SourcesUnchanged(v) == \A d \in v.used : dict[d] = v.dicts[d]

\* Mutant of PullCheck: only the dictionaries are compared with the preview.
PullCheckSources(s) ==
    /\ pc[s] = "pull_check" /\ Acts(s)
    /\ IF SourcesUnchanged(view[s])
       THEN Go(s, "pull_write", view[s]) /\ UNCHANGED <<list, dict, lock, late>>
       ELSE Stop(s)

\* execute_prepared_pull: the sources and the list still hash as they did.
PullCheck(s) ==
    /\ pc[s] = "pull_check" /\ Acts(s)
    /\ LET v == view[s] IN
         IF Readable(list) /\ list = v.hash /\ SourcesUnchanged(v)
         THEN Go(s, "pull_write", v) /\ UNCHANGED <<list, dict, lock, late>>
         ELSE Stop(s)

PullWrite(s) == /\ pc[s] = "pull_write" /\ Acts(s)
                /\ Write(s, view[s].out) \/ Stop(s)

\* append_words_to_wordlist
AddRead(s) ==
    /\ pc[s] = "add_read" /\ Acts(s)
    /\ IF list # Missing /\ Readable(list)
       THEN /\ Go(s, "add_write", [view[s] EXCEPT !.words = WordsOf(list)])
            /\ late' = [late EXCEPT ![s] = {}] /\ UNCHANGED <<list, dict, lock>>
       ELSE Stop(s)

AddWrite(s) ==
    /\ pc[s] = "add_write" /\ Acts(s)
    /\ \E added \in Added(view[s].words, view[s].out) :
          IF added = {} THEN Stop(s) ELSE Write(s, view[s].words \cup added) \/ Stop(s)

\* The words to keep are added; the accepted ones, new or there already, are not
\* shown again.
KeepRead(s) ==
    /\ pc[s] = "keep_read" /\ Acts(s)
    /\ IF list # Missing /\ Readable(list)
       THEN /\ Go(s, "keep_write", [view[s] EXCEPT !.words = WordsOf(list)])
            /\ late' = [late EXCEPT ![s] = {}] /\ UNCHANGED <<list, dict, lock>>
       ELSE Stop(s)

KeepWrite(s) ==
    /\ pc[s] = "keep_write" /\ Acts(s)
    /\ \/ Stop(s)
       \/ /\ \E added \in Added(view[s].words, view[s].out) :
               IF added = {} THEN UNCHANGED <<list, late>>
               ELSE list' = view[s].words \cup added /\ MissList(list')
          /\ Go(s, "extra_wipe", [Returned(s) EXCEPT !.kept = Keys(view[s].out)])
          /\ Unlock(s) /\ UNCHANGED dict

\* run_lint with fix
LintRead(s) ==
    /\ pc[s] = "lint_read" /\ Acts(s)
    /\ IF list # Missing /\ Readable(list)
       THEN /\ Go(s, "lint_write", [view[s] EXCEPT !.words = WordsOf(list)])
            /\ late' = [late EXCEPT ![s] = {}] /\ UNCHANGED <<list, dict, lock>>
       ELSE Stop(s)

\* The comments of the list stay where they were; the write may fail.
WriteFixed(s, fixed) == Write(s, fixed) \/ Stop(s)

LintWrite(s) == /\ pc[s] = "lint_write" /\ Acts(s)
                /\ \E fixed \in Dedups(view[s].words) : WriteFixed(s, fixed)

\* subtract_extra_words_from_sources, one dictionary after the other: its hash is
\* that of the inventory, its words are read again, the rejected ones are left out.
ExtraCheck(s) ==
    /\ pc[s] = "extra_check" /\ Acts(s)
    /\ LET v == view[s] d == Least(v.todo) IN
         IF v.todo # {} /\ dict[d] = v.dicts[d]
         THEN Go(s, "extra_read", v) /\ UNCHANGED <<list, dict, lock, late>>
         ELSE Stop(s)

\* Mutant of ExtraRead: the words of the inventory are used, as the hash fits.
ExtraReadInventory(s) ==
    /\ pc[s] = "extra_read" /\ Acts(s)
    /\ LET v == view[s] IN Go(s, "extra_write", [v EXCEPT !.words = WordsOf(v.dicts[Least(v.todo)])])
    /\ late' = [late EXCEPT ![s] = {}] /\ UNCHANGED <<list, dict, lock>>

ExtraRead(s) ==
    /\ pc[s] = "extra_read" /\ Acts(s)
    /\ LET v == view[s] d == Least(v.todo) IN
         IF Readable(dict[d])
         THEN /\ Go(s, "extra_write", [v EXCEPT !.words = WordsOf(dict[d])])
              /\ late' = [late EXCEPT ![s] = {}] /\ UNCHANGED <<list, dict, lock>>
         ELSE Stop(s)

ExtraWrite(s) ==
    /\ pc[s] = "extra_write" /\ Acts(s)
    /\ LET v == view[s] d == Least(v.todo) left == Subtract(v.words, v.out) IN
         \/ Stop(s)
         \/ /\ IF left = v.words THEN UNCHANGED <<dict, late>>
               ELSE dict' = [dict EXCEPT ![d] = left] /\ MissDict(d, left)
            /\ Go(s, "extra_check", [v EXCEPT !.todo = @ \ {d}]) /\ UNCHANGED <<list, lock>>

\* Mutant of Conflict: the dictionaries are not compared with the plan.
ListConflict(v) == v.hash # Missing /\ list # v.hash

\* plan_fingerprint_conflict: a list that was missing is not looked at again.
Conflict(v) == \/ v.hash # Missing /\ list # v.hash
               \/ \E d \in v.used : dict[d] # v.dicts[d]

\* What the files hold when the update of v has written the dictionaries of S.
Updated(v, S) == [d \in Dicts |-> IF d \in S THEN Target(d, v.words) ELSE dict[d]]
NewList(v)    == IF v.rewrite THEN v.words ELSE list

\* A dry run goes as far as the conflicts, under the lock, and writes nothing.
PushDryRun(s) == UNCHANGED journal /\ Stop(s)

\* The update takes effect for S: dictionaries of running applications are left out.
PushDone(s) ==
    LET v == view[s] IN
    /\ ~Conflict(v) /\ UNCHANGED journal
    /\ \E S \in SUBSET v.used : dict' = Updated(v, S)
    /\ list' = NewList(v) /\ MissList(NewList(v)) /\ Done(s)

\* ... or is rolled back ...
PushAborted(s) == UNCHANGED journal /\ Stop(s)

\* ... or stops half-way with its journal.
PushUnfinished(s) ==
    LET v == view[s] IN
    /\ ~Conflict(v)
    /\ journal' = [list |-> {list, NewList(v)},
                   dict |-> [d \in Dicts |-> {dict[d], Updated(v, v.used)[d]}],
                   before |-> [list |-> list, dict |-> dict]]
    /\ \E S \in SUBSET v.used : dict' = Updated(v, S)
    /\ list' \in {list, NewList(v)} /\ MissList(list') /\ Done(s)

PushCommit(s) ==
    /\ pc[s] = "push_commit" /\ UNCHANGED <<config, edits, commands>>
    /\ PushDryRun(s) \/ PushDone(s) \/ PushAborted(s) \/ PushUnfinished(s)

\* recover shows what it would restore ...
Matches(j, l, d) == l \in j.list /\ \A e \in Dicts : d[e] \in j.dict[e]

InspectRecovery(s) ==
    /\ pc[s] = "idle" /\ journal # NoJournal /\ config \notin BadConfig
    /\ Matches(journal, list, dict)
    /\ Go(s, "recover_ready", [NoView EXCEPT !.found = journal]) /\ Looks(s)

\* Mutant of RecoverCheck: whichever update is unfinished now is undone.
RecoverAny(s) ==
    /\ pc[s] = "recover_check" /\ Acts(s)
    /\ IF journal # NoJournal
       THEN Go(s, "recover_write", view[s]) /\ UNCHANGED <<list, dict, lock, late>>
       ELSE Stop(s)

\* ... and does it if the journal is still the one that was shown: each file that
\* holds what the update found or wrote goes back to what it was.
RecoverCheck(s) ==
    /\ pc[s] = "recover_check" /\ Acts(s)
    /\ IF journal # NoJournal /\ journal = view[s].found
       THEN Go(s, "recover_write", view[s]) /\ UNCHANGED <<list, dict, lock, late>>
       ELSE Stop(s)

\* A file changed by others stays, and the journal with it; so it does when a file
\* cannot be written or the process dies.
Recover(s) ==
    /\ pc[s] = "recover_write" /\ UNCHANGED <<config, edits, commands>>
    /\ LET known == {d \in Dicts : dict[d] \in journal.dict[d]}
           Restored(S) == [d \in Dicts |-> IF d \in S THEN journal.before.dict[d] ELSE dict[d]]
       IN  \/ /\ Matches(journal, list, dict) /\ journal' = NoJournal
              /\ list' = journal.before.list /\ dict' = Restored(Dicts)
           \/ /\ UNCHANGED journal /\ \E S \in SUBSET known : dict' = Restored(S)
              /\ list' \in {list} \cup (IF list \in journal.list THEN {journal.before.list} ELSE {})
    /\ MissList(list') /\ Done(s)

-----------------------------------------------------------------------------

Preview(s) == \/ BeginPull(s) \/ PullSources(s) \/ PullFile(s) \/ PullHash(s)
              \/ BeginPush(s) \/ PlanPush(s) \/ PlanRewrite(s) \/ PushHash(s)
              \/ BeginExtra(s) \/ ExtraSources(s) \/ Rescan(s) \/ KeepWords(s)
              \/ SkipKeeping(s) \/ RejectWords(s) \/ BeginAdd(s) \/ BeginLint(s)
              \/ InspectRecovery(s) \/ Decline(s)

Act(s) == \/ PullCheck(s) \/ PullWrite(s) \/ AddRead(s) \/ AddWrite(s)
          \/ LintRead(s) \/ LintWrite(s) \/ KeepRead(s) \/ KeepWrite(s)
          \/ ExtraCheck(s) \/ ExtraRead(s) \/ ExtraWrite(s) \/ PushCommit(s)
          \/ RecoverCheck(s) \/ Recover(s) \/ EndProbe(s)

Next == \/ \E s \in Sessions : \/ Preview(s) \/ Acquire(s) \/ Refuse(s) \/ Act(s)
                               \/ Probe(s) \/ Die(s)
        \/ EditList \/ EditDict \/ EditConfig

Spec == Init /\ [][Next]_vars

\* A running process goes on; users and other programs need not act.
FairSpec == Spec /\ \A s \in Sessions : WF_vars(Act(s))
-----------------------------------------------------------------------------
(* Properties.                                                              *)

\* Every variable keeps its type.
TypeOK ==
    /\ list \in Content /\ dict \in [Dicts -> Content] /\ config \in Config
    /\ lock \in Sessions \cup {Free} /\ view \in [Sessions -> Views]
    /\ pc \in [Sessions -> {"idle"} \cup Previewing \cup Ready \cup Locked]
    /\ late \in [Sessions -> SUBSET Word]
    /\ edits \in 0..MaxEdits /\ commands \in 0..MaxCommands

\* Two sessions are never at their locked steps together
\* (acquire_operation_lock: the kernel lock, not the file's text, is ownership).
Exclusive == \A s \in Sessions : pc[s] \in Locked => lock = s

\* The merge step by step, as build_pull_preview makes it: the list without its
\* duplicates, then what each dictionary adds to the words so far.
Stepwise(words, source) ==
    LET merges[d \in 0 .. NDicts] ==
            IF d = 0 THEN Dedups(words)
            ELSE IF d \notin DOMAIN source THEN merges[d - 1]
            ELSE UNION {{have \cup new : new \in Added(have, source[d])} : have \in merges[d - 1]}
    IN  merges[NDicts]

\* The merge a collect is about to confirm is one that the loop over the
\* dictionaries can make, and every merge the loop can make is allowed for: the
\* list keeps its own spellings, a new word has that of the first dictionary.
CollectIsStepwise ==
    \A s \in Sessions : pc[s] = "pull_sources" =>
        LET v == view[s]
            source == [d \in UsedBy(v) |-> WordsOf(dict[d])]
        IN  Collected(v.words, source) = Stepwise(v.words, source)

\* The session whose command ends, or goes on to its next file, in this step.
Ends(s, phase) == pc[s] = phase /\ pc'[s] # phase

\* No command makes the list forget a word, unless the word came between two
\* of its looks at the list: while its preview was being built, or between the
\* last check and the write.  Recovery, which puts back what an update replaced,
\* is left out.
ListKeepsItsWords ==
    [][\A s \in Sessions : list' # list /\ pc'[s] # pc[s] /\ pc[s] # "recover_write" =>
          \A w \in WordsOf(list) \ late[s] : casefold[w] \in Keys(WordsOf(list'))]_vars

\* A word an update takes from a dictionary was shown as a removal and is not
\* in the list - not even if the list changed while the preview was being
\* built, save for a word that came in just then.
UpdateRemovesOnlyShown ==
    [][\A s \in Sessions : Ends(s, "push_commit") =>
          \A d \in Dicts : \A w \in WordsOf(dict[d]) \ WordsOf(dict'[d]) :
             /\ w \in WordsOf(view[s].dicts[d])
             /\ w \in WordsOf(list) \cap filter[d] => w \in late[s]]_vars

\* Removing extra words takes away the words the user rejected, none of those he
\* kept before, and nothing another program put into the dictionary since the
\* inventory was made, save between the last look and the write.
ExtraKeepsTheRest ==
    [][\A s \in Sessions : Ends(s, "extra_write") =>
          \A d \in Dicts : \A w \in WordsOf(dict[d]) \ WordsOf(dict'[d]) :
             casefold[w] \in Keys(view[s].out) \ view[s].kept \/ w \in late[s]]_vars

\* While an update is unfinished only recovery changes a file, and only the one
\* that has shown this update to its user: the guard is evaluated under the lock,
\* so a journal cannot come between it and the write.
BlockedWhileUnfinished ==
    [][journal # NoJournal /\ <<list, dict>>' # <<list, dict>> /\ edits' = edits
          => \E s \in Sessions : pc[s] = "recover_write" /\ view[s].found = journal]_vars

\* Disabling a dictionary protects it: an update, or a removal of extra words,
\* that takes the lock after the configuration disabled a dictionary does not
\* write it, although a preview reads the settings first, the dictionaries then
\* and the configuration's fingerprint last, and may have found the dictionary
\* enabled.  (The fingerprint is that of the configuration at the lock.)
DisabledStays ==
    [][\A s \in Sessions : Ends(s, "push_commit") \/ Ends(s, "extra_write") =>
          \A d \in Dicts : dict'[d] # dict[d] => d \in enabled[view[s].digest]]_vars

\* Whoever holds the lock lets it go.
LockIsReleased == \A s \in Sessions : lock = s ~> lock # s
=============================================================================

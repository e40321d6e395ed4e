----------------------------- MODULE ProjectFolder -----------------------------
(***************************************************************************)
(* The files of a project, the other programs that change them, and the    *)
(* one operation the terminal interface runs on them at a time: collect,   *)
(* update, recovery, setup, saving the applications.  Collect, update and  *)
(* recovery are a step each here (WordCommands and PushTransaction have    *)
(* their steps); setup and saving are ProjectSetup and TargetSettings.     *)
(***************************************************************************)
EXTENDS Applications

CONSTANTS
    Word,
    EditLists, EditDicts, EditConfigs,   \* what other programs write, EditDicts
                                         \* for each dictionary
    MaxEdits,                            \* bound on what they do
    MaxChanges                           \* bound on what this terminal changes

VARIABLES
    list, dict, config, whitelist,   \* the files
    journal,                         \* of an update that did not finish
    op,                              \* the operation of the operation screen
    slipped,                         \* files others changed under a setup or a save
                                     \* (auxiliary)
    changes,                         \* how often this terminal changed the files
    edits

files  == <<list, dict, config, whitelist, journal>>
folder == <<files, op, slipped, changes, edits>>

Text(S)        == [status |-> IF S = {} THEN "empty" ELSE "ok", words |-> S]
NoText(status) == [status |-> status, words |-> {}]
Missing        == NoText("missing")
Texts == {Text(S) : S \in SUBSET Word} \cup {NoText(s) : s \in Statuses \ {"ok", "empty"}}

\* "broken" stands for unknown keys too: either keeps every change away.
Config(enabled, excluded) ==
    [status |-> "valid", enabled |-> enabled, excluded |-> excluded]
NoConfig(status) == [status |-> status, enabled |-> {}, excluded |-> {}]
Configs == [status : {"valid", "broken", "absent"},
            enabled : SUBSET Family, excluded : SUBSET Dictionaries]

ASSUME ProjectAssumption ==
    /\ EditLists \subseteq Texts /\ EditConfigs \subseteq Configs
    /\ EditDicts \in [Dictionaries -> SUBSET Texts]
    /\ MaxEdits \in Nat /\ MaxChanges \in Nat

Nothing   == [none |-> TRUE]
NoJournal == [wrote |-> {}, before |-> <<>>, after |-> <<>>]

\* config_blocks_mutating
Blocks(c) == c.status = "broken"

\* What collect and update work with: without a usable file, everything.
InUse(c) == {d \in Dictionaries :
    c.status = "valid" => familyOf[d] \in c.enabled /\ d \notin c.excluded}

Skipped == {d \in InUse(config) : dict[d].status \in {"corrupt", "unreadable"}}

Discovery == Discover([d \in Dictionaries |-> dict[d].status])

NoOp == [kind |-> "none", phase |-> "none", plan |-> Nothing, todo |-> <<>>,
         created |-> <<>>, leftover |-> {}, outcome |-> "none"]

Start(kind, plan) == [NoOp EXCEPT !.kind = kind, !.phase = "start", !.plan = plan]

At(kind, phase) == op.kind = kind /\ op.phase = phase
Unsettled       == op.phase \notin {"none", "shown"}

Go(phase)   == op' = [op EXCEPT !.phase = phase] /\ UNCHANGED changes
End(result) == op' = [op EXCEPT !.phase = "ended", !.outcome = result]
               /\ changes' = changes + 1

-----------------------------------------------------------------------------
(* Other programs: an editor, an application.                               *)

Slips(path) == slipped' = IF Unsettled /\ op.kind \in {"setup", "targets"} THEN slipped \cup {path} ELSE slipped
MayStart    == changes < MaxChanges
Edits       == /\ edits < MaxEdits /\ MayStart /\ edits' = edits + 1
               /\ UNCHANGED <<whitelist, journal, op, changes>>

EditList   == /\ Edits /\ list' \in EditLists \ {list} /\ Slips("list")
              /\ UNCHANGED <<dict, config>>
EditDict   == /\ Edits /\ \E d \in Dictionaries : \E t \in EditDicts[d] \ {dict[d]} :
                             dict' = [dict EXCEPT ![d] = t]
              /\ Slips("dict") /\ UNCHANGED <<list, config>>
EditConfig == /\ Edits /\ config' \in EditConfigs \ {config} /\ Slips("config")
              /\ UNCHANGED <<list, dict>>

-----------------------------------------------------------------------------
(* Previews of collect and update, and carrying them out.                   *)

\* at, edits: when the preview was made (auxiliary).
Snapshot == [list |-> list, config |-> config, skipped |-> Skipped,
             dict |-> [d \in Dictionaries |->
                         IF d \in InUse(config) THEN dict[d] ELSE NoText("absent")],
             at |-> changes, edits |-> edits]

Merged(p)   == p.list.words \cup UNION {p.dict[d].words : d \in Dictionaries}
Additions(p) == Merged(p) \ p.list.words
CanPull(p)  == p.list.status # "unreadable"
CanPush(p)  == p.list.status = "ok"

\* The dictionaries an update changes; it creates a file that is missing.
ToUpdate(p) == {d \in InUse(p.config) \ p.skipped :
                  p.dict[d].status # "absent" /\ p.dict[d].words # p.list.words}

\* mutation_scope_for lets the operation in.
ScopeOpen == ~Blocks(config) /\ journal = NoJournal

\* build_runtime_identity: the settings and the dictionaries that are found.
SameRuntime(p) == p.config = config /\ \A d \in InUse(config) :
                     p.dict[d].status = "absent" <=> dict[d].status = "absent"
Unchanged(p)   == p.list = list /\ \A d \in InUse(p.config) \ p.skipped : p.dict[d] = dict[d]

\* Any operation may fail before it changes a file: the lock is taken, the scope
\* is closed, a write is refused.
Stopped(outcome) == End(outcome) /\ UNCHANGED <<files, slipped, edits>>
Fails            == Stopped("failed")

\* The preview's list or sources have changed.
PullStops(p) == ScopeOpen /\ ~(SameRuntime(p) /\ Unchanged(p)) /\ Stopped("stopped")

\* A dictionary that could not be read is a warning.
PullWrites(p) ==
    /\ ScopeOpen /\ SameRuntime(p) /\ Unchanged(p)
    /\ list' = Text(Merged(p))
    /\ End(IF p.skipped = {} THEN "completed" ELSE "warnings")
    /\ UNCHANGED <<dict, config, whitelist, journal, slipped, edits>>

WorkPull == At("pull", "start") /\ (Fails \/ PullStops(op.plan) \/ PullWrites(op.plan))

\* Another plan is needed, or the update was rolled back.
PushStops        == ScopeOpen /\ Stopped("stopped")
PushConflicts(p) == ScopeOpen /\ SameRuntime(p) /\ ~Unchanged(p) /\ Stopped("conflict")

Updated(p, S) == [d \in Dictionaries |-> IF d \in S THEN p.list ELSE dict[d]]

\* _finalize_push_preview_result: an update that can neither go on nor back leaves
\* its journal; dictionaries that were left out are a warning.
PushOutcome(p, S, unfinished) ==
    IF unfinished THEN "recovery"
    ELSE IF S = ToUpdate(p) /\ p.skipped = {} THEN "completed" ELSE "warnings"

\* The dictionary of an application that is running is left out.
PushWrites(p) ==
    /\ ScopeOpen /\ SameRuntime(p) /\ Unchanged(p)
    /\ \E S \in SUBSET ToUpdate(p), unfinished \in {ToUpdate(p) # {}, FALSE} :
         /\ dict' = Updated(p, S)
         /\ journal' = IF unfinished THEN [wrote |-> S, before |-> dict, after |-> dict']
                       ELSE journal
         /\ End(PushOutcome(p, S, unfinished))
    /\ UNCHANGED <<list, config, whitelist, slipped, edits>>

WorkPush == At("push", "start") /\ (Fails \/ PushStops
                                     \/ PushConflicts(op.plan) \/ PushWrites(op.plan))

\* plan_recovery_from_journal: what is to be put back, what another program has
\* changed, and what the update created, which keeps recovery from being offered.
ToRestore  == {d \in journal.wrote : /\ dict[d] # journal.before[d]
                                     /\ dict[d] \in {journal.after[d], Missing}}
Conflicted == {d \in journal.wrote : dict[d] # journal.before[d]} \ ToRestore
Created    == {d \in ToRestore : journal.before[d] = Missing}
CanRecover == ToRestore # {} /\ Created = {}
CanDiscard == journal # NoJournal /\ journal.wrote = {}

WorkRecover ==
    /\ At("recover", "start")
    /\ \/ Fails
       \/ /\ ~Blocks(config) /\ journal = op.plan.journal
          /\ dict' = [d \in Dictionaries |-> IF d \in ToRestore THEN journal.before[d] ELSE dict[d]]
          /\ IF Conflicted = {} THEN journal' = NoJournal /\ End("completed")
             ELSE UNCHANGED journal /\ End("recovery")
          /\ UNCHANGED <<list, config, whitelist, slipped, edits>>

WorkDiscard ==
    /\ At("discard", "start")
    /\ \/ Fails
       \/ /\ ~Blocks(config) /\ journal = op.plan.journal /\ journal' = NoJournal
          /\ End("completed")
          /\ UNCHANGED <<list, dict, config, whitelist, slipped, edits>>
=============================================================================

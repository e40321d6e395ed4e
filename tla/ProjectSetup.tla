----------------------------- MODULE ProjectSetup -----------------------------
(***************************************************************************)
(* Start here: the user picks the folder of the word list and the          *)
(* applications, sees what will be created, and the setup creates it under *)
(* the project lock, or takes back what it created.                        *)
(***************************************************************************)
EXTENDS ProjectFolder, Sequences, SequencesExt

VARIABLE setup    \* what the controller keeps of the setup session

NoSelection == Selection({}, {})
NoDiscovery == [rows |-> {}, open |-> {}, named |-> {}]
NoSetup     == [picked |-> FALSE, disc |-> NoDiscovery, sel |-> NoSelection, plan |-> Nothing]

\* set_setup_wordlist: an unreadable list is refused; choosing the same folder
\* again keeps what the user chose.
PickList ==
    /\ list.status # "unreadable"
    /\ setup' = [setup EXCEPT !.picked = TRUE, !.disc = Discovery,
           !.sel = IF setup.picked THEN MergeSelection(setup.sel, setup.disc.rows, Discovery)
                   ELSE DefaultSelection(Discovery)]

Toggled(sel, disc) == FamilyBoxes(sel, disc) \cup DictionaryBoxes(sel, disc)
                          \cup {SelectAvailable(sel, disc), ClearSelectable(sel, disc)}

ChooseForSetup == \E s \in Toggled(setup.sel, setup.disc) \ {setup.sel} :
                      setup' = [setup EXCEPT !.sel = s, !.plan = Nothing]

Present(path) == CASE path = "list"      -> list.status # "missing"
                   [] path = "config"    -> config.status # "absent"
                   [] path = "whitelist" -> whitelist # "absent"
Paths == {"list", "config", "whitelist"}

\* What is missing, in the order it is created.
IfMissing(path) == IF Present(path) THEN <<>> ELSE <<path>>
ToCreate        == IfMissing("list") \o IfMissing("config") \o IfMissing("whitelist")

\* prepare_project_setup
PrepareSetup ==
    setup' = [setup EXCEPT !.plan =
        [conflict |-> list.status = "unreadable" \/ Present("config"),
         exists   |-> Present("config"),
         keep     |-> {path \in Paths \ {"config"} : Present(path)},
         kept     |-> <<list, whitelist>>,
         create   |-> ToCreate,
         new      |-> Config(setup.sel.families, setup.sel.excluded)]]

CanCreate == setup.plan # Nothing /\ ~setup.plan.conflict

-----------------------------------------------------------------------------
(* The worker: execute_project_setup.                                       *)

Keeps(p) == /\ "list" \in p.keep      => list = p.kept[1]
            /\ "whitelist" \in p.keep => whitelist = p.kept[2]

\* _preflight_stop lets the setup go on.
Preflight(p) == /\ journal = NoJournal /\ Keeps(p)
                /\ \A i \in DOMAIN p.create : ~Present(p.create[i])

SetupChecks ==
    /\ At("setup", "start") /\ UNCHANGED <<files, slipped, edits, setup>>
    /\ IF Preflight(op.plan) THEN Go("lock") ELSE End("stopped")

\* Mutant of SetupLocks: the folder is not looked at again under the lock.
SetupLocksOnly ==
    /\ At("setup", "lock") /\ UNCHANGED <<files, edits, setup, changes>>
    /\ op' = [op EXCEPT !.phase = "create", !.todo = op.plan.create] /\ slipped' = {}

\* The lock is taken ("failed"); its file cannot be trusted ("error", which ends
\* the worker with an exception); else the folder is looked at again.
SetupLocks ==
    /\ At("setup", "lock") /\ UNCHANGED <<files, edits, setup>>
    /\ \/ \E outcome \in {"failed", "error"} : End(outcome) /\ UNCHANGED slipped
       \/ ~Preflight(op.plan) /\ End("stopped") /\ UNCHANGED slipped
       \/ /\ Preflight(op.plan) /\ slipped' = {} /\ UNCHANGED changes
          /\ op' = [op EXCEPT !.phase = "create", !.todo = op.plan.create]

Becomes(path, l, c, w) ==
    /\ list'      = IF path = "list" THEN l ELSE list
    /\ config'    = IF path = "config" THEN c ELSE config
    /\ whitelist' = IF path = "whitelist" THEN w ELSE whitelist
    /\ UNCHANGED <<dict, journal, slipped, edits, changes, setup>>

SetupCreates ==
    /\ At("setup", "create") /\ op.todo # <<>>
    /\ LET path == Head(op.todo) IN
         /\ Becomes(path, Text({}), op.plan.new, "ours")
         /\ op' = [op EXCEPT !.todo = Tail(@), !.created = Append(@, path)]

\* Mutant of UndoOrder: what was created first is taken back first.
UndoForwards(created) == created
UndoOrder(created)    == Reverse(created)

\* A write is refused, or the new configuration does not load.
SetupBreaksOff ==
    /\ At("setup", "create") /\ (op.todo # <<>> \/ Blocks(config) \/ ~Present("config"))
    /\ op' = [op EXCEPT !.phase = "undo", !.todo = UndoOrder(op.created)]
    /\ UNCHANGED <<files, slipped, edits, changes, setup>>

\* execute_setup forgets the session in the worker.
SetupEnds ==
    /\ At("setup", "create") /\ op.todo = <<>> /\ Present("config")
    /\ End("completed") /\ setup' = NoSetup
    /\ UNCHANGED <<files, slipped, edits>>

\* Mutant of SetupUndoes: a file that cannot be removed is forgotten.
SetupUndoesQuietly ==
    /\ At("setup", "undo") /\ op.todo # <<>>
    /\ LET path == Head(op.todo)
           rest == [op EXCEPT !.todo = Tail(@)]
       IN  \/ Becomes(path, Missing, NoConfig("absent"), "absent") /\ op' = rest
           \/ Becomes("none", list, config, whitelist) /\ op' = rest

\* _rollback_created
SetupUndoes ==
    /\ At("setup", "undo") /\ op.todo # <<>>
    /\ LET path == Head(op.todo)
           rest == [op EXCEPT !.todo = Tail(@)]
       IN  \/ Becomes(path, Missing, NoConfig("absent"), "absent") /\ op' = rest
           \/ /\ Present(path) /\ op' = [rest EXCEPT !.leftover = @ \cup {path}]
              /\ Becomes("none", list, config, whitelist)

SetupIsUndone ==
    /\ At("setup", "undo") /\ op.todo = <<>>
    /\ End(IF op.leftover = {} THEN "failed" ELSE "incomplete")
    /\ UNCHANGED <<files, slipped, edits, setup>>

SetupStep == \/ SetupChecks \/ SetupLocks \/ SetupCreates \/ SetupBreaksOff
             \/ SetupEnds \/ SetupUndoes \/ SetupIsUndone
=============================================================================

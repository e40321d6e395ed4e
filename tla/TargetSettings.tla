---------------------------- MODULE TargetSettings ----------------------------
(***************************************************************************)
(* Applications: the user changes which applications and dictionaries a    *)
(* project uses, reviews the change and saves spell-sync.toml.             *)
(***************************************************************************)
EXTENDS ProjectSetup

VARIABLE settings    \* what the controller keeps of the settings session

\* touched, before, returned: what the user switched, what was set when the screen
\* was opened, and what had no row then and can be switched at the review (auxiliary).
NoSettings == [on |-> FALSE, error |-> FALSE, disc |-> NoDiscovery, sel |-> NoSelection,
               plan |-> Nothing, touched |-> {}, before |-> {}, returned |-> {}]

\* A configuration that cannot be used shows no applications.
LoadedSettings ==
    IF config.status = "valid"
    THEN [disc |-> Discovery, enabled |-> config.enabled, excluded |-> config.excluded,
          error |-> FALSE]
    ELSE [disc |-> NoDiscovery, enabled |-> {}, excluded |-> {}, error |-> TRUE]

OpenSettings ==
    LET s == LoadedSettings IN
    settings' = [NoSettings EXCEPT !.on = TRUE, !.error = s.error, !.disc = s.disc,
                    !.sel = FromEnabled(s.disc, s.enabled, s.excluded),
                    !.before = s.enabled]

Switched(s) == (settings.sel.families \ s.families) \cup (s.families \ settings.sel.families)

ChooseForSettings ==
    \E s \in Toggled(settings.sel, settings.disc) \ {settings.sel} :
        settings' = [settings EXCEPT !.sel = s, !.plan = Nothing,
                                     !.touched = @ \cup Switched(s)]

\* Mutant of Prepared: the choice is written as it is.
PreparedAsChosen(c) == Config(settings.sel.families, settings.sel.excluded)

\* prepare_target_settings_update: what is written in place of configuration c.
Prepared(c) ==
    LET enabled == ResolveEnabled(Discovery, settings.sel.families, c.enabled)
    IN  Config(enabled, ResolveExcluded(Discovery, settings.sel.excluded, enabled))

\* The review reads the configuration, later the hash of its file.
ReadConfig ==
    settings' = [settings EXCEPT !.returned = Discovery.open \ settings.disc.rows, !.plan =
        [read |-> config, hash |-> Nothing, new |-> Prepared(config),
         ok   |-> /\ journal = NoJournal /\ config.status = "valid"
                  /\ Prepared(config) # config]]

HashConfig == /\ settings.plan # Nothing /\ settings.plan.hash = Nothing
              /\ settings' = [settings EXCEPT !.plan.hash = config]

Reviewed == settings.plan # Nothing /\ settings.plan.hash # Nothing
CanSave  == Reviewed /\ settings.plan.ok

-----------------------------------------------------------------------------
(* The worker: execute_target_settings_update.                              *)

Stays == UNCHANGED <<files, slipped, edits, settings>>

SaveChecks ==
    /\ At("targets", "start") /\ Stays
    /\ IF config = op.plan.hash THEN Go("lock") ELSE End("stopped")

\* Mutant of SaveLocks: the file is not looked at again under the lock.
SaveLocksOnly ==
    /\ At("targets", "lock") /\ UNCHANGED <<files, edits, settings>>
    /\ Go("write") /\ slipped' = {}

SaveLocks ==
    /\ At("targets", "lock") /\ UNCHANGED <<files, edits, settings>>
    /\ \/ \E outcome \in {"failed", "error"} : End(outcome) /\ UNCHANGED slipped
       \/ (journal # NoJournal \/ config # op.plan.hash) /\ End("stopped") /\ UNCHANGED slipped
       \/ journal = NoJournal /\ config = op.plan.hash /\ Go("write") /\ slipped' = {}

\* Mutant of SaveWrites: a write that is refused goes on to the check.
SaveWritesOrNot ==
    /\ At("targets", "write") /\ UNCHANGED <<list, dict, whitelist, journal, slipped, edits, settings>>
    /\ Go("verify") /\ config' \in {op.plan.new, config}

\* The file is replaced, or its backup or the write is refused.
SaveWrites ==
    /\ At("targets", "write") /\ UNCHANGED <<list, dict, whitelist, journal, slipped, edits, settings>>
    /\ \/ config' = op.plan.new /\ Go("verify")
       \/ UNCHANGED config /\ End("failed")

\* The applications of the new file are compared with those of the review.
SaveVerifies ==
    /\ At("targets", "verify") /\ Stays
    /\ \/ config.enabled = op.plan.new.enabled /\ End("completed")
       \/ (config.enabled # op.plan.new.enabled \/ Blocks(config)) /\ End("failed")

SaveStep == SaveChecks \/ SaveLocks \/ SaveWrites \/ SaveVerifies
=============================================================================

----------------------------- MODULE Applications -----------------------------
(***************************************************************************)
(* Which applications spell-sync finds, which of them can be chosen, and   *)
(* what the checkboxes of Start here and Applications do to a selection.   *)
(* An application (a "family" in the code) has several dictionary files.   *)
(***************************************************************************)
EXTENDS Naturals, FiniteSets, FiniteSetsExt

CONSTANTS
    Family,          \* the applications spell-sync.toml has a switch for
    NDictionaries,   \* dictionary files, in the order of discovery
    familyOf,        \* the application of each
    AlwaysListed     \* applications that have a row even when nothing is found

Dictionaries == 1..NDictionaries

ASSUME ApplicationAssumption ==
    /\ NDictionaries \in Nat
    /\ familyOf \in [Dictionaries -> Family] /\ AlwaysListed \subseteq Family

\* What reading a dictionary finds; "absent" when its path is not discovered.
\* Formats the reader does not support count as corrupt.
Statuses == {"absent", "ok", "empty", "missing", "unreadable", "corrupt"}

Of(f)       == {d \in Dictionaries : familyOf[d] = f}
Here(st, f) == {d \in Of(f) : st[d] # "absent"}
Seen(st, f) == {st[d] : d \in Here(st, f)}

\* The status of an application: a readable dictionary decides; an empty one
\* does when no broken one comes before it; else the last broken one does.
Best(st, f) ==
    LET there  == {d \in Here(st, f) : st[d] # "missing"}
        broken == {d \in there : st[d] # "empty"}
    IN  IF "ok" \in Seen(st, f) THEN "ok"
        ELSE IF there = {} THEN "missing"
        ELSE IF st[Min(there)] = "empty" THEN "empty"
        ELSE st[Max(broken)]

Ambiguous(st, f) == /\ Cardinality(Here(st, f)) > 1 /\ "corrupt" \in Seen(st, f)
                    /\ Seen(st, f) \cap {"ok", "unreadable"} # {}

\* discover_setup_targets: the rows shown, those that can be switched, and the
\* dictionaries with words, the only ones it has a name for.
Discover(st) ==
    [rows  |-> {f \in Family : Here(st, f) # {}} \cup AlwaysListed,
     open  |-> {f \in Family : Best(st, f) \in {"ok", "empty"} /\ ~Ambiguous(st, f)},
     named |-> {d \in Dictionaries : st[d] = "ok"}]

Discoveries == [rows : SUBSET Family, open : SUBSET Family, named : SUBSET Dictionaries]
Selections  == [families : SUBSET Family, excluded : SUBSET Dictionaries]

Selection(families, excluded) == [families |-> families, excluded |-> excluded]

DefaultSelection(disc) == Selection(disc.open, {})

\* selection_from_enabled
FromEnabled(disc, enabled, excluded) ==
    Selection(enabled \cap disc.rows, excluded \cap disc.named)

\* toggle_target: switching an application off forgets its exclusions.
ToggleFamily(sel, disc, f) ==
    IF f \notin disc.rows \cap disc.open THEN sel
    ELSE IF f \in sel.families
    THEN Selection(sel.families \ {f}, sel.excluded \ (Of(f) \cap disc.named))
    ELSE Selection(sel.families \cup {f}, sel.excluded)

\* toggle_dictionary_inclusion: not the last one of its application.
ToggleDictionary(sel, disc, d) ==
    LET siblings == Of(familyOf[d]) \cap disc.named IN
    IF \/ d \notin disc.named \/ familyOf[d] \notin sel.families
       \/ Cardinality(siblings) <= 1 \/ siblings \ sel.excluded = {d}
    THEN sel
    ELSE IF d \in sel.excluded THEN Selection(sel.families, sel.excluded \ {d})
    ELSE Selection(sel.families, sel.excluded \cup {d})

\* The boxes that can be ticked: of the applications that can be switched, and of
\* the dictionaries of one that is on and has several.
FamilyBoxes(sel, disc) == {ToggleFamily(sel, disc, f) : f \in disc.rows \cap disc.open}

DictionaryBoxes(sel, disc) ==
    {ToggleDictionary(sel, disc, d) : d \in
        {x \in disc.named : /\ familyOf[x] \in sel.families \cap disc.rows \cap disc.open
                            /\ Cardinality(Of(familyOf[x]) \cap disc.named) > 1}}

SelectAvailable(sel, disc) == Selection(sel.families \cup disc.open, {})
ClearSelectable(sel, disc) == Selection((sel.families \cap disc.rows) \ disc.open, {})

\* merge_selection_after_refresh
MergeSelection(sel, rowsBefore, disc) ==
    Selection((sel.families \cap disc.rows) \cup (disc.open \ rowsBefore),
              sel.excluded \cap disc.named)

\* resolve_enabled_targets: what cannot be switched keeps its setting.
ResolveEnabled(disc, selected, previous) ==
    (previous \ (disc.rows \cap disc.open)) \cup (selected \cap disc.open)

\* prepare_target_settings_update: the exclusions that are written.
ResolveExcluded(disc, excluded, enabled) ==
    {d \in excluded \cap disc.named : familyOf[d] \in enabled \cap disc.rows}
=============================================================================

------------------------------ MODULE MCTerminal ------------------------------
(***************************************************************************)
(* Two applications, one of them with two dictionaries, two words, and     *)
(* three folders to begin in: an empty one, a project whose second         *)
(* application is not found at first and may be found later, and one whose *)
(* second application may vanish.                                          *)
(***************************************************************************)
EXTENDS Terminal

CONSTANTS f1, f2, a, b

MCFamily   == {f1, f2}
MCFamilyOf == <<f1, f1, f2>>
MCWord     == {a, b}

MCEditLists   == {Text({}), Missing}
MCEditDicts   == <<{NoText("corrupt")}, {}, {Text({b}), NoText("absent")}>>
MCEditConfigs == {NoConfig("broken"), Config({f2}, {})}

Fresh   == [changes |-> 1, list |-> Missing, config |-> NoConfig("absent"),
            dict |-> <<Text({a}), Text({}), NoText("absent")>>]
Project == [changes |-> 0, list |-> Text({a}), config |-> Config({f1, f2}, {2}),
            dict |-> <<Text({a, b}), Text({b}), NoText("absent")>>]
Installed == [Project EXCEPT !.changes = 1, !.dict[3] = Text({b})]
MCBegun == {Fresh, Project, Installed}
=============================================================================

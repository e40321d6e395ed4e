---------------------------- MODULE MCWordCommands ----------------------------
(* Small instances of WordCommands for TLC. *)
EXTENDS WordCommands, TLC

CONSTANTS a, A, b, ka, kb, s1, s2, c1, c2, bad

MCWord == {a, A, b}
MCCasefold == (a :> ka) @@ (A :> ka) @@ (b :> kb)
MCFilter == (1 :> MCWord) @@ (2 :> {a, A})
MCSessions == {s1, s2}
MCScreens == {s1}
MCConfig == {c1, c2, bad}
MCBadConfig == {bad}
MCEnabled == (c1 :> {1, 2}) @@ (c2 :> {1}) @@ (bad :> {1, 2})
MCInitialLists == {{a}, Missing}
MCInitialDicts == {<<{A, b}, {A, b}>>, <<{A, b}, Missing>>}
MCEditLists == {{a, b}, Missing, Garbled}
MCEditDicts == {{a, A, b}, Garbled}
MCTyped == {{b}}
=============================================================================

----------------------------- MODULE MCAftermath ------------------------------
(* A small instance of Aftermath for TLC. *)
EXTENDS Aftermath

CONSTANTS s1, s2

MCSessions == {s1, s2}
MCOldHistory == <<Identity("pull", 1, "completed")>>
MCRecoveries == {"recovered", "cleanup_completed", "conflicted"}

Scene(p, q, m, n, up, old) ==
    [todo |-> (s1 :> p) @@ (s2 :> q), saves |-> m, faults |-> n, upstream |-> up, used |-> old]

MCScenes == {
    Scene(<<"collect", "collect">>, <<"collect">>, 1, 1, FALSE, TRUE),
    Scene(<<"collect", "collect">>, <<>>, 1, 2, FALSE, TRUE),
    Scene(<<"collect">>, <<"save", "collect">>, 1, 1, FALSE, FALSE),
    Scene(<<"logs">>, <<"recover">>, 0, 1, FALSE, TRUE),
    Scene(<<"recover", "recover">>, <<"collect">>, 0, 2, FALSE, TRUE),
    Scene(<<"save_push">>, <<"save", "save">>, 3, 2, TRUE, TRUE),
    Scene(<<"save">>, <<"save_push">>, 2, 1, FALSE, TRUE),
    Scene(<<"collect", "save_push">>, <<"save">>, 1, 1, TRUE, TRUE)}
=============================================================================

-------------------------- MODULE MCPushTransaction --------------------------
(* Small instances of PushTransaction for TLC. *)
EXTENDS PushTransaction, TLC

CONSTANTS old, new, ext, t1, t2

MCContent == {old, new, ext}
MCInitial == {old, None}
MCRendered == {new}
MCTxIds == {t1, t2}
TxSymmetry == Permutations(MCTxIds)
MCEdits == {ext, None}
MCEditsUnreadable == {ext, None, Unreadable}

\* The transactions take their identifiers in order: which of the unused ones a
\* push is given makes no difference.
InOrder == tx' = t2 /\ tx' # tx => t1 \in dirs

OrderedFairSpec == Init /\ [][Next /\ InOrder]_vars /\ WF_vars(CommandStep)
=============================================================================

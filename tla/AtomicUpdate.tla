----------------------------- MODULE AtomicUpdate -----------------------------
(***************************************************************************)
(* What an update promises: the word list and the dictionaries change      *)
(* together or not at all.  Other programs change one file at a time       *)
(* (Edit); a push gives the new word list to a set of files in one step    *)
(* (Commit).  Nothing else - an aborted push, a crash, a recovery, the     *)
(* clean-up - changes any file.                                            *)
(***************************************************************************)
EXTENDS Integers

CONSTANTS Files, Values, Words

VARIABLES content, edits, commits

Init == content \in [Files -> Values] /\ edits = 0 /\ commits = 0

\* Another program leaves any content at one path.
Edit == /\ \E f \in Files, v \in Values : content' = [content EXCEPT ![f] = v]
        /\ edits' = edits + 1 /\ UNCHANGED commits

\* A push takes effect: every file of S now carries the same words.
Commit == /\ \E S \in SUBSET Files, w \in Words :
                content' = [f \in Files |-> IF f \in S THEN w ELSE content[f]]
          /\ commits' = commits + 1 /\ UNCHANGED edits

Next == Edit \/ Commit

Spec == Init /\ [][Next]_<<content, edits, commits>>
=============================================================================

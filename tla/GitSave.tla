------------------------------- MODULE GitSave --------------------------------
(***************************************************************************)
(* git-save: the word list and the settings are committed, and pushed when *)
(* asked.  Every git command sees the repository as it then is; between    *)
(* two of them the user, an editor or another session goes on.  A command  *)
(* may fail, or be given up after 30 seconds when it has, or has not,      *)
(* taken effect.  The repository itself is external.                       *)
(***************************************************************************)
EXTENDS WorkspaceFiles

VARIABLES
    index, head, remote, \* what is staged, committed, and held by the upstream
    upstream,            \* whether the branch has one
    said                 \* what the last report of each session claims

git == <<index, head, remote, upstream, said>>

Nowhere == [f \in Files |-> NoFile]
Silent  == [committed |-> Nowhere, pushed |-> Nowhere]

InitGit ==
    /\ index = work /\ head = work /\ remote = work
    /\ upstream = scene.upstream /\ said = [s \in Sessions |-> Silent]

\* git status --porcelain -- wordlist.txt spell-sync.toml
Dirty == {f \in Tracked : work[f] # index[f] \/ index[f] # head[f]}

Saving == {"confirm", "add", "commit", "inspect_again", "push"}

Quiet(s) == UNCHANGED <<workspace, lock>>

\* The command ends and says what it has done (_finish, _fail): dirty is false in
\* what it says, so all the tracked files it has looked at are meant.
Says(s, m) ==
    said' = [said EXCEPT ![s] = [committed |-> IF m.committed THEN m.seen ELSE Nowhere,
                                 pushed |-> IF m.pushed THEN m.seen ELSE Nowhere]]
Ends(s, m) == End(s) /\ Says(s, m) /\ UNCHANGED <<index, head, remote, upstream>>

\* inspect_workspace_git; without a list, or a repository that can be inspected,
\* there is nothing to do.
Inspect(s) ==
    /\ \/ Asked(s, "save") \/ Asked(s, "save_push")
    /\ Quiet(s)
    /\ LET m == [NoMemo EXCEPT !.seen = work, !.dirty = Dirty, !.upstream = upstream] IN
         \/ ((work[Words] = NoFile /\ NoFault) \/ Fault) /\ Ends(s, NoMemo)
         \/ /\ NoFault /\ work[Words] # NoFile /\ Dirty # {}
            /\ Go(s, "confirm") /\ Knows(s, m) /\ UNCHANGED git
         \/ /\ NoFault /\ work[Words] # NoFile /\ Dirty = {}
            /\ \/ Head(plan[s]) = "save" /\ Ends(s, NoMemo)
               \/ Head(plan[s]) = "save_push" /\ Go(s, "push") /\ Knows(s, m) /\ UNCHANGED git

Confirm(s) ==
    /\ pc[s] = "confirm" /\ NoFault /\ Quiet(s)
    /\ \/ Go(s, "add") /\ UNCHANGED <<memo, git>>
       \/ Ends(s, NoMemo)

\* A version control command of s fails or is given up: it has no effect, or the
\* effect is there and nobody knows.
GivesUp(s) == Fault /\ End(s) /\ Says(s, memo[s])

Staged(F) == [f \in Files |-> IF f \in F THEN work[f] ELSE index[f]]

\* git add -- the dirty files
Add(s) ==
    /\ pc[s] = "add" /\ Quiet(s) /\ UNCHANGED <<head, remote, upstream>>
    /\ \/ index' = Staged(memo[s].dirty) /\ Go(s, "commit") /\ NoFault /\ UNCHANGED <<memo, said>>
       \/ index' \in {index, Staged(memo[s].dirty)} /\ GivesUp(s)

\* Mutant of Committed: everything staged is committed.
CommittedAll(F) == Staged(F)

\* What a commit of the files F makes of the last one: their content in the
\* folder, whatever else is staged.
Committed(F) == [f \in Files |-> IF f \in F THEN work[f] ELSE head[f]]

\* Mutant of Commit: a commit that fails is taken for one there was no need of.
CommitAnyway(s) ==
    /\ pc[s] = "commit" /\ Quiet(s) /\ UNCHANGED <<remote, upstream>>
    /\ \/ NoFault /\ head' = Committed(memo[s].dirty) /\ index' = Staged(memo[s].dirty)
       \/ Fault /\ UNCHANGED <<head, index>>
    /\ Go(s, "inspect_again") /\ Knows(s, [memo[s] EXCEPT !.committed = TRUE]) /\ UNCHANGED said

\* git commit -- the dirty files; one that changes nothing fails, a hook may
\* refuse it.
Commit(s) ==
    /\ pc[s] = "commit" /\ Quiet(s) /\ UNCHANGED <<remote, upstream>>
    /\ LET F == memo[s].dirty IN
         \/ /\ Committed(F) # head /\ head' = Committed(F) /\ index' = Staged(F) /\ NoFault
            /\ Go(s, "inspect_again") /\ Knows(s, [memo[s] EXCEPT !.committed = TRUE])
            /\ UNCHANGED said
         \/ Committed(F) = head /\ NoFault /\ Ends(s, memo[s])
         \/ head' \in {head, Committed(F)} /\ GivesUp(s)
            /\ index' = IF head' = head THEN index ELSE Staged(F)

\* The status is taken again, or the old one kept.
InspectAgain(s) ==
    /\ pc[s] = "inspect_again" /\ NoFault /\ Quiet(s)
    /\ IF Head(plan[s]) = "save_push"
       THEN Go(s, "push") /\ UNCHANGED <<memo, git>>
       ELSE Ends(s, memo[s])

\* _run_push: skipped without an upstream or a confirmation; the whole branch goes.
Push(s) ==
    /\ pc[s] = "push" /\ Quiet(s) /\ UNCHANGED <<index, head, upstream>>
    /\ \/ NoFault /\ End(s) /\ Says(s, memo[s]) /\ UNCHANGED remote
       \/ /\ memo[s].upstream /\ NoFault /\ remote' = head /\ End(s)
          /\ Says(s, [memo[s] EXCEPT !.pushed = TRUE])
       \/ memo[s].upstream /\ remote' \in {remote, head} /\ GivesUp(s)

\* The user changes another file of the repository and stages it.
UserStages ==
    /\ Saved("other") /\ index' = [index EXCEPT !["other"] = work'["other"]]
    /\ UNCHANGED <<head, remote, upstream, said>>

GitStep(s) == Inspect(s) \/ Confirm(s) \/ Add(s) \/ Commit(s) \/ InspectAgain(s) \/ Push(s)

-----------------------------------------------------------------------------

\* A commit takes the files its session has listed and the user has confirmed, and
\* nothing the user has staged meanwhile.
CommitsOnlyListed ==
    [][\A s \in Sessions : pc[s] = "commit" /\ pc'[s] # "commit" =>
          \A f \in Files : head'[f] # head[f] => f \in memo[s].dirty]_<<git, pc>>

\* What a report says is committed is in the repository, and what it says is
\* pushed is at the upstream - the content looked at or a newer one, however the
\* saves of two sessions and of an editor interleave and whichever command was
\* given up.
SaidIsSaved ==
    \A s \in Sessions : \A f \in Tracked : /\ head[f] >= said[s].committed[f]
                                           /\ remote[f] >= said[s].pushed[f]
=============================================================================

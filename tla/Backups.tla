------------------------------- MODULE Backups --------------------------------
(***************************************************************************)
(* atomic_write with its backup: the old content is copied beside the      *)
(* file, the chain .bak, .1.bak, .2.bak is shifted by single renames whose *)
(* errors are suppressed, the copy becomes .bak and the new content takes  *)
(* the file's place.  Every call may fail, and the process may die between *)
(* any two; an editor may save the file at any time.                       *)
(***************************************************************************)
EXTENDS WorkspaceFiles

VARIABLES
    bak,                 \* the backups: slot 0 is .bak, slot 1 is .1.bak, ...
    copy, slot,          \* the copy not yet in place; how far the shift has come
    slipped              \* a rename of this shift failed (auxiliary)

backups == <<bak, copy, slot, slipped>>

Slots  == 0 .. Keep - 1
Oldest == Keep - 1
Writing == {"copy", "drop", "shift", "place", "replace"}

InitBackups ==
    /\ bak = [i \in Slots |-> IF scene.used THEN Keep - i ELSE NoFile]
    /\ copy = NoFile /\ slot = 0 /\ slipped = FALSE

\* A collect has taken the lock and found the list unchanged; or it is refused.
BeginCollect(s) ==
    /\ Asked(s, "collect") /\ UNCHANGED <<workspace, backups>> /\ NoFault
    /\ IF lock = Free
       THEN /\ lock' = s /\ Go(s, "copy")
            /\ Knows(s, [NoMemo EXCEPT !.id = Identity("pull", work[Words], "completed")])
       ELSE End(s) /\ UNCHANGED lock

\* The write is refused: the collect fails and is not recorded.
Refused(s) == Fault /\ End(s) /\ LetGo(s) /\ UNCHANGED <<workspace, bak, slipped>>
              /\ copy' = NoFile /\ slot' = 0

\* Mutant of MakeCopy: an existing .bak is taken for a copy of the file.
MakeCopyOnce(s) ==
    /\ pc[s] = "copy" /\ NoFault /\ UNCHANGED <<workspace, lock, memo, bak>>
    /\ slipped' = FALSE /\ slot' = 0
    /\ IF Keep = 0 \/ work[Words] = NoFile \/ bak[0] # NoFile
       THEN Go(s, "replace") /\ copy' = NoFile
       ELSE Go(s, "drop") /\ copy' = work[Words]

\* create_bak_backup: nothing to keep, or a copy into a temporary sibling.
MakeCopy(s) ==
    /\ pc[s] = "copy"
    /\ \/ Refused(s)
       \/ /\ NoFault /\ UNCHANGED <<workspace, lock, memo, bak>> /\ slipped' = FALSE /\ slot' = 0
          /\ IF Keep = 0 \/ work[Words] = NoFile
             THEN Go(s, "replace") /\ copy' = NoFile
             ELSE Go(s, IF Keep = 1 THEN "place" ELSE "drop") /\ copy' = work[Words]

\* Mutant of DropOldest: the chain is taken to be one longer.
DropOneMore(s) ==
    /\ pc[s] = "drop" /\ UNCHANGED <<workspace, lock, memo, bak, copy, slipped>> /\ NoFault
    /\ slot' = Keep /\ Go(s, "shift")

\* rotate_backup_chain: the oldest goes, ...
DropOldest(s) ==
    /\ pc[s] = "drop" /\ UNCHANGED <<workspace, lock, memo, copy, slipped>>
    /\ \/ NoFault /\ bak' = [bak EXCEPT ![Oldest] = NoFile]
       \/ Fault /\ UNCHANGED bak
    /\ slot' = Oldest /\ Go(s, "shift")

Renamed(i) == [bak EXCEPT ![i] = bak[i - 1], ![i - 1] = NoFile]

\* Mutant of Shift: the chain is shifted from the newest on.
ShiftUpwards(s) ==
    /\ pc[s] = "shift" /\ UNCHANGED <<workspace, lock, memo, copy, slipped>> /\ NoFault
    /\ bak' = IF bak[Oldest - slot] = NoFile THEN bak ELSE Renamed(Oldest - slot + 1)
    /\ slot' = slot - 1 /\ Go(s, IF slot = 1 THEN "place" ELSE "shift")

\* ... then each of the others takes the place of the one before it.
Shift(s) ==
    /\ pc[s] = "shift" /\ UNCHANGED <<workspace, lock, memo, copy>>
    /\ \/ NoFault /\ bak[slot - 1] = NoFile /\ UNCHANGED <<bak, slipped>>
       \/ NoFault /\ bak[slot - 1] # NoFile /\ bak' = Renamed(slot) /\ UNCHANGED slipped
       \/ Fault /\ bak[slot - 1] # NoFile /\ UNCHANGED bak /\ slipped' = TRUE
    /\ slot' = slot - 1 /\ Go(s, IF slot = 1 THEN "place" ELSE "shift")

PlaceCopy(s) ==
    /\ pc[s] = "place"
    /\ \/ Refused(s)
       \/ /\ bak' = [bak EXCEPT ![0] = copy] /\ Go(s, "replace") /\ NoFault
          /\ UNCHANGED <<workspace, lock, memo, copy, slot, slipped>>

\* The new content, or the same one, takes the file's place; the collect is to
\* be recorded.
Replace(s) ==
    /\ pc[s] = "replace"
    /\ \/ Refused(s)
       \/ /\ NewContent(Words) \/ UNCHANGED workspace
          /\ Go(s, "record") /\ LetGo(s) /\ NoFault
          /\ copy' = NoFile /\ slot' = 0 /\ UNCHANGED <<memo, bak, slipped>>

Backup(s) == MakeCopy(s) \/ DropOldest(s) \/ Shift(s) \/ PlaceCopy(s) \/ Replace(s)

-----------------------------------------------------------------------------

Backed == {bak[i] : i \in Slots} \ {NoFile}

\* What a write replaces is in .bak - unless an editor saved the file after the
\* copy was made, which nothing can keep.
OverwrittenIsKept ==
    [][\A s \in Sessions : pc[s] = "replace" /\ pc'[s] = "record" /\ work[Words] # NoFile
          => \/ Keep = 0 \/ bak[0] = work[Words]
             \/ work[Words] > copy /\ work[Words] > memo[s].id[2]]_<<workspace, backups, pc, memo>>

\* However many writes are refused or die half-way, the chain stays ordered and a
\* backup is lost only when all that remain are newer - unless a rename fails,
\* after which the next one writes over the backup that stayed.
OnlyTheOldestGoes ==
    [][/\ \A v \in Backed \ Backed' : slipped \/ \A w \in Backed' : w > v
       /\ \A i, j \in Slots : i < j /\ NoFile \notin {bak'[i], bak'[j]} => bak'[i] >= bak'[j]]_backups
=============================================================================

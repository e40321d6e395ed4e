# spell-sync in TLA+

spell-sync keeps one personal word list in step with the custom dictionaries of
editors, browsers and office programs. *Update* ("push") writes the list's words
into every enabled dictionary; *Collect* ("pull") takes the dictionaries' words
back; *add*, *lint --fix* and the review of *extra words* change the list or
the dictionaries one word at a time. All of these are files that other programs
edit at the same time without any lock, and spell-sync itself may run several
times - a terminal interface and command lines. This directory holds TLA+
modules of the parts in which steps of several actors, failures and crashes
meet, the TLC configurations that check them, and TLAPS proofs.

Paths below are relative to `src/spell_sync/` unless they start with `docs/`.

## 1. The system

### Components, state, operations

| Component | State | Operations | What makes it correct | Modelled |
|---|---|---|---|---|
| Update execution: `push_prepared.py`, `push_setup.py`, `push_transaction.py`, `push_abort.py`, entry in `application/services/sync.py` | the prepared plan (fingerprints, rendered bytes); write state of each file | `prepare_push`, `execute_prepared_push`, `PushTransaction.begin/rollback/discard_snapshots`, `handle_failed_push_rollback` | all files or none; never over a change made after the plan | yes (`PushTransaction`) |
| Journal: `push_journal.py`, `journal_schema.py` on `secure_artifacts.py`, `trusted_internal_fs.py` | `.spell-sync.journal.json`, `.spell-sync.txn/<id>/` | begin, mark started / written, complete, mark incomplete, discard, load, plan | says before each write what recovery needs; never rejected as corrupt | yes (`PushJournal`) |
| Recovery: `application/services/recovery.py`, `application/recovery_preview_builders.py`, `recover_cmd.py` | the preview shown to the user | inspect, recover, discard inert / corrupt, clean up completed | restores exactly the files the push changed, keeps other people's edits, can be repeated | yes (`PushTransaction`) |
| Lock and guards: `operation_lock.py`, `application/mutation_scope.py`, `mutation_guards.py`, `runtime_identity.py` | flock on a lock file | acquire, probe, release; refuse while a journal is unfinished or settings changed | one command at a time per word list; always released | yes (`WordCommands`) |
| Word sets: `words.py`, `push_plan.py`, `removal_review.py` | none | union, subtract, merge, wipe guards | case folding, no word lost, first spelling wins | yes (`WordList`) |
| Collect, add, lint, extra words: `sync_run.py`, `application/wordlist_edit.py`, `application/extra_words.py`, preview builders | word list, dictionaries, previews | preview, check and write under the lock | no word lost but in named windows | yes (`WordCommands`) |
| Readers and writers: `read_outcome.py`, `push_render.py`, `dictionaries.py` | none | parse, render | round trip | outcomes only (data) |
| Atomic writes, backups: `io.py` | temp files, `.bak` chain | `atomic_write`, rotate | a file is old or new; the chain keeps order and content | yes (`Backups`) |
| History: `diagnostics/history_store.py`, `diagnostics/service.py`, `tui/screens/logs_screen.py` | operation history, its lock, a cache per process, rows of a screen | append, compact, clear, load and filter | no record vanishes or stands twice; the screen shows what it is asked for | yes (`OperationHistory`, `LogsScreen`) |
| Git save: `workspace_git.py`, `git_save_cmd.py` | Git's | inspect, confirm, add, commit, push | commits what was confirmed; says only what happened | yes (`GitSave`) |
| Setup: `project_setup/discovery.py`, `selection.py`, `prepare.py`, `execute.py` | configuration, word list, created files | discover, select, plan, create, undo | nothing of others replaced; nothing left of a failed setup | yes (`ProjectSetup`) |
| Applications (target settings): `project_setup/target_settings.py` | configuration file | load, switch, review, save, verify | keeps newer files and what the user did not switch | yes (`TargetSettings`) |
| Terminal interface: `tui/controller.py`, `tui/workers.py`, `tui/screens/*`, `application/review_session.py` | stack of screens, loads, previews, running operation, Review session | load, preview, confirm, run, report, go back | one operation at a time; no stale preview confirmed; a true report | partly (`SyncScreens`, `ReviewScreens`, `Terminal`) |
| Technical event log; health, doctor, support report; parsing and command line | reports, logs | read-only, append-only, or formatting | - | no |

### How they interact

A command takes the project lock, loads configuration and journal once
(`application/mutation_scope.py`), and refuses to go on while the journal is
unfinished unless it is `recover`. Then it runs as one sequential program until
it releases the lock. Previews are made *outside* the lock and meet it later:
they are checked again under it, by fingerprints of the files and of the
settings and by the digest of the journal. Other programs change files at any
time. Update and recovery communicate only through the disk: journal, snapshot
directory, and the files themselves. After a change a record is appended to the
history under a lock of its own, and a commit may save the workspace, under no
lock of spell-sync at all. The terminal interface runs previews in threads and
operations in workers, and carries previews from screen to screen.

### What is hard about it

`PROJECT.json` lists each hazard at its line. In short: a crash or a failing
step between any two of about fifteen persisted steps of an update; a rollback
or recovery interrupted and repeated; plans and previews made before files,
settings or the journal changed; several sessions beside each other; loads that
end out of order; a screen left while its thread runs; creating, replacing and
backing up several files in turn; commands of other programs given up half-way.

## 2. Modules

Four families. Each has a module of values for TLC (`MC...`).

| Module | What it is |
|---|---|
| `PushJournal` | the journal record, how it is judged when loaded, the recovery decision for each file and the action offered - operators only, a function of the disk |
| `PushTransaction` | the state machine: plan, push, abort, recovery, edits by others, crash; the properties |
| `AtomicUpdate` | the abstract specification: files change one at a time by edits or all at once by a commit |
| `PushTransaction_proofs`, `PushAtomic_proofs` | its theorems: write-ahead; all or nothing, no lost update |
| `WordList` | the word sets: keys, merge, subtraction, what a dictionary takes - operators only |
| `WordCommands` | several sessions that collect, update, add, lint, remove extra words, recover; the project lock; other programs; the properties |
| `WordCommands_proofs`, `WordsKept_proofs` | its theorems: the lock and the types; that no word is lost, and what a collect merges |
| `Applications` | discovery of dictionaries, the selection of applications, what a configuration enables - operators only |
| `ProjectFolder` | the files of the project, the stack of screens, the running operation: what the modules below share |
| `ProjectSetup`, `TargetSettings` | Start here and Applications: their screens and their operations |
| `SyncScreens`, `ReviewScreens` | collect, update, add and recovery by their own screens; the Review session that chains them |
| `Terminal` | composes the five; kill; the properties |
| `Terminal_proofs`, `Review_proofs` | its theorems: the types, one operation at a time, setup and saving; the screens, their previews and the Review session |
| `WorkspaceFiles` | the list's and configuration's content over time, the lock, sessions with a plan, faults |
| `Backups`, `OperationHistory`, `LogsScreen`, `GitSave` | one component each, with its properties |
| `Aftermath` | composes them |
| `Aftermath_proofs`, `History_proofs` | its theorems: types, locks, backups, git-save; the history and its screen |

`map` in `PROJECT.json` gives the lines behind each definition.

### Updates (`PushTransaction`)

- File `0` is the word list and `1..N` the dictionaries in the order the code
  walks them. A file's content is a model value and stands for its SHA-256, so
  a hash equals the content it is of. `None` is a missing file and Python's
  `None`; `Unreadable` a file that exists and cannot be read; `Torn` a file on
  which a copy stopped half-way.
- `disk`, `journal`, `dirs`, `snap` are what survives a crash. `dirs` are the
  transaction directories, `snap` the snapshots in each.
- `pc` is where the running command is; `"idle"` means that nobody holds the
  lock. `tx`, `work`, `cur`, `todo`, `undo`, `bad` are its memory: `work` is
  `PushJournalSession`'s journal object, `undo` the files whose `write_state`
  is no longer `NOT_STARTED`, `bad` the failed or conflicting ones.
- `plan` is `PreparedPush`, `preview` is `RecoveryPreview`; both are made without
  the lock and live on while files change. A plan takes four looks at the files:
  `ReadWords` (`sync_run.py:157-160`), `ReadTargets` (`setup_push`),
  `PlanRewrite` (`push_prepared.py:91`) and `HashList` (`:104`). Other programs
  edit in between. `plan.from` is the list whose words it has;
  `plan.read[Wordlist]` is the hash, `None` when the list was gone or unreadable by
  then, and `PlanConflict` does not compare the list in that case (`:110`).
- `commits` and `uncommitted` are auxiliary: which files hold bytes of a push
  that neither committed nor was undone.

An update runs `StartPush`, `BeginTransaction`, `JournalBegin`, `LateCheck`,
`MarkWordlist`, then for each file `NextTarget` (or `SkipRunning`), `WriteFile`,
`VerifyFile`, and `Complete`, `UnlinkIgnoringErrors`, `DiscardSnapshots`. Each
failure the code handles leads to `RollBack`, then `RollbackFile` / `CopyBack`
file by file and `EndRollback`, which either removes the journal and the
snapshots or keeps them (`MarkIncomplete`). Recovery runs `Inspect`,
`StartRecovery`, `CheckFile` / `ReplaceFile` per file, `EndRestore`,
`CleanupJournal`, `CleanupSnapshots`, or `ForgetJournal` for a corrupt journal.
`Crash` can follow any of them; it clears the command's memory and leaves the
disk as it is.

Steps that are coarser than the code: the dictionaries of a plan are read in one
step, all snapshots of a transaction are one
step, all `hash_before` of the journal are one step, a check and the journal
mark that follows it are one step, and a removal of a snapshot directory is one
step that may stop with any subset of the files left (a crash half-way leaves
the same disk). The application check, made once before the targets, may skip
any of them. The lock is mutual exclusion only; `WordCommands` looks into it.

Switches: `BenignEdits` = TRUE leaves out the changes by other programs that no
check-then-replace program can notice or that this one documents as unguarded: a
change of a file between its last check and its replacement (of a list that the
plan could not hash, from its snapshot on), a change of a file the running push has written and may roll back (rollback copies without
looking), a file that goes back to exactly the content recorded somewhere, and
the deletion of a file whose write is announced, in the journal on disk or in the
command's own record: a mark that could not be saved stays in memory, and the
next save of the journal writes it (`push_journal.py`). It is needed for "no
change of another program is undone" (`IsAtomicUpdate` with edits,
`NoLostUpdate`).
`TornCopies` lets a rollback copy stop after truncating its target. `LateFsync`
lets a journal write fail after its rename (the directory fsync).

### Sessions (`WordList`, `WordCommands`)

- A word is normalized; `casefold` gives its key, and two spellings with one key
  are one word to every operator. Where the code walks a Python set and the
  first spelling wins, the operator returns the set of all results.
- `view[s]` is what session `s` holds: the words it read, the list's hash, the
  dictionaries read, settings and digest of the configuration, and what it is
  about to write. Each look at a file that another may change in between is a
  step: `BeginPull` (words), `PullSources`, `PullHash` are three. `Acquire` is
  the flock and what `mutation_scope_for` and the runtime check look at under
  it; `Refuse` is any of them failing; `Stop` ends a command that found a
  conflict or could not write; `Probe` / `EndProbe` is
  `read_active_operation_lock`, which takes a free lock to learn that it is free.
- An update's write phase is one step with four outcomes - dry run, done,
  rolled back, unfinished with a journal -, which is what `PushTransaction`
  shows of it. Journals are compared by content instead of by digest; which
  actions a journal offers is left to `PushTransaction`.
- `late[s]` is auxiliary: the words that came into a file while `s` was between
  two looks at it. The properties except exactly these, so they name the
  windows the code leaves open.
- The extra-words review belongs to terminal interfaces (`Screens`), lint to
  command lines.

Bounds: two sessions, a terminal interface (`s1`) and a command line (`s2`), two
dictionaries (one takes all words, one filters), three words of which two have
one key, two usable configurations and a blocking one, two commands and one edit
by another program. The commands are any two of the five kinds (collect, update,
extra words, add, lint), of one session or of both; recovery and probes are not
counted and may repeat.

### The terminal interface (`Applications` ... `Terminal`)

- `stack` is Textual's stack of screens; `op` is the operation of the operation
  screen with its phases (worker started, steps of setup and settings, ended);
  `mutation` is the controller's "operation active" flag. `load[i]` is a preview
  thread: reading, result set, result delivered to its screen. `session` is
  `ReviewSession`, `pull` / `push` are the previews the screens hold.
- Setup and settings are steps as fine as their files: `ProjectSetup` plans,
  looks again under the lock, creates each file, undoes each; `TargetSettings`
  reads the configuration, hashes it, checks, writes, verifies. Collect, update
  and recovery are one step each here; their insides are the families above.
- `slipped` marks files that another program changed in a window in which the
  running operation does not look.
- Confirmation screens are part of the `Run...` actions that follow them (the
  typed word of a recovery included). One variable stands for the preview a
  recovery screen shows and the one it will run. A second press of Create opens
  `Busy`. Quitting and being killed are both `Stop`.

Two applications, one with two dictionaries, and three folders to begin in: an
empty one, and two projects whose second application may come (not found when the
program starts) or go. Two words; two preview threads; one change by another program; at most two changes by this
terminal (a fresh folder spends one of them on its setup), which lets a review
collect and then update, or an update follow a saved setting. Other programs
change files, and screens are opened, only while `changes < MaxChanges`; memory
that no screen reads any more is reset when a report or a screen is left.
Applications is opened only while no preview loads. Deadlock is not checked: the
bounds may be spent.

### After a change (`WorkspaceFiles` ... `Aftermath`)

- Content is the number of the save that made it. `bak` is the chain `name.bak`,
  `name.1.bak`, ..., `copy` the temporary sibling; `hist` the lines of the history
  file, `torn` a last line without its end, `memo[s]` what a process remembers
  of what it recorded; `index`, `head`, `remote` are Git's.
- `Backup` runs copy, drop, shift, place, replace, each of which may fail or be
  the last. `Recorder` takes the history lock, reads, appends, compacts.
  `LogsStep` is the Logs screen with its numbered loads; `Thread` a loading
  thread. `GitStep` is git-save with its commands, each of which may fail or be
  given up with or without effect.
- The project lock protects the backup chain. git-save takes no lock. A failing
  collect of the command line is not recorded; the terminal interface records
  it.

Every session has a plan of commands; the eight scenes of `MCAftermath` say which
plans run side by side and bound the saves of an editor and the faults: two
collects beside a third, with an old history to compact; logs opened and cleared
beside a recovery; saves to Git by two sessions beside an editor. `Keep` 3 is the
shortest chain in which shifting has an inner slot, `MaxRecords` 2 lets the
history overflow, `Limit` is the rows a screen loads, `MaxLoads` 4 lets a load be
overtaken more than once. Deadlock is not checked: plans end.

## 3. What the runs check

| Run | Shows |
|---|---|
| `push_hostile` | one arbitrary edit at any moment, unreadable files, torn copies, two faults and a crash: `TypeOK`; `WriteAhead` - uncommitted bytes are always announced in the journal with a snapshot to undo them; `NoSilentPartial` - while there are some, every command but recover is refused; `JournaledWritesOnly` - no step of a command touches a file the journal does not announce; `CommandsEnd` - a command ends and releases the lock |
| `push_atomic` | two benign edits, which may remove a file, bring it back or make it unreadable, a fault, a crash: `IsAtomicUpdate` - the run refines `AtomicUpdate`; `NoLostUpdate` - a write replaces only the content the plan is based on, windows apart |
| `push_repeated` | two dictionaries, a fault, two crashes, no edits: `IsAtomicUpdate` without any assumption on the environment; `ConflictsAreExternal` - the program never leaves a file that its recovery takes for somebody else's edit |
| `sessions` | two sessions beside another program: `Exclusive` - one at a time inside the lock; `CollectIsStepwise` - the merge is what the loop over the dictionaries makes; `ListKeepsItsWords`, `UpdateRemovesOnlyShown`, `ExtraKeepsTheRest` - what a command may remove, windows apart; `BlockedWhileUnfinished` - only the recovery that has shown an unfinished update acts on it; `DisabledStays` - no command writes a dictionary that the configuration at its lock disables; `LockIsReleased` |
| `terminal` | any way through the screens: `OneAtATime`, `PreviewsAreFresh`, `ReviewEnds`, `MatchedIsTruthful`, `OperationsEnd`; setup: `SetupKeepsOthersFiles`, `FailedMeansUntouched`, `ResumableSetup`; settings: `UntouchedStay`, `NewerConfigKept`, `CompletedMeansSaved` |
| `aftermath` | backups: `OverwrittenIsKept`, `OnlyTheOldestGoes`; history: `InOrder`, `RecordsStay`, `RecordingEnds`; its screen: `RowsMatchFilter`, `ClearedStaysAway`; Git: `CommitsOnlyListed`, `SaidIsSaved` |

The refinement of `push_atomic` maps a file to its *effective* content: what
recovery will give back while an unfinished journal covers it, what is on disk
otherwise. So the write of a file changes nothing abstractly, `Complete` changes
all written files at once, and rollback, crash and recovery must change nothing.

For updates, `N = 1` gives a word list and one dictionary, which is already a
partial update; `N = 2` (`push_repeated`) adds a file that was not reached and
rollback order among dictionaries. One fault and one crash cover the failure of a
step and a stop in what handles it, two faults (`push_hostile`) the failure of
both; `push_repeated` has two crashes, so that
a recovery of an interrupted rollback is interrupted too. The two edits of
`push_atomic` let a list go while the plan is made and come back before the
write. Two transaction identifiers suffice for the current and one leftover
transaction (uuid4 never repeats); they are interchangeable, which the two runs
without a liveness property use as a symmetry, and `push_hostile`, whose liveness
property a symmetry could hide, by giving them out in order
(`OrderedFairSpec`). One push is planned until one commits, so an aborted or
recovered push can be followed by another. Deadlock is not checked in any run: once every bound
is spent and nothing is left to recover, the system may stop.

Six runs check what a document or a comment of the repository says and find it
does not hold; each is a few steps long and is described under `findings`:

- `created_files`: recovery refuses a journal whose push created a dictionary.
- `quiet_journal`: after a crash between the first mark and its write the
  journal can be neither recovered nor discarded.
- `false_corrupt`: an abort that cannot remove the journal removes the snapshots
  all the same, and the journal is then corrupt.
- `torn_rollback`: an interrupted rollback copy is taken for an external edit.
- `late_finalize`: a journal write that fails after its rename leaves COMPLETED
  over a push that is being rolled back.
- `absent_apps`: an enabled application whose dictionaries are not found while
  Applications opens, and are found again at the review, is written false.

Because of the two before it, `TornCopies` is FALSE where `ConflictsAreExternal` and
`IsAtomicUpdate` are checked, and `LateFsync` is FALSE except in
`late_finalize`: with it, `WriteAhead` does not hold. So `CommandsEnd` is not
checked with it; such a failure takes the command the way a failed write does.

### What the properties except

A property that holds except in a window names the window, and each is the
code's own:

- `ListKeepsItsWords`: words saved between two looks at the list. Collect reads
  the words before it takes the hash (`application/push_pull_preview_builders.py:186`),
  so a word saved in between is in the hash and not in the merge, and is lost;
  the check under the lock does not see it.
- `NoLostUpdate`: a list changed between the reading of its words and that of its
  hash (`sync_run.py:159`, `push_prepared.py:104`) - what was hashed is written
  over with the older words -, and a list that was gone or unreadable when it
  should have been hashed, whatever is there when it is written
  (`:110`). `UpdateRemovesOnlyShown` has the same windows, seen from the words.
- `UntouchedStay`: an application that had no row when Applications was opened and
  can be switched at the review (the subject of `absent_apps`); one whose setting
  another program changed between the two.
- `NewerConfigKept`: a configuration saved between the review's reading and its
  hash (`project_setup/target_settings.py:362`).
- `MatchedIsTruthful` counts changes from the preview the report rests on. That
  may not be the preview the user saw: a load of a Review screen that was left
  still writes `session.push_preview` (`tui/controller.py:867`), although
  `application/review_session.py:85` and `:121` describe it as the current one.
- `OnlyTheOldestGoes`: a rename of the chain that fails is ignored and the next
  one writes over the backup that stayed (`io.py:206`).
- `RecordsStay`: a line without its end, left by a short `os.write`, is reported
  as saved and takes the next record with it (`diagnostics/history_store.py:129`).

Met while modelling, true in the model, and no property's subject:

- a collect with a skipped source is reported as failed
  (`application/operation_reports.py`), and an update that wrote nothing as
  having restored files;
- the history has no time in its identity, so a second recovery, or a collect
  that ends with the same list, counts as recorded already; and a session's own
  memory answers "duplicate" after another session cleared the history;
- a filter chosen in the Logs screen before its first load is shown and not
  applied;
- `[io] backup_keep` reaches an update's writes only, other commands keep three;
- after a partial failure of removing extra words the retry finds its own
  change and always conflicts;
- a dictionary that is empty or unreadable when Applications is saved loses its
  exclusion, although a comment in `project_setup/target_settings.py` says that
  exclusions are kept.

### Fairness

- `PushTransaction`: weak fairness of `CommandStep`, the next step of the running
  command. A command is a sequential program that holds the lock and waits for no
  other one, so it runs unless the process dies, and then `Crash` ends it.
- `WordCommands`: weak fairness of `Act(s)`, a session's steps under the lock,
  for the same reason.
- `Terminal`: weak fairness of the operation's worker and of `OperationEnds`, the
  interface's reaction to its end: threads and the event loop of a running
  program. Preview threads need not end.
- `Aftermath`: weak fairness of `Works(s)`, the steps of a session that no user
  decides, waiting for the history lock included: who waits is blocked in `flock`
  until the kernel grants it. Weak is enough, since the plans, being finite, let
  the lock go for good.

Nothing is assumed of users, other programs or faults: that a plan is executed, a
journal recovered or a preview confirmed is not claimed.

## 4. What is proved

Checked by tlapm with Z3, Zenon and LS4, for every value of the constants.

`PushTransaction_proofs`, for any number of dictionaries, contents, transaction
identifiers, edits, faults and crashes:

- `TypeCorrect`: `Spec => []TypeOK`.
- `WriteAheadHolds`, `NoSilentPartialHolds`, `JournaledWritesOnlyHolds`:
  under `LateFsync = FALSE`.

The assumptions are `ValuesAssumption`, `NoJournalAssumption`,
`EnvironmentAssumption` (the special values are distinct, the constants have
their types), which TLC evaluates in every run. No assumption is made on edits
(`BenignEdits` and `TornCopies` are arbitrary).

The invariant `IInv` has seven parts. `WriteAhead` alone is not inductive: it says
nothing about what the running command is about to do. `JournalCore` ties the
journal on disk to the snapshots (what is started and existed has its pre-image in
the transaction's directory), `QuietInv` says what an idle program may have left
behind, and `BeginInv`, `WritingInv`, `RollingBackInv`, `RecoveringInv` say for
each phase how the command's own journal (`work`), its lists (`todo`, `undo`,
`bad`) and the uncommitted files relate to the journal on disk: while writing,
`work` is the journal on disk and every uncommitted file is in `undo`; while
rolling back, every uncommitted file is still to be treated or is in `bad`; while
recovering, every uncommitted file is still to be treated or keeps the journal.
One lemma per action (`Inv...`) shows that the action preserves `IInv`, `InvNext`
collects them, and `InvAlways` closes the induction.

`PushAtomic_proofs` extends it, where rollback copies are not left half-way
(`TornCopies = FALSE`):

- `ConflictsAreExternalHolds`, for any edits.
- `NoLostUpdateHolds`, under `BenignEdits`, with the two windows above as
  exceptions and no other premise: also for a plan whose list went missing.
- `PushIsAtomic`: `Spec => IsAtomicUpdate`, under `BenignEdits` or without edits;
  the initial states map to initial states and every step to one of `AtomicUpdate`
  or to a stutter.

The three hypotheses are those the runs make, and the runs `torn_rollback` and
`late_finalize` show that the first two cannot be left out. `IInv` does not say
what the files contain; `AtomicInv` adds it phase by phase. A file of the journal
is *settled* when it holds what it held before the push or what another program
put there: then forgetting its record changes nothing. `SnappedInv` and
`WrittenInv` tie snapshots and hashes to the plan as long as the file holds what
the plan read; `UndoneInv` and `RestoredInv` say that every file is settled or
still to be treated, or could not be and keeps the journal; `SettledInv` that all
are once the journal is about to go; `KnownInv`, of files nobody edits, that they
hold what the journal knows. The proof found an edit that `BenignEdits` had not
named, the one of the unsaved mark above.

`WordCommands_proofs`, for any number of sessions, words, dictionaries,
configurations, commands and edits, from `WordAssumption` and
`CommandAssumption` (types of the constants, the marks of unreadable and missing
files are no words, `Free` is no session), which TLC evaluates in `sessions`:

- `ExclusiveHolds`, `BlockedHolds`. Forty actions are five kinds
  of step: a session goes on outside the lock, takes it, goes on inside, leaves
  it, or another program acts (`StepKinds`). The inductive invariant `LockInv` -
  the lock is held exactly by who is inside; nobody is inside beside an
  unfinished update but to recover it, and who recovers has shown it - is kept by
  each kind. `Exclusive` needs the equivalence: from `pc[s] \in Locked => lock = s`
  alone it does not follow that a free lock means that nobody is inside.
- `DisabledStaysHolds`. Between the reading of the settings and that of the
  configuration's fingerprint the configuration may change, so the fingerprint
  alone, which is still right at the lock, says nothing of the settings
  (`UnderSettings`): who is inside the lock has the settings of the fingerprint,
  and the dictionaries still to be written are among those it enables.
- `TypeOKHolds`, with `Chosen` beside it: a session that reads or writes a
  dictionary still has one to do, so that the first of them exists.

`WordsKept_proofs` extends it:

- `ListKept` (`ListKeepsItsWords`). The invariant `Kept` says of each session what
  it has of the list: in a window the words of the list but the late ones, after
  its preview the words of the hash it will compare, and for an update that
  found no list to hash the words of the list still. A session's own steps keep
  it action by action; the others' because whoever changes the list adds the
  new words to `late` of every session that is not looking (`Told`).
- `OnlyShownRemoved` (`UpdateRemovesOnlyShown`), from `Kept` and the update's
  conflict check.
- `RestKept` (`ExtraKeepsTheRest`). `Spared`: who removes words has the
  dictionary's words but the late ones and rejects none that were kept; the lock
  keeps other sessions from the dictionaries meanwhile (`LockInv`).
- `CollectIsStepwiseHolds`. `Collected` says in one set which merges a preview may
  make; the code makes them dictionary by dictionary (`Stepwise`). What is in the
  result of `n + 1` dictionaries in a spelling that `n` of them have is a result of
  those `n` (`MergeSplits`), and what the next one adds to such a result is one of
  `n + 1` (`MergeGrows`); the rest is an induction over the dictionaries
  (`LoopResult`), by the least counterexample as in `History_proofs`.

`Aftermath_proofs`, for any sessions with any plans, any length of the chain, bounds
of the history, faults and saves, from `WorkspaceAssumption` and
`HistoryAssumption`, which TLC evaluates in `aftermath`:

- `TypeCorrect`.
- `CommitsOnlyListedHolds`, `SaidIsSavedHolds`. Content only moves forward: what
  is at the remote is no newer than what is committed, that no newer than what is
  staged, that no newer than the file (`GitOrder`). So whatever a session saw and
  found committed stays committed while others stage and commit (`SaveInv`).
- `OverwrittenIsKeptHolds`, `OnlyTheOldestGoesHolds`. `ChainInv`: the chain is
  ordered and not newer than the file, and the slot being shifted is free. Only
  the holder of the project lock moves it (`LockInv`, for both locks).

`History_proofs` extends it: `InOrderHolds`, `RecordsStayHolds`,
`RowsMatchFilterHolds`, `ClearedStaysAwayHolds`. `HistoryInv` orders the lines of
the file and says that a compaction about to be put in place is still one of the
file as it stands; `LogsInv` that the load the screen waits for was made for its
filter and that no load under way has rows that were cleared. Reading the file
selects lines one by one (`Picked`, a recursive function); what such a selection
returns is an induction over its length, which no induction theorem of the library
can be used for (they take an operator), and which `Induction` replaces: a set of
counterexamples would have a least element (`WFMin`).

`Terminal_proofs`, for any applications, dictionaries, words, preview threads and
changes, from `ApplicationAssumption`, `ProjectAssumption`, `SlotAssumption` and
`BegunAssumption` (the folders a session may begin in have the types of their
files), which TLC evaluates in `terminal`:

- `TypeCorrect`, `OneAtATimeHolds`. `TerminalInv`: the types, and the running
  operation is marked and covers every other screen; nothing but the screen that
  says it is busy comes over it. Without the second part a press on a screen
  beneath could start another operation.
- `SetupKeepsOthersFilesHolds`, `FailedMeansUntouchedHolds`,
  `ResumableSetupHolds`. `SetupInv` follows what is created and undone: files are
  created list first and removed list last, what is left to create is not there or
  came meanwhile (`slipped`), what was created is gone, changed by others, or
  still to be removed.
- `NewerConfigKeptHolds`, `CompletedMeansSavedHolds`, from `SaveInv`: the file
  about to be replaced is the one that was hashed, the one to verify the one
  written, or another program came in between.

`Review_proofs` extends it:

- `ReviewEndsHolds`. `ScreenInv` is about the whole stack of screens: which screen
  may stand on which (`Upon`); that a Review session, Applications and Start here
  have nothing but their own screens above the one they begin with; that a session
  is open exactly while its first screen stands; and on whose screens an operation
  runs. The property names four screens; that one of them stands is inductive only
  with the order of all of them, since a screen that is closed uncovers the next.
- `UntouchedStayHolds`. `SettingsInv`: from opening to writing, what is selected of
  the applications with a row is what was enabled at the opening, but for those the
  user has switched; what can be switched has a row (`OpenHaveRows`).
  What becomes of both at the review depends on what is found then, not on what was
  found before, so edits need no premise.
- `PreviewsAreFreshHolds`. `FreshInv`: the preview a screen of collect or update
  shows was made after the last change, or the screen will load anew before it can
  be confirmed; a thread that is waited for is the only one, its screen is on top
  and shows nothing, and what it has read has not been changed since (`LoadInv`).
  Only the operation screen and Add words change files, and neither is on top
  while a thread is waited for. Threads whose screen is gone are not bound by it,
  so their number and speed do not matter.
- `MatchedIsTruthfulHolds`. The report says that the lists match when the update
  was completed or when the session's preview has nothing to update. `ReportInv`
  follows both. An update that completes without leaving anything out makes the
  dictionaries equal to the list, and they stay so until an edit (`UpdatedInv`).
  A preview of the last change and the last edit is what is in the files
  (`CurrentInv`), whoever holds it: the screen, a thread, or a thread whose screen
  is gone. Such a late thread may put a newer preview into the session than the one
  on the screen; `OrderInv` says that it was then read after the last change too,
  so when it is clean the lists do match, whatever the screen shows (`CleanInv`).
  Start here and Applications change the files without an edit being counted;
  `CalmInv` says that no thread is about while they do.

Every lemma about all steps (`FolderMoves`, `ScreenMoves`, `SettingsSteps`,
`PreviewMoves`, `StartsAre`, `LoadMoves`, `ShownMoves`, `SessionMoves`) has one
case per action and reduces the actions to the few things they do to the state the
lemma is about; the invariants are then kept by each of these.

Only model-checked: liveness (`CommandsEnd`, `LockIsReleased`, `OperationsEnd`,
`RecordingEnds`), out of the prover's reach.

## 5. Not modelled

- Parsing and rendering of dictionaries, encodings, checksums and the mkspell
  call: a matter of characters within one sequential call.
- Journals of another schema version and snapshot paths outside the project (the
  program never writes them; every command refuses them); path trust checks;
  permission bits and ownership; creating directories.
- Power loss that undoes a rename (the code syncs files and directories,
  docs/RECOVERY.md claims process-crash safety only).
- Of the terminal interface: opening another project, storage strategies, the
  extra-words screen (its commands are in `WordCommands`) and git-save's screen
  (in `GitSave`); a completed journal's clean-up, wipe guards and strict updates
  (in `PushTransaction` and `WordCommands`); a lock held by another process;
  status, health, help and detail screens, which only read; exports.
- The technical event log, which nothing reads back; health, doctor and support
  report; the process table behind the running-application check.
- Of Git: what other users do but stage a file; merges, hooks, and a command's
  inside.
- Controller functions that nothing calls
  (`refresh_setup_target_discovery`, `refresh_target_settings_discovery`), and
  `SyncRun.push_from_wordlist` outside of dry runs.
- Messages, exit codes, wording.

## 6. Plan

Done: the four families above and their runs; the theorems of section 4.

Left: the parts of the terminal interface that section 5 lists; no safety property
a run checks is without a theorem.

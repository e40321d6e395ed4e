SPECIFICATION OrderedFairSpec
CONSTANTS
  old = old
  new = new
  ext = ext
  t1 = t1
  t2 = t2
  None = None
  Unreadable = Unreadable
  Torn = Torn
  NoJournal = NoJournal
  NoPlan = NoPlan
  NoPreview = NoPreview
  NoTx = NoTx
  Content <- MCContent
  Initial <- MCInitial
  Rendered <- MCRendered
  TxIds <- MCTxIds
  EditValues <- MCEditsUnreadable
  N = 1
  BenignEdits = FALSE
  TornCopies = TRUE
  LateFsync = FALSE
  MaxEdits = 1
  MaxFaults = 2
  MaxCrashes = 1
  MaxCommits = 1
INVARIANTS TypeOK WriteAhead NoSilentPartial
PROPERTIES JournaledWritesOnly CommandsEnd
CHECK_DEADLOCK FALSE

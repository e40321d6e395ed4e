SPECIFICATION Spec
CONSTANTS
  old = old
  new = new
  ext = ext
  t1 = t1
  t2 = t2
  None = None
  Unreadable = Unreadable
  Torn = Torn
  NoJournal = NoJournal
  NoPlan = NoPlan
  NoPreview = NoPreview
  NoTx = NoTx
  Content <- MCContent
  Initial <- MCInitial
  Rendered <- MCRendered
  TxIds <- MCTxIds
  EditValues <- MCEditsUnreadable
  N = 1
  BenignEdits = TRUE
  TornCopies = FALSE
  LateFsync = FALSE
  MaxEdits = 2
  MaxFaults = 1
  MaxCrashes = 1
  MaxCommits = 1
PROPERTIES IsAtomicUpdate NoLostUpdate
CHECK_DEADLOCK FALSE
SYMMETRY TxSymmetry

SPECIFICATION FairSpec
CONSTANTS
  s1 = s1
  s2 = s2
  Free = Free
  Sessions <- MCSessions
  Scenes <- MCScenes
  OldHistory <- MCOldHistory
  Recoveries <- MCRecoveries
  Keep = 3
  MaxRecords = 2
  Limit = 2
  MaxLoads = 4
INVARIANTS TypeOK InOrder RowsMatchFilter ClearedStaysAway SaidIsSaved
PROPERTIES OverwrittenIsKept OnlyTheOldestGoes RecordsStay CommitsOnlyListed RecordingEnds
CHECK_DEADLOCK FALSE

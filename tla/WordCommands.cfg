SPECIFICATION FairSpec
CONSTANTS
  a = a
  A = A
  b = b
  ka = ka
  kb = kb
  s1 = s1
  s2 = s2
  c1 = c1
  c2 = c2
  bad = bad
  NoFile = NoFile
  NoText = NoText
  Free = Free
  NoJournal = NoJournal
  NDicts = 2
  GuardListMax = 1
  GuardLocalMin = 2
  MaxEdits = 1
  MaxCommands = 2
  Key = {ka, kb}
  Word <- MCWord
  casefold <- MCCasefold
  filter <- MCFilter
  Sessions <- MCSessions
  Screens <- MCScreens
  Config <- MCConfig
  BadConfig <- MCBadConfig
  enabled <- MCEnabled
  InitialLists <- MCInitialLists
  InitialDicts <- MCInitialDicts
  EditLists <- MCEditLists
  EditDicts <- MCEditDicts
  Typed <- MCTyped
INVARIANTS TypeOK Exclusive CollectIsStepwise
PROPERTIES ListKeepsItsWords UpdateRemovesOnlyShown ExtraKeepsTheRest BlockedWhileUnfinished DisabledStays LockIsReleased
CHECK_DEADLOCK FALSE

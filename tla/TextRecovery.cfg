SPECIFICATION RecoverySpec
CONSTANTS
  d1 = d1
  d2 = d2
  Doc = {d1, d2}
  Lens = {0, 1, 2}
  CreateMax = 2
  OpenMax = 1
  MaxStores = 3
  NoText = NoText
  Corrupt = Corrupt
  BackupFirst = TRUE
  Conservative = TRUE
  IssueShare = 2
  MaxBackups = 1
  MaxAge = 1
  Limit <- Limits
  MaxTime = 1
SYMMETRY Symmetry
INVARIANTS
  FilesHold
  OpensUnlessRebuilt
  RebuildIsBackedUp
CHECK_DEADLOCK FALSE

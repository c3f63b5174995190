SPECIFICATION Spec
CONSTANTS
  d1 = d1
  d2 = d2
  Doc = {d1, d2}
  Key <- Keys
  DocOf <- DocOfKey
  Calls <- Batches
  Replacements <- OneReplacement
  MaxOps = 4
  MaxReplaced = 1
  MaxOpens = 2
  ShardSize = 4
  RecoverySize = 5
  Failures = TRUE
INVARIANTS
  LogFirst
  ConvergesToLog
  FlushedSurvives
CHECK_DEADLOCK FALSE

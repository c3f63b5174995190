SPECIFICATION Spec
CONSTANTS
  t1 = t1
  t2 = t2
  s1 = s1
  s2 = s2
  NoText = NoText
  NoFile = NoFile
  NoAnswer = NoAnswer
  AtRest = AtRest
  Closed = Closed
  Free = Free
INVARIANTS
  
  AnswersAreBest
  LiveExtracts
  PoolsAndPatterns
  BatchHolds
  MaintenanceHolds
PROPERTIES
  StoreIsWhole
CHECK_DEADLOCK FALSE

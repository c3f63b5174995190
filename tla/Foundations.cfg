SPECIFICATION Spec
CONSTANTS
  w1 = w1
  w2 = w2
  NoWriter = NoWriter
  Nil = Nil
  NoFile = NoFile
  NoReport = NoReport
  AtRest = AtRest
INVARIANTS
  SegmentHolds
  SettingsHold
  VerdictsHold
  StatisticsAgree
PROPERTIES
  RepairSparesSound
CHECK_DEADLOCK FALSE

SPECIFICATION Spec
CONSTANTS
  Torn = Torn
  NoConfig = NoConfig
  Config <- Settings2
  MaxKills = 2
  MaxFails = 1
  MaxTexts = 1
  MaxUpdates = 3
INVARIANTS
  ConfigRecoverable
  RefusedIsDetected
  TextsSurvive
CHECK_DEADLOCK FALSE

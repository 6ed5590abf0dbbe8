SPECIFICATION RecallSpec
CONSTANTS
  Turn = {t1}
  Exchange <- OwnerOnly
  NoEpisode <- NoLevel
  NoVector <- NoLevel
  MaxLevel = 1
  MaxRecords = 1
  MaxUnits = 2
  MaxTime = 3
  MaxDelay = 1
  Idle = 2
  MaxTurns = 1
  MaxBytes = 10
  KeepEligible = 3
  KeepIneligible = 3
  MaxTotal = 9
  MaxAttempts = 1
  RecallSwitch <- On
PROPERTY RecalledIsNormal

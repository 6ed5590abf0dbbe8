SPECIFICATION FairSpec
CONSTANTS
  Turn = {t1}
  Exchange <- OwnerAndVisitor
  NoEpisode <- NoLevel
  NoVector <- NoLevel
  MaxLevel = 0
  MaxRecords = 2
  MaxUnits = 3
  MaxTime = 4
  MaxDelay = 1
  Idle = 2
  MaxTurns = 1
  MaxBytes = 10
  KeepEligible = 3
  KeepIneligible = 3
  MaxTotal = 9
  MaxAttempts = 2
  RecallSwitch <- On
PROPERTY EveryRecordIsSettled

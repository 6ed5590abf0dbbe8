SPECIFICATION Spec
CONSTANTS
  Turn = {t1, t2}
  Exchange <- OwnerAndVisitor
  NoEpisode <- NoLevel
  NoVector <- NoLevel
  MaxLevel = 1
  MaxRecords = 2
  MaxUnits = 4
  MaxTime = 5
  MaxDelay = 1
  Idle = 2
  MaxTurns = 2
  MaxBytes = 10
  KeepEligible = 1
  KeepIneligible = 0
  MaxTotal = 2
  MaxAttempts = 1
  RecallSwitch <- On
SYMMETRY TurnSymmetry
INVARIANT SegmentIsOneConversation
INVARIANT UnitsHaveTheirRecord
INVARIANT DiaryProtectsTurns
INVARIANT VectorsFollowUnits
PROPERTY ClosedIsFinal
PROPERTY PurgeSparesTheOwner

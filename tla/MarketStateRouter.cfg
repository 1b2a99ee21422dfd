SPECIFICATION MCSpec
CONSTANTS
  Confirmations = 2
  MinDuration = 2
  MaxGap = 2
  FeatureMaxAge = 1
  HealthMaxAge = 0
  Stabilization = 1
  ShockWindow = 2
  TrendMultiplier = 4
  ChopMultiplier = 2
  HighVolMultiplier = 1
  DayLength = 8
  Session <- MCSession
  None = None
  MaxTime = 12
CHECK_DEADLOCK FALSE
INVARIANTS TypeOK SessionsStartClosed BlockingEvidenceBlocks PendingGrantsLess
PROPERTY OrdinaryMovesAreConfirmed

SPECIFICATION MCFeedSpec
CONSTANTS
  Observation <- MCObservation
  Session <- MCSession
  Window <- MCWindow
  Minute = 1
  BucketMinutes = 2
  GapPercent = 10
  BurstLimit = 10
  None = None
  MaxTime = 5
  MaxBars = 4
  a = a  b = b
  Instrument = {a, b}
  StaleAfter = 1
  MaxAttempts = 2
  Unset = Unset
  MaxWall = 3
INVARIANTS FeedTypeOK ReadyIsFinal VerdictsAgree RetriesAreBounded
PROPERTY FutureChangesNothing RecoveryHasNewSnapshots
CHECK_DEADLOCK FALSE

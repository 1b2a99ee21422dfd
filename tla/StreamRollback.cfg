SPECIFICATION MCStreamSpec
CONSTANTS
  a = a  b = b
  Instrument = {a}
  StaleAfter = 1
  MaxAttempts = 2
  Unset = Unset
  MaxWall = 4
PROPERTY RecoveryHasNewSnapshotsAlways

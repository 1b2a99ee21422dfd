SPECIFICATION MCDeskSpec
CONSTANTS
  DayTicks = 20
  Absent = Absent
  Registry <- MCRegistry
  ScoreUnit = 4
  One = 100
  Quantum = 10
  Caps <- MCCaps
  Master <- MCMaster
  Universe <- MCUniverse
  DeskCalendar <- MCCalendar
  Instant = {23, 24, 25, 43}
  Request <- MCRequest
  Outlook <- MCOutlook
  Supply <- MCSupply
  MaxBatch = 3
CHECK_DEADLOCK FALSE
INVARIANT IdentityIsReproducible

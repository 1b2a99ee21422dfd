SPECIFICATION FairSpec
CONSTANTS
  t1 = t1  t2 = t2  p1 = p1  p2 = p2
  i1 = i1  i2 = i2  i3 = i3  k1 = k1  k2 = k2  k3 = k3
  bar1 = bar1  bar2 = bar2  scope = scope
  Thread = {t1, t2}
  Process = {p1}
  ProcessOf <- TwoThreads
  Submission <- TwoSubmissions
  EventId = {i1, i2, i3}
  Key = {k1, k2, k3}
  Projection = {bar1, bar2}
  State <- MCState
  Scope = {scope}
  NoState = NoState
  Snapshot <- MCSnapshot
  SnapshotId = {"nse"}
  Free = Free  Abandoned = Abandoned  Nothing = Nothing
  MaxLife = 1
INVARIANTS TypeOK NoSilentLoss MastersUnique
PROPERTY CallsReturn

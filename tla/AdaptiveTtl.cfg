SPECIFICATION Spec
CONSTANTS
  a = a  r1 = r1  r2 = r2  c1 = c1  c2 = c2
  Address = {a}
  Row = {r1, r2}
  Parties <- MCParties
  Time <- MCTime
  Query <- MCQuery
  Client = {c1, c2}
  NoClient = NoClient
  MaxLimit = 2
  DefaultTtl = 2
  RecentSpan = 1  DaySpan = 2
  RecentTtl = 1  DayTtl = 2  OldTtl = 3
  MaxQueryTime = 1
  MaxClock = 3
INVARIANTS AdaptiveTtl

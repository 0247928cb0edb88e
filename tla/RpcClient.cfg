SPECIFICATION Spec
CONSTANTS
  c1 = c1
  c2 = c2
  c3 = c3
  hist = hist
  work = work
  polling = polling
  own = own
  Caller = {c1, c2, c3}
  Task = {hist, work}
  Limiter = {polling, own}
  TaskOf <- MCTaskOf
  LimiterOf <- MCLimiterOf
  Worker = {work}
  Burst = 1
  Interval = 2
  MaxRetries = 1
  MinDelay = 1
  MaxDelay = 1
  MaxSpan = 2
INVARIANTS TypeOK WithinRate
PROPERTIES CallsReturn

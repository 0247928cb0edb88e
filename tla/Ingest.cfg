SPECIFICATION Spec
CONSTANTS
  t1 = t1
  t2 = t2
  t3 = t3
  a1 = a1
  a2 = a2
  a3 = a3
  a4 = a4
  Tx = {t1, t3}
  Address = {a1, a2, a4}
  Source <- MCSource
  Dest <- MCDest
  Worker = {w1, w2}
  NoWorker = noWorker
  MaxSends = 2
  MaxTrouble = 1
INVARIANTS
  TypeOK
  StoredIsTracked
  TrackedIsLinked
  NoBatchLeftBehind
PROPERTIES
  WorkersExit
  QueuedIsStored
  ImplementsLedger

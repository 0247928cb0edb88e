SPECIFICATION Spec
CONSTANTS
  d1 = d1
  d2 = d2
  d3 = d3
  d4 = d4
  a1 = a1
  a2 = a2
  Delivery = {d1, d2, d3, d4}
  Address = {a1, a2}
  Source <- MCSource
  Caller = {c1, c2}
  Manager = manager
  MaxBatchSize = 2
  ChannelCapacity = 2
INVARIANTS
  TypeOK
  SizeIsExact
  BatchesBounded
  NothingVanishes
  NoDuplicates
PROPERTIES
  ImplementsHandOver
  EventuallyHandedOver
  ManagerStops

SPECIFICATION SafeSpec
CONSTANTS
  d1 = d1
  d2 = d2
  d3 = d3
  d4 = d4
  a1 = a1
  a2 = a2
  Delivery = {d1, d2, d3}
  Address = {a1, a2}
  Source <- MCSource
  Caller = {c1}
  Manager = manager
  MaxBatchSize = 2
  ChannelCapacity = 1
PROPERTIES
  FinalFlushDrains

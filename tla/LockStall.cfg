SPECIFICATION PipelineSpec
CONSTANTS
  d1 = d1
  d2 = d2
  d3 = d3
  a1 = a1
  Delivery = {d1, d2, d3}
  Address = {a1}
  Source <- MCSource
  Caller = {newPoll, histPoll}
  Manager = manager
  NoTask = noTask
  MaxBatchSize = 2
  ChannelCapacity = 1
  ChunkSize = 2
PROPERTIES
  FetchedIsAccepted

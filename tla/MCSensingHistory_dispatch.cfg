SPECIFICATION HSpec
CONSTANTS
  Absent = Absent
  Unseen = Unseen
  Nobody = Nobody
  Alpha = 1
  Beta = 1
  Scale = 2
  NewWeight = 2
  Entity = {1}
  Price = {100}
  Surprise = {}
  NumShards = 1
  ShardOf <- OneShard
  SpikeThreshold = 2
  Capacity = 1
PROPERTIES
  TriggerDispatched

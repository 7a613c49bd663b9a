SPECIFICATION FSpec
CONSTANTS
  Absent = Absent
  Unseen = Unseen
  Nobody = Nobody
  Alpha = 1
  Beta = 1
  Scale = 2
  NewWeight = 2
  Entity = {0, 1}
  Price = {100}
  Surprise = {4}
  NumShards = 2
  ShardOf <- TwoShards
  SpikeThreshold = 2
  Capacity = 1
  Symbol = {3, 4}
  Hash <- SelfHash
  MaxEntities = 2
  Seeded = 1
  Batches <- BothSymbols
  Rng = {1, 2}
  OneIn = 2
INVARIANTS
  FeedTypeOK
  TicksLand
PROPERTIES
  FeedsKeepToSensing
  QuotedIsSensed

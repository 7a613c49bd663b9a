SPECIFICATION HSpec
CONSTANTS
  Absent = Absent
  Unseen = Unseen
  Nobody = Nobody
  Alpha = 1
  Beta = 1
  Scale = 2
  NewWeight = 2
  Entity = {1, 2}
  Price = {100}
  Surprise = {0, 3}
  NumShards = 2
  ShardOf <- TwoShards
  SpikeThreshold = 2
  Capacity = 1
INVARIANTS
  TypeOK
  TriggerCopiesAreCurrent
  RaisesAccounted
  SpikesAreRealMoves
PROPERTIES
  ImplementsTriggerPath
  BaselinesConverge

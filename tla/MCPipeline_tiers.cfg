SPECIFICATION PSpec
CONSTANTS
  Absent = Absent
  Unseen = Unseen
  Nobody = Nobody
  NoEntry = NoEntry
  NoSignal = NoSignal
  NoContent = NoContent
  NoEntity = NoEntity
  NoLink = NoLink
  Alpha = 1
  Beta = 1
  Scale = 2
  NewWeight = 1
  Weight = {0, 1}
  Entity = {1, 2}
  Live = {1}
  Price = {100}
  Surprise = {0, 2}
  NumShards = 1
  ShardOf <- OneShard
  SpikeThreshold = 1
  Capacity = 1
  Label = {"crude", "rate"}
  SeedLabels <- BothLabels
  SeedReturns = 2
  Window = 2
  MinHistory = 2
  MaxTags = 2
  MaxFacts = 3
INVARIANTS
  LinksFollowSpikes
PROPERTIES
  SensingGoesOn
  ReasoningGoesOn
  TriggerIsWorkedOn
  TriggersVanishNowhereElse

SPECIFICATION CSpec
CONSTANTS
  Entity = {1, 2}
  Label = {"crude", "rate", "macro"}
  Sentinel = 99
  SignalEvent <- Signals
  Capacity = 1
  Contributing = {"crude", "rate"}
  Updates <- TwoUpdates
  NumShards = 2
  ShardOf <- TwoShards
  NoEntry = NoEntry
  NoSignal = NoSignal
  NoCall = NoCall
  Ingestor = {i1}
  NoContent = NoContent
  MaxUpdates = 1
INVARIANTS
  CleanIsCurrent

SPECIFICATION RSpec
CONSTANTS
  Entity = {e1, e2}
  Label = {"crude", "rate"}
  Caller = {c1}
  TagLists <- BothLabels
  Window = 3
  MinHistory = 2
  NoEntity = NoEntity
  NoLink = NoLink
  MaxTags = 2
  MaxFacts = 1
  MaxHallucinations = 0
  Return = {0, 1, 2}
  MaxReturns = 4
SYMMETRY Symmetry
INVARIANTS
  WindowIsLatest
  PairsInStep
  SignificanceByMoves
CHECK_DEADLOCK FALSE

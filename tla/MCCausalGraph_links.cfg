SPECIFICATION Spec
CONSTANTS
  Entity = {e1, e2, e3}
  Label = {"x", "y"}
  Caller = {c1, c2}
  TagLists <- SomeLists
  Window = 2
  MinHistory = 2
  NoEntity = NoEntity
  NoLink = NoLink
  MaxTags = 2
  MaxFacts = 2
  MaxHallucinations = 1
SYMMETRY Symmetry
INVARIANTS
  GraphTypeOK
  IndexesAgree
  ListMeetsEveryLabel
  LinksGrounded
  CallsGrounded
  FactsCoverLinks
CHECK_DEADLOCK FALSE

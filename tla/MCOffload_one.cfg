SPECIFICATION Spec
CONSTANTS
  Adapter = {"p"}
  Caller = {"p", "q"}
  AdapterOf <- OneProcess
  AgentState = {s1, s2}
  Missing = Missing
  Empty = Empty
  Garbage = Garbage
  NoState = NoState
  Failed = Failed
  MaxSlot = 3
SYMMETRY Symmetry
INVARIANTS
  TypeOK
  RoundTrip
  HeldIsStored

SPECIFICATION Spec
CONSTANTS
  Entity = {e1, e2, e3, e4}
  Label = {a, b, c, d}
  start_label = a
  max_hops = 2
SYMMETRY Symmetry
INVARIANTS
  TypeOK
  Sound
  Complete
  QueueInOrder
CHECK_DEADLOCK FALSE

\* Two free tasks and a pinned one; CPU 1 has no live node, so its overflow goes to the machine queue.
CONSTANTS
  a = a
  b = b
  d = d
  Tasks = {a, b, d}
  None = None
  N = 2
  Mask <- MaskMixed
  Node <- NodeLost
  NR_NODES = 1
  MAX_VISIT = 2
  STEAL_MIN = 4
  STEAL_MAX = 8
  SLOTS = 32
  VLAG = 1
  VMAX = 1
SYMMETRY FreeSymmetry
SPECIFICATION Spec
INVARIANTS TypeOK OnePlace MaskHolds WokenNeverStranded
PROPERTIES TakesEarliest PoolSpec
CHECK_DEADLOCK FALSE

\* Every task pinned: each join kicks its own CPU.
CONSTANTS
  a = a
  b = b
  d = d
  Tasks = {a, b, d}
  None = None
  N = 2
  Mask <- MaskPinned
  Node <- NodeOne
  NR_NODES = 1
  MAX_VISIT = 8
  STEAL_MIN = 4
  STEAL_MAX = 8
  SLOTS = 32
  VLAG = 1
  VMAX = 1
SPECIFICATION FairSpec
INVARIANT WorkConserving
PROPERTY EveryWaitEnds
CHECK_DEADLOCK FALSE

\* Two free tasks.
CONSTANTS
  a = a
  b = b
  d = d
  Tasks = {a, b}
  None = None
  N = 2
  Mask <- MaskFree
  Node <- NodeOne
  NR_NODES = 1
  MAX_VISIT = 8
  STEAL_MIN = 4
  STEAL_MAX = 8
  SLOTS = 32
  VLAG = 0
  VMAX = 1
SPECIFICATION FairSpec
PROPERTY EveryWaitEnds
CHECK_DEADLOCK FALSE

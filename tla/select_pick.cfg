\* Seven CPUs and three tasks; all windows half as wide as in the code.
CONSTANTS
  a = a
  b = b
  d = d
  Tasks = {a, b, d}
  None = None
  N = 7
  Mask <- MaskMix
  Node <- NodeTwo
  Scanners = {0}
  MAX_VISIT = 4
  BSF_MAX = 2
  STEAL_MIN = 2
  STEAL_MAX = 4
  VMAX = 1
SPECIFICATION Spec
INVARIANTS TypeOK NeverPassedOver
PROPERTY PicksBest

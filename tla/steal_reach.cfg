\* Ten CPUs and the real windows; two tasks that may run on CPUs 0 and 9.
CONSTANTS
  a = a
  b = b
  d = d
  Tasks = {a, b}
  None = None
  N = 10
  Mask <- MaskFar
  Node <- NodeEach
  Scanners = {0, 9}
  MAX_VISIT = 8
  BSF_MAX = 4
  STEAL_MIN = 4
  STEAL_MAX = 8
  VMAX = 0
SPECIFICATION FairSpec
PROPERTY StealReaches

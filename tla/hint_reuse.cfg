\* Two tasks that hold one pid in turn, three cgroups, one cache entry.
CONSTANTS
  Root = root
  g = g
  h = h
  t = t
  u = u
  p = p
  q = q
  Groups = {root, g, h}
  Tasks = {t, u}
  Pids = {p}
  None = None
  Shares = {100, 512}
  HINT_MAX = 2
  CACHE_MAX = 1
  WEIGHT_BASE = 128
  WEIGHT_MAX = 16384
SPECIFICATION Spec
PROPERTY ReusedPidReadsOwn

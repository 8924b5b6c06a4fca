\* Three cgroups, two rows; two tasks, two pids, one cache entry.
CONSTANTS
  Root = root
  g = g
  h = h
  t = t
  u = u
  p = p
  q = q
  Groups = {root, g, h}
  Tasks = {t, u}
  Pids = {p, q}
  None = None
  Shares = {100, 512}
  HINT_MAX = 2
  CACHE_MAX = 1
  WEIGHT_BASE = 128
  WEIGHT_MAX = 16384
SYMMETRY HintSymmetry
SPECIFICATION Spec
INVARIANTS TypeOK CachedIsOwn NothingLeaks
PROPERTY FreshReadsOwn

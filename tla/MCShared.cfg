SPECIFICATION Spec
CONSTANTS
  t = t
  u = u
  x = x
  y = y
  Threads = {t, u}
  Addresses = {x, y}
  MaxCrumbs = 2
  MaxOps = 4
SYMMETRY CachesSymmetry
INVARIANTS CachesTypeOK NamesSafe ImagesTold CrumbsInOrder
CHECK_DEADLOCK FALSE

CONSTANTS
  Ids = {s1, s2}
  Streams = {a}
  Items = {i1, i2}
  Rpcs = {r1, r2}
  Recyclers = {k1}
  Watchdog = wd
  NULL = NULL
  MaxSave = 1
  FreshIds = TRUE
SPECIFICATION Spec
SYMMETRY Symmetry
INVARIANT StatuszAgrees

CONSTANTS
  Ids = {s1}
  Streams = {a}
  Items = {i1, i2}
  Rpcs = {r1, r2, r3}
  Recyclers = {k1, k2}
  Watchdog = wd
  NULL = NULL
  MaxSave = 1
  FreshIds = FALSE
SPECIFICATION Spec
SYMMETRY Symmetry
INVARIANTS ActiveCallOwnsPipeline SingleDestroyer WatchdogPointerValid StreamsHaveOwner
PROPERTIES RefinesLifecycle

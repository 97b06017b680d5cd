CONSTANTS
  Ids = {s1}
  Streams = {a, b}
  Items = {i1}
  Rpcs = {r1, r2}
  Recyclers = {k1}
  Watchdog = wd
  NULL = NULL
  MaxSave = 1
  FreshIds = TRUE
SPECIFICATION FairSpec
INVARIANT RecycleOnlyEmptySession
PROPERTY ClosedIsReclaimed

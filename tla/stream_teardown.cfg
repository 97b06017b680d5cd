SPECIFICATION FairSpec
CONSTANTS
  Reporters = {r1, r2}
  RoomThreads = {t1, t2}
INVARIANTS UsedIsThere 
PROPERTIES RefinesStreamEnd CloseCompletes
CHECK_DEADLOCK FALSE

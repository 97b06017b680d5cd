SPECIFICATION FairSpec
CONSTANTS
  Servers = {s1, s2}
  SessionIds = {i1, i2}
  Calls = {c1, c2}
  None = None
  RpcRetries = 2
  Strategies = {"ROUND_ROBIN", "LEAST_LOAD"}
  InitialServerId = {0, 3}
  SameSeed = FALSE
  MaxFaults = 1
INVARIANTS RoutedToItsServer ExecutedAtMostRetries OkIsExecuted IndexInPool
PROPERTIES CallEnds
CHECK_DEADLOCK FALSE

SPECIFICATION Spec
CONSTANTS
  Servers = {s1, s2}
  SessionIds = {i1, i2}
  Calls = {c1, c2}
  None = None
  RpcRetries = 2
  Strategies = {"ROUND_ROBIN"}
  InitialServerId = {0}
  SameSeed = FALSE
  MaxFaults = 1
INVARIANT CreatedIsRecorded
CHECK_DEADLOCK FALSE

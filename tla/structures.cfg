CONSTANTS
  Ids = {s1, s2, s3}
  Streams = {a}
  NULL = NULL
  MaxSave = 2
  Infos = {o1, o2, o3}
  Callers = {c1}
  MaxTime = 1
  SeqSpace = 32
  QueueSpace = 12
  Tolerance = 2
  TsMod = 64
  Depth = 1
  MaxDepth = 2
  QueueStarts = {0, 4, 9}
  FirstTs = 60
  QueueWindow = 2
  MaxQueued = 5
  MaxLen = 5
  MaxBack = 12
  MissingWait = 0
  NackedWait = 0
  MaxResend = 1
  Limit = 2
  KeyInterval = 2
  RequestFir = TRUE
  FirWait = 1
  TrackerSpan = 2
  MaxBlocks = 4
  TrackerStarts = {8, 30}
  TrackerWindow = 2
  Gap = 5
  MaxTracked = 5
  TrackerTime = 3
  QueueSize = 3
  MaxRetries = 2
  RetryWait = 0
  ListSpan = 2
  ListStarts = {30}
  MaxSent = 4
  MaxNacks = 3
  ListTime = 2
  Wrap = 8
  FirstNumber = 5
  Prebuffering = 1
  KeyFrames = {1, 4}
  MaxPackets = 5
  MaxCopies = 1
  MaxQueue = 3
SPECIFICATION AllSpec
INVARIANTS VectorIsRight PacketsInOrder TrackerIsRight AnsweredOnce
PROPERTIES RefinesStatusz FramesInOrder
CHECK_DEADLOCK FALSE

SPECIFICATION Spec
CONSTANTS
  iceComponents_ = 2
  NICE_QUEUE_MAX_NUMBER = 1
  MaxEvents = 6
  MaxCandidates = 1
  NicePackets = 3
  PeerRetransmits = TRUE
  MayFail = {TRUE}
  Unmuxed = {FALSE}
  MaxLoss = 1
  MaxCopies = 1
  Priorities = {5, 10}
  SeqNumbers = {1, 2}
  MaxPackets = 4
INVARIANTS ConnectionIsSound KeysAgree LeavesInOrder
PROPERTIES IceEnds HandshakeCompletes SenderEnds
CHECK_DEADLOCK FALSE

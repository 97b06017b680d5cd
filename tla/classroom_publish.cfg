SPECIFICATION FairSpec
CONSTANTS
  Streams = {s1, s2}
  Teachers = {s1}
  Slots = 1
  Modulus = 8
  FirstNumbers = {3}
  PublishRequests = {{}, {s2}}
  None = None
  MaxParticipants = 2
  MaxLeaves = 2
  MaxInputs = 2
PROPERTY PublishEnds
CHECK_DEADLOCK FALSE
